SPECIFICATION Spec
CONSTANTS
  WORD_SIZE = 2
  UINT_RANGE = 8
  BUF_WORDS = 3
  MAX_MARK = 3
PROPERTY LegalFreeNeverHalts
CHECK_DEADLOCK FALSE
