SPECIFICATION Spec
CONSTANTS
  WORD_SIZE = 2
  UINT_RANGE = 8
  BUF_WORDS = 3
  MAX_MARK = 3
INVARIANTS TypeOK OwnedStayUsed 
PROPERTIES FreshFirstFit ImplementsSlotPool
CHECK_DEADLOCK FALSE
