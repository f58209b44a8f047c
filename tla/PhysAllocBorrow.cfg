SPECIFICATION Spec
CONSTANTS
  WORD_SIZE = 4
  UINT_RANGE = 64
  PAGE_SIZE = 4
  WORD_BYTES = 2
  Machines <- LargeMachines
INVARIANT BitmapPagesBorrowed
CHECK_DEADLOCK FALSE
