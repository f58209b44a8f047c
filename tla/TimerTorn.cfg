SPECIFICATION Spec
CONSTANTS
  LO_RANGE = 4
  HI_RANGE = 4
  MAX_START = 5
  MAX_CALL_TIME = 8
  MAX_TIME = 14
INVARIANT DeadlineFromNow
CHECK_DEADLOCK FALSE
