SPECIFICATION LiveSpec
CONSTANTS
  LO_RANGE = 4
  HI_RANGE = 4
  MAX_START = 5
  MAX_CALL_TIME = 8
  MAX_TIME = 14
INVARIANTS TypeOK NeverEarly
PROPERTY SleepEnds
CHECK_DEADLOCK FALSE
