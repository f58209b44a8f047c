SPECIFICATION Spec
CONSTANTS
  LONG_BITS = 8
  MEMORY_SIZE = 16
  Calls <- MCCalls
INVARIANTS TypeOK StoresWhatFits FetchesPassed
PROPERTIES AsStandardSays Returns
CHECK_DEADLOCK FALSE
