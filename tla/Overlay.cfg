SPECIFICATION Spec
CONSTANTS
  BYTE_RANGE = 32
  REG_BYTES = 2
  MAX_CALLS = 2
  Inputs <- MCInputs
CHECK_DEADLOCK FALSE
INVARIANTS TypeOK AllOrNothing AppliedIfPossible
