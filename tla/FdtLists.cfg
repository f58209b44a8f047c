SPECIFICATION Spec
CONSTANTS
  BYTE_RANGE = 32
  REG_BYTES = 2
  Trees <- ListTrees
INVARIANT UnterminatedRefused
