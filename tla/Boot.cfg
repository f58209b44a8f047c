SPECIFICATION MCSpec
CONSTANTS
  BYTE_RANGE = 2
  MAX_MEM_REGIONS = 2
  Trees <- MCTrees
  HartIds = {0, 1}
  ClintNodes <- MCClintNodes
INVARIANTS
  TypeOK MaskedWithoutVector SupervisorReady
  MemoryTypeOK RegionsFromTree SuccessIsComplete StopsForReason
PROPERTY BootSettles
CHECK_DEADLOCK FALSE
