SPECIFICATION Spec
CONSTANTS
  BYTE_RANGE = 32
  REG_BYTES = 2
  Memories <- MCMemories
  NodeNames <- MCNodeNames
  PropNames <- MCPropNames
  Values <- MCValues
  Reservations <- MCReservations
  Sizes <- MCSizes
  Moves <- MCMoves
VIEW MCView
CHECK_DEADLOCK FALSE
INVARIANTS TypeOK
PROPERTIES ImplementsTree CallsJustified
