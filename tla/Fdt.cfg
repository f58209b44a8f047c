SPECIFICATION Spec
CONSTANTS
  BYTE_RANGE = 32
  REG_BYTES = 2
  Trees <- MCTrees
INVARIANTS AcceptedIsTree FlattenedIsRead FindsNodes PathsLeadBack LookupsAgree
PROPERTIES WalksAdvance
