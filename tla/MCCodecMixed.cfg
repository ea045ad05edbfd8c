CONSTANTS
  null = null
  Null = null
  Group = 3
  Bytes32 = 2
  Bytes64 = 4
  Types <- MCTypes
  Written <- MCWritten
  Foreign <- EmptyBlocks
SPECIFICATION Spec
INVARIANT MixedFormsRejected
CHECK_DEADLOCK FALSE
