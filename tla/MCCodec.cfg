CONSTANTS
  null = null
  Null = null
  Group = 3
  Bytes32 = 2
  Bytes64 = 4
  Types <- MCTypes
  Written <- MCWritten
  Foreign <- MCForeign
SPECIFICATION Spec
INVARIANT TypeOK
INVARIANT SizeExact
INVARIANT ReadsWhatWasWritten
INVARIANT TruncationDetected
CHECK_DEADLOCK FALSE
