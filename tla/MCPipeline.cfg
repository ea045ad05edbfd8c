CONSTANT Schemas <- Pairs
CONSTANT Listed <- DepthFirst
CONSTANT MaxSuffix = 9
CONSTANT Numbers <- Digits
SPECIFICATION Spec
INVARIANTS TypeOK PublicNamesStable NoRuntimeNames ContractsMeetPredicates HeadersInOrder
CHECK_DEADLOCK FALSE
