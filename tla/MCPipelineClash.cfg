CONSTANT Schemas <- Pairs
CONSTANT Listed <- DepthFirst
CONSTANT MaxSuffix = 9
CONSTANT Numbers <- Digits
SPECIFICATION Spec
INVARIANT PrintedOnce
CHECK_DEADLOCK FALSE
