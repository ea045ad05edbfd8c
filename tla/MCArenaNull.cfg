CONSTANTS
  MaxChunks = 3
  MaxSize = 30
  Page = 16
  FirstCaps <- MCFirstCaps
  CustomCaps <- MCCustomCaps
  Sizes <- MCSizes
SPECIFICATION Spec
INVARIANT NullOnlyWhenExhausted
CHECK_DEADLOCK FALSE
