CONSTANTS
  MaxChunks = 3
  MaxSize = 30
  Page = 16
  FirstCaps <- MCFirstCaps
  CustomCaps <- MCCustomCaps
  Sizes <- MCSizes
SPECIFICATION Spec
INVARIANTS
  TypeOK
  Tiled
  GrowthDoubles
PROPERTIES
  Stable
  ImplementsContract
CHECK_DEADLOCK FALSE
