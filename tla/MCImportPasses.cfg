CONSTANTS
  N = 3
  p0 = p0
  p1 = p1
  p2 = p2
  nowhere = nowhere
  Path <- MCPath
  SourcePaths <- MCSourcePaths
  ImportLists <- MCImportLists
SPECIFICATION Spec
INVARIANTS
  TypeOK
  ScratchFits
  CycleVerdict
  VisibleExact
  FileOrder
PROPERTIES
  ImplementsContract
  Termination
CHECK_DEADLOCK FALSE
