CONSTANTS
  N = 3
  FieldLists <- MCFieldLists
SPECIFICATION Spec
INVARIANTS
  TypeOK
  ScratchFits
  PredeclareExact
  OnlyRecursionPredeclared
  DeclaredBeforeUse
  DeclaredOnce
  PredicatesKnown
CHECK_DEADLOCK FALSE
