SPECIFICATION Spec
CONSTANTS
  Obj <- MCObj
  Kind <- MCKind
  MainThread = "main"
  Registry = "registry"
  None = "none"
  Other = "other"
  Arenas <- MCArenas
  MaxStack = 2
  MaxNodes = 1
  GCSWEEPMAX = 3
CHECK_DEADLOCK FALSE
INVARIANTS
  NoDanglingReference
  BlackNeverPointsToWhite
  AssertionsHold
PROPERTY
  FinalizersRunOnce
