SPECIFICATION Spec
CONSTANTS
  o1 = o1
  o2 = o2
  o3 = o3
  Obj <- MCObj
  NULL = NULL
  Kinds <- ClassKinds
  RootsInUse <- StringRoots
  LastSlot = {}
  ConvertsLeft = TRUE
  FirstGC = 1
  StressGC = FALSE
  MaxBytes = 4
INVARIANT NoDangling
CHECK_DEADLOCK FALSE
