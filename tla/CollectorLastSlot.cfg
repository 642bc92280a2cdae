SPECIFICATION Spec
CONSTANTS
  o1 = o1
  o2 = o2
  o3 = o3
  Obj <- MCObj
  NULL = NULL
  Kinds <- ClassKinds
  RootsInUse <- StringRoots
  LastSlot = {o1}
  ConvertsLeft = FALSE
  FirstGC = 1
  StressGC = FALSE
  MaxBytes = 4
INVARIANT InternsAllocated
CHECK_DEADLOCK FALSE
