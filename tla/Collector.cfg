SPECIFICATION FairSpec
CONSTANTS
  o1 = o1
  o2 = o2
  o3 = o3
  Obj <- MCObj
  NULL = NULL
  Kinds <- MCKinds
  RootsInUse <- MCRoots
  LastSlot = {}
  ConvertsLeft = FALSE
  FirstGC = 3
  StressGC = TRUE
  MaxBytes = 4
INVARIANTS TypeOK NoDangling ListIntact TriColor InternsAllocated MarksClear BytesAccounted
PROPERTIES KeepsPromise CollectionEnds
CONSTRAINTS OneFamily FewRoots
ACTION_CONSTRAINT LowestFirst
CHECK_DEADLOCK FALSE
