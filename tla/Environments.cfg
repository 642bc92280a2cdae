SPECIFICATION Spec
CONSTANTS
  Name = {"a", "b"}
  Member = {"init", "m"}
  Outlines <- Programs
  MaxEnvironments = 9
  MaxFrames = 6
INVARIANTS TypeOK EnvironmentsNest LookupsAreLexical MissesInInitializer WarningsTrue SuperIsStatic Unwound
CHECK_DEADLOCK FALSE
