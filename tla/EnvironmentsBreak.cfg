SPECIFICATION Spec
CONSTANTS
  Name = {"a", "b"}
  Member = {"init", "m"}
  Outlines <- ShortPrograms
  MaxEnvironments = 9
  MaxFrames = 6
INVARIANTS BreakEndsALoop
CHECK_DEADLOCK FALSE
