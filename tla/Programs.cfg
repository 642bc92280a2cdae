SPECIFICATION Spec
CONSTANTS
  Inputs <- AllPrograms
  Base = 6
  MaxConstants = 9
  MaxArguments = 2
  MaxReads = 3
  MaxLoops = 3
INVARIANTS SameLanguage SameMeaning SlotsAreHeights Aligned NoCascade DeclarationsAdvance
CHECK_DEADLOCK FALSE
