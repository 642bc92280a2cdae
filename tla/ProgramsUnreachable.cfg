SPECIFICATION Spec
CONSTANTS
  Inputs <- Branches
  Base = 256
  MaxConstants = 256
  MaxArguments = 255
  MaxReads = 1
  MaxLoops = 0
INVARIANT UnreachableIsTrue
CHECK_DEADLOCK FALSE
