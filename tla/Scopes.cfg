SPECIFICATION Spec
CONSTANTS
  Name = {x, y}
  SuperNames = {"super"}
  UINT8_COUNT = 3
  MaxFunctions = 3
  MaxScope = 2
SYMMETRY Symmetry
INVARIANTS TypeOK OperandsReach DepthsOrdered
PROPERTIES KeepsPromise
CONSTRAINT Bound
