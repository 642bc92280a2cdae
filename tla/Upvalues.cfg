SPECIFICATION Spec
CONSTANTS
  Variable = {x1, x2, x3}
  Value = {NIL, v1}
  NIL = NIL
  Upvalue = {u1, u2}
  Closure = {c1, c2}
  SCRIPT = SCRIPT
  NONE = NONE
  CLOSED = CLOSED
  NULL = NULL
  ErrorsEnd = TRUE
  STACK_MAX = 5
  FRAMES_MAX = 2
  MaxArity = 1
  MaxUpvalues = 1
SYMMETRY Symmetry
INVARIANTS TypeOK ClosesOverItsVariable OneUpvalueEach Sorted
PROPERTIES KeepsPromise
CHECK_DEADLOCK FALSE
