SPECIFICATION Spec
CONSTANTS
  k1 = k1
  k2 = k2
  k3 = k3
  v1 = v1
  NULL = NULL
  NIL = NIL
  TRUEVAL = v1
  Key <- MCKey
  Value <- MCValue
  Hash <- MCHash
  MinSize = 2
  MaxSize = 8
INVARIANTS TypeOK KeysFindable ProbesEnd
PROPERTIES KeepsMap
