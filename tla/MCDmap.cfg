SPECIFICATION Spec
CONSTANTS
  n1 = n1
  n2 = n2
  n3 = n3
  n4 = n4
  k1 = k1
  k2 = k2
  k3 = k3
  k4 = k4
  v1 = v1
  v2 = v2
  x1 = x1
  NULL = NULL
  CLOSED = CLOSED
  NoValue = NoValue
  Node <- MCNode
  Key <- MCKey
  Value <- MCValue
  Iter <- MCIter
SYMMETRY Symmetric
INVARIANTS
  Shape
  NothingLost
PROPERTY
  ImplementsMap
