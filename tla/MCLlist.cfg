SPECIFICATION Spec
CONSTANTS
  n1 = n1
  n2 = n2
  n3 = n3
  n4 = n4
  v1 = v1
  v2 = v2
  x1 = x1
  Node <- MCNode
  Value <- MCValue
  Iter <- MCIter
  NULL = NULL
  CLOSED = CLOSED
  NoValue = NoValue
  MaxIndex = 5
SYMMETRY Symmetric
INVARIANTS
  Shape
  NothingLost
PROPERTY
  ImplementsList
