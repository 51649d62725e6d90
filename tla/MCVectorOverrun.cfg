SPECIFICATION Spec
CONSTANTS
  v1 = v1
  v2 = v2
  x1 = x1
  Junk = Junk
  NoValue = NoValue
  Value <- MCValue
  Iter <- MCIter
  Alloc <- MCAlloc
  MaxLen = 4
SYMMETRY Symmetric
CHECK_DEADLOCK FALSE
INVARIANT
  InsideBlock
