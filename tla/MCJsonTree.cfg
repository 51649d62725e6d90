SPECIFICATION Spec
CONSTANTS
  n1 = n1
  n2 = n2
  n3 = n3
  n4 = n4
  k1 = k1
  k2 = k2
  a1 = a1
  a2 = a2
  NONE = NONE
  Node <- MCNode
  Key <- MCKey
  Atom <- MCAtom
  Scalar <- MCScalar
  MaxRefused = 1
SYMMETRY Symmetric
INVARIANTS
  OneOwner
  EqualsDocuments
PROPERTIES
  CopyIsEqual
  ReplaceAllOrNothing
