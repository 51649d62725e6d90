SPECIFICATION Spec
CONSTANTS
  NONE = NONE
  Doc <- MCDoc
  Indents <- MCIndents
  Key <- MCKey
  Rests <- MCRests
  NumberLen = 4
  MaxRoom = 60
  MaxDepth = 3
  SBufLen = 4
  MaxInput = 61
INVARIANTS
  RoundTrip
  TakesItsText
