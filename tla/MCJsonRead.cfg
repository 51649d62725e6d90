SPECIFICATION Spec
CONSTANTS
  k1 = k1
  k2 = k2
  NONE = NONE
  Key <- MCKey
  MaxDepth = 2
  SBufLen = 2
  NumberLen = 3
  MaxInput = 11
INVARIANTS
  NoLeak
  ErrorIndex
  NestingBounded
PROPERTIES
  EndIsAnError
  SilentOnlyByKey
  Finishes
