SPECIFICATION Spec
CONSTANTS
  NONE = NONE
  Doc <- MCDoc
  Indents <- MCIndents
  NumberLen = 3
  MaxRoom = 60
INVARIANTS
  Whole
  MemoryWhole
  SocketLosesSeparators
  Counts
  FailsWithReason
