SPECIFICATION MemSpec
CONSTANTS
  x = x
  y = y
  Byte <- MCByte
  BufLen = 3
  Word = 5
  OUTSIDE = OUTSIDE
INVARIANTS
  InsideBuffer
  Lasts
PROPERTY
  ActsAsPipe
