SPECIFICATION Spec
CONSTANTS
  a = a
  b = b
  Peer <- MCPeer
  FOREVER = FOREVER
  LIMITED = LIMITED
  Settings <- MCSettings
  Cap = 1
  MaxBytes <- MCMaxBytes
  MaxAsk = 2
CHECK_DEADLOCK FALSE
INVARIANTS
  EndAfterAllBytes
  KilledByRaceOnly
PROPERTIES
  Streams
  AllOrRefused
  CallsReturn
