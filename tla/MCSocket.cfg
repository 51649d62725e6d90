SPECIFICATION Spec
CONSTANTS
  h1 = h1
  h2 = h2
  a = a
  b = b
  NONE = NONE
  Handle <- MCHandle
  Addr <- MCAddr
  Fd <- MCFd
  Wait <- MCWait
  Hosts <- MCHosts
INVARIANTS
  Owned
  NoLeak
  WaitsKept
  AllTried
PROPERTY ConnectReturns
