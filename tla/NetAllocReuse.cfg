CONSTANTS
  Size = 8
  AddrTop = 10
  LoopLimit = 16
  MacLimit = 16
  CidLimit = 4096
SPECIFICATION Spec
INVARIANT ReleasedAddressesReusable
