CONSTANTS
  Clients = {c1, c2}
  None = None
  ringLimit = 2
  ChanCap = 1
  MaxChunk = 2
  MaxOutput = 4
CHECK_DEADLOCK FALSE
SPECIFICATION Safety
INVARIANT SendsOnlyToAttached
