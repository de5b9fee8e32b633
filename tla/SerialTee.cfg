CONSTANTS
  Clients = {c1, c2, c3}
  None = None
  ringLimit = 2
  ChanCap = 1
  MaxChunk = 2
  MaxOutput = 4
CHECK_DEADLOCK FALSE
SPECIFICATION Spec
INVARIANTS SeesOutputInOrder LatestMissesNothing
PROPERTY NeverBlocksVM
