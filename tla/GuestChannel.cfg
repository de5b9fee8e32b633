CONSTANTS
  Clients = {c1}
  Conns = {k1, k2, k3}
  Sizes = {small, large}
  MaxResizes = 2
  MaxDrops = 2
  None = None
  NoSize = NoSize
CHECK_DEADLOCK FALSE
SPECIFICATION Spec
INVARIANT NeverStoresClosed
PROPERTY SizeReachesGuest
