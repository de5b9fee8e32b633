CONSTANTS
  VMs = {v1, v2, v3}
  Handlers = {h1, h2}
  target = 1
  MaxConcurrent = 2
  MaxRequests = 2
  MaxFailures = 1
  NoVM = NoVM
SPECIFICATION Spec
INVARIANTS
  OneHolder
  RefillsAccountedFor
CHECK_DEADLOCK FALSE
PROPERTY PoolFillsUp
