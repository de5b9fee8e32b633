CONSTANTS
  VMs = {v1, v2}
  Callers = {c1, c2}
  MaxConcurrent = 1
  MaxLeft = 2
  NoVM = NoVM
SPECIFICATION MgrSafety
INVARIANTS OneTeardown NothingOrphaned RunningHoldsAll ImageNotShared OvershootBounded
