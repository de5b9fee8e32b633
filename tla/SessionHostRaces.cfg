CONSTANTS
  VMs = {v1}
  Handlers = {h1, h2}
  Idlers = {idler}
  Mains = {main}
  Callers = {h1, h2, idler, main}
  MaxConcurrent = 1
  MaxLeft = 1
  NoVM = NoVM
  DBReliable = FALSE
SPECIFICATION Safety
SYMMETRY Symmetry
INVARIANTS
  NoStrayVM
  StampedMeansGone
PROPERTIES
  ReportedAtMostOnce
  MgrSafety
CHECK_DEADLOCK FALSE
