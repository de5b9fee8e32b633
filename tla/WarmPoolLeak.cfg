CONSTANTS
  VMs = {v1, v2}
  Handlers = {h1, h2}
  target = 1
  MaxConcurrent = 1
  MaxRequests = 2
  MaxFailures = 0
  NoVM = NoVM
SPECIFICATION Spec
PROPERTIES
  IdleVMsDestroyed
CHECK_DEADLOCK FALSE
