CONSTANTS
  VMs = {v1}
  Handlers = {h1, h2}
  Idlers = {idler}
  Mains = {}
  Callers = {h1, h2, idler}
  MaxConcurrent = 1
  MaxLeft = 1
  NoVM = NoVM
  DBReliable = FALSE
SPECIFICATION Spec
PROPERTIES
  ExitedIsReleased
  LedgerSpec
  TerminalEndsWithVM
