CONSTANTS
  Calls = {1, 2, 3, 4}
  Sockets = {1, 2, 3, 4}
  MaxReconnects = 2
  MaxVMs = 3
  MaxClicks = 2
  MaxFaults = 2
  MaxEvents = 3
CHECK_DEADLOCK FALSE
SPECIFICATION Spec
INVARIANTS
  InputGoesToCurrent
  SettledPageWorks
  OneVMPerOwner
PROPERTIES
  ComesToRest
