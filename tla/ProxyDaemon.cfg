CONSTANTS
  Handlers = {h1, h2}
  Rotators = {r1}
  Sessions = {s1}
  Pools <- MCPools
  Usages <- MCUsages
  Bodies <- MCBodies
  captureCap = 2
  MaxStarts = 3
  MaxTime = 1
  MaxTokensIn = 2
  MaxTokensOut = 3
  MaxRequests = 1
  MaxRequestsPerMinute = 1
  Minute = 1
  None = None
CHECK_DEADLOCK FALSE
SPECIFICATION MCSpec
INVARIANTS
  OvershootBounded
  CountsNoMoreThanHeld
  NoLostWakeup
  NewRequestsUseNewKeys
  QuotaChargesReported
  AuditAgreesWithQuota
PROPERTIES
  HungUpstreamWedgesNothing
