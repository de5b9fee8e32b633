CONSTANTS
  Size = 4
  AddrTop = 5
  LoopLimit = 16
  MacLimit = 16
  CidLimit = 4096
  IPs = {ip1}
  Names <- MCNames
  MaxNameLen = 2
  Burst = 2
  Refill = 2
  CookieMaxAge = 1
  MaxClock = 2
  MaxAttempts = 3
  Migrations <- MCMigrations
  m1 = m1
  m2 = m2
  MaxCrashes = 1
  MaxStops = 1
  MaxFaults = 1
SPECIFICATION DaemonSpec
INVARIANTS
  DaemonTypeOK
  LeasesDistinct
  LoginRateBounded
  IssuedCookiesWork
  MigratedExactlyOnce
  RestartsDoNotPileUp
PROPERTIES
  ServesInTheEnd
