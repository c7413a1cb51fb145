SPECIFICATION Spec
CONSTANTS
  c1 = c1
  c2 = c2
  b1 = b1
  r1 = r1
  r2 = r2
  w1 = w1
  Conn = {c1, c2}
  NoConn = NoConn
  Borrower = {b1}
  Rebuilder = {r1, r2}
  Warmer = {w1}
  Cleaner = Cleaner
  MaxConnections = 1
  DegradedFailureThreshold = 1
  UnhealthyFailureThreshold = 2
  HealthCheckTriggerRebuild = TRUE
  RebuildOnDegraded = TRUE
SYMMETRY Perms
INVARIANTS
  RebuildOwnership
  NoLeakedDriver
  PoolDriversLive
CHECK_DEADLOCK FALSE
