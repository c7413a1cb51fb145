SPECIFICATION Spec
CONSTANTS
  c1 = c1
  c2 = c2
  b1 = b1
  b2 = b2
  r1 = r1
  Conn = {c1, c2}
  NoConn = NoConn
  Borrower = {b1, b2}
  Rebuilder = {r1}
  Warmer = {}
  Cleaner = Cleaner
  MaxConnections = 1
  DegradedFailureThreshold = 1
  UnhealthyFailureThreshold = 1
  HealthCheckTriggerRebuild = TRUE
  RebuildOnDegraded = FALSE
SYMMETRY Perms
INVARIANTS
  TypeOK
  ExclusiveUse
  NoStrandedConnection
  NilDriverAnnounced
  PoolBound
PROPERTIES
  UnhealthyIsFinal
  KeepsPromise
CHECK_DEADLOCK FALSE
