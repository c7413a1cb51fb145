SPECIFICATION Spec
CONSTANTS
  c1 = c1
  c2 = c2
  b1 = b1
  r1 = r1
  Conn = {c1, c2}
  NoConn = NoConn
  Borrower = {b1}
  Rebuilder = {r1}
  Warmer = {}
  Cleaner = Cleaner
  MaxConnections = 1
  DegradedFailureThreshold = 1
  UnhealthyFailureThreshold = 1
  HealthCheckTriggerRebuild = TRUE
  RebuildOnDegraded = FALSE
SYMMETRY Perms
INVARIANTS
  NoTeardownInUse
CHECK_DEADLOCK FALSE
