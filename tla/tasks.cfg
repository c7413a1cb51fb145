SPECIFICATION FairSpec
CONSTANTS
  q1 = q1
  q2 = q2
  w1 = w1
  w2 = w2
  QueueWorker = {q1, q2}
  Worker = {w1, w2}
  MaxConnections = 2
  QueueCap = 2
  NotifyCap = 1
  MaxLines = 2
INVARIANTS
  TypeOK
  ResourcesOwned
  RoomForEveryTask
PROPERTIES
  SlotsComeBack
  StopReturns
CHECK_DEADLOCK FALSE
