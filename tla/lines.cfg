SPECIFICATION FairSpec
CONSTANTS
  l1 = l1
  l2 = l2
  r1 = r1
  r2 = r2
  i1 = i1
  i2 = i2
  Line = {l1, l2}
  Router = {r1, r2}
  Interval = {i1, i2}
  InvalidRouter = {r2}
  t1 = t1
  t2 = t2
  t3 = t3
  NoRouter = r2
  DefaultInterval = i2
  Malformed = Malformed
  Unset = Unset
  Template = {t1, t2, t3}
  Linked <- LinkedTo
  Parents <- ParentsOf
  Zabbix <- Moving
  MaxSyncs = 3
  InboxCap = 1
INVARIANT TypeOK
INVARIANT EffectiveSettings
INVARIANT LinesHaveScheduler
INVARIANT EmptySchedulerTimed
INVARIANT ListedOnce
PROPERTY ManagerConverges
CHECK_DEADLOCK FALSE
