SPECIFICATION FairSpec
CONSTANTS
  p1 = p1
  e1 = e1
  e2 = e2
  k1 = k1
  k2 = k2
  Call = {p1, e1, e2}
  Prompt = {p1}
  Interactive = {e2}
  Closer = {k1, k2}
  Factory = Factory
  None = None
INVARIANTS HarmNeedsOverlap OneUnlessTimedOut
PROPERTIES LostForGood CallsReturn GoroutinesEnd
CHECK_DEADLOCK FALSE
