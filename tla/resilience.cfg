SPECIFICATION FairSpec
CONSTANTS
  c1 = c1
  c2 = c2
  c3 = c3
  Caller = {c1, c2, c3}
  MaxAttempts = 2
  MaxFailures = 2
  MinRequests = 3
  MaxRequests = 2
  Rate = 1
  Of = 2
  RequestBound = 3
INVARIANTS ClosedWithinLimit TrialBounded
PROPERTIES WedgedForGood ExecuteReturns
