SPECIFICATION FairSpec
CONSTANTS
  c1 = c1
  c2 = c2
  c3 = c3
  Caller = {c1, c2}
  MaxAttempts = 2
  MaxFailures = 20
  MinRequests = 30
  MaxRequests = 5
  Rate = 7
  Of = 10
  RequestBound = 21
PROPERTIES Recovers
