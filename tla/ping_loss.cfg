SPECIFICATION Spec
CONSTANTS
  r1 = r1
  r2 = r2
  r3 = r3
  r4 = r4
  Result = {r1, r4}
  Exchange <- Exchanges
  w1 = w1
  w2 = w2
  manager = manager
  stopper = stopper
  Worker = {w1, w2}
  BufferManager = manager
  Stopper = stopper
  ChanCap = 2
  BufferSize = 2
INVARIANT LossAsMeasured
CHECK_DEADLOCK FALSE
