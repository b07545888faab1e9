SPECIFICATION Spec
CONSTANTS
  w1 = w1
  w2 = w2
  s1 = s1
  i1 = i1
  i2 = i2
  d1 = d1
  Tx = {w1, w2, p1}
  NoTx = NoTx
  Consumer = {w1, w2}
  Pump = {p1}
  Stream = {s1}
  Length <- OneStream
  StreamOf <- Overlapping
  Event <- OneStreamEvents
  Instance = {i1}
  NoInstance = NoInstance
  RouteEvent <- SameInstance
  Deadline = {d1}
  NoCause = NoCause
  MarshalCanFail = TRUE
  MaxFailures <- FirstMayFail
  MaxRollbacks = 1
INVARIANTS
  DeadlineEffectsOnce
CHECK_DEADLOCK FALSE
