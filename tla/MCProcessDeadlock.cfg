SPECIFICATION Spec
CONSTANTS
  w1 = w1
  w2 = w2
  s1 = s1
  i1 = i1
  i2 = i2
  d1 = d1
  Tx = {w1, p1, p2}
  NoTx = NoTx
  Consumer = {w1}
  Pump = {p1, p2}
  Stream = {s1}
  Length <- FourOffsets
  StreamOf <- Alone
  Event <- FourEvents
  Instance = {i1, i2}
  NoInstance = NoInstance
  RouteEvent <- Alternating
  Deadline = {d1, d2, d3, d4}
  NoCause = NoCause
  MarshalCanFail = FALSE
  MaxFailures <- NoneFails
  MaxRollbacks = 0
INVARIANTS
  NoDeadlock
CONSTRAINT Quiet
SYMMETRY Symmetric
CHECK_DEADLOCK FALSE
