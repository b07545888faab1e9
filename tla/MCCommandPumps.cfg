SPECIFICATION FairSpec
CONSTANTS
  c1 = c1
  c2 = c2
  c3 = c3
  c4 = c4
  i1 = i1
  Tx = {t1, t2}
  NoTx = NoTx
  Command = {c1, c2, c3, c4}
  NoCommand = NoCommand
  Stream = {s1, s2}
  NoStream = NoStream
  Instance = {i1}
  NoInstance = NoInstance
  InstanceOf <- TwoOfEach
  MinimizeConcurrency = TRUE
  MaxEvents <- FirstRecordsTwo
  MaxFailures <- FirstsMayFail
  MaxRollbacks = 1
INVARIANTS
  OffsetsContiguous
  NoEmptyStream
  HandledOnce
  InstanceInOneStream
  DecidedOnHistory
  OneIntegrationAtATime
PROPERTIES
  ImplementsCommandHandling
  EveryCommandHandled
CHECK_DEADLOCK FALSE
