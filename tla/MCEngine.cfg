SPECIFICATION FairSpec
CONSTANTS
  e1 = e1
  e2 = e2
  app = app
  other = other
  Engine = {e1, e2}
  Applications <- MCApplications
  Listening = {e1}
  Unbound = Unbound
  Unlocked = Unlocked
  Caller = {c1}
  EngineOf <- MCEngineOf
  Interval = 1
  BaseDelay = 1
  TransientMaxDelay = 1
  PersistentMaxDelay = 2
  ResetThreshold = 1
  MaxFaults = 1
INVARIANTS
  OneApplication
PROPERTIES
  CallersAnswered
  CanceledStops
  CompactionRecurs
  WaitSuitsFailure
  OncePerInterval
CHECK_DEADLOCK FALSE
