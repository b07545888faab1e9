SPECIFICATION FairSpec
CONSTANTS
  tied = tied
  ranked = ranked
  Node = {1, 2}
  NoID = NoID
  Workload = {tied, ranked}
  Interval = 1
  Timeout = 2
  BufferSize = 2
  MaxFaults = 2
  Score <- Scores
  Rank <- ByID
INVARIANTS
  SilenceNoticed
PROPERTIES
  NoHastyRemoval
  WorkloadsSharedOut
CHECK_DEADLOCK FALSE
