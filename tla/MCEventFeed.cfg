SPECIFICATION FairSpec
CONSTANTS
  Node = {n1}
  SegmentSize = 1
  BufferSize = 1
  MaxLength = 4
  NoOffset = NoOffset
  Watched <- SomeWatched
  Wanted <- SomeWanted
  Capacity = 1
  NoFeed = NoFeed
  MaxFaults = 2
INVARIANTS WatchContiguous CacheSound HandledOnceInOrder
PROPERTY EveryEventHandled
CHECK_DEADLOCK FALSE
