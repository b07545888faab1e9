SPECIFICATION Spec
CONSTANTS
  Node = {n1, n2}
  SegmentSize = 1
  BufferSize = 1
  MaxLength = 2
  NoOffset = NoOffset
  Watched <- AllWanted
  Wanted <- AllWanted
  Capacity = 1
  NoFeed = NoFeed
  MaxFaults = 1
INVARIANTS HandledOnceInOrder ReadsServable
SYMMETRY Nodes
CHECK_DEADLOCK FALSE
