SPECIFICATION FairSpec
CONSTANTS
  c1 = c1
  c2 = c2
  s1 = s1
  NoFeed = NoFeed
  Conn = {c1, c2}
  Stream = {s1}
  MaxFaults = 2
INVARIANTS
  NoUseAfterRemove
  ServedWhileAvailable
PROPERTIES
  NeverTwiceOnOneNode
  ConsumptionFollows
  TeardownCompletes
CHECK_DEADLOCK FALSE
