SPECIFICATION Spec
CONSTANTS
  wanted = wanted
  unwanted = unwanted
  h1 = h1
  h2 = h2
  s1 = s1
  s2 = s2
  AllTypes = AllTypes
  None = None
  Stream = {s1, s2}
  MaxLength = 5
  First <- FirstOffset
  Type = {wanted, unwanted}
  TypeOf <- TypeOfEvent
  HeaderOf <- HeaderOfEvent
  HeaderSize <- HeaderSizes
  BodySize <- BodySizes
  Stored = {0, 1, 2, 3, 4}
  Requested = {wanted}
  MaxSegmentBytes = 8
  SegmentSize = 2
  Window = 2
  Lie <- Lies
  MaxFaults = 1
INVARIANTS
  AcceptedWellFormed
  HonestDelivery
  PartsBounded
  QuietMeansCaughtUp
CHECK_DEADLOCK FALSE
