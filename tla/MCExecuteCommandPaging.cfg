SPECIFICATION FairSpec
CONSTANTS
  c1 = c1 c2 = c2 c3 = c3 k1 = k1 s1 = s1
  Caller = {c1}
  Key = {k1}
  NoKey = NoKey
  KeyOf <- SharedKey
  Stream = {s1}
  MaxEvents = 2
  Satisfying <- SecondEvent
  Limit = 1
  MaxAttempts = 1
  NoMessage = NoMessage
  NoCaller = NoCaller
PROPERTY ObserverSatisfied
CHECK_DEADLOCK FALSE
