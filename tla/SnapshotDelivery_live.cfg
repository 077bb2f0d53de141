CONSTANTS
  Parts = {p1, p2}
  MaxChanges = 2
  IpChanges = {1}
  Values = {none, big}
  Empty = none
  big = big
  TooLarge <- Bulky
  p2 = p2
  Sessions = {s1, s2}
  None = None
  MaxWire = 1
  MaxStream = 3
  FaultKinds = {"request", "publish", "answer", "link", "crash", "agent"}
  MaxFaults = 1
  MaxEvents = 2
SPECIFICATION FairSpec
INVARIANTS TypeOK LastIsCurrentAndTold
PROPERTIES ImplementsFeed EventuallyCurrent
CHECK_DEADLOCK FALSE
