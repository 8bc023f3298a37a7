CONSTANTS
  b1 = b1
  b2 = b2
  Backends = {b1, b2}
  Streams = {s1, s2}
  Proxies = {p1}
  Scores <- SlowFast
  Unit <- Whole
  None = None
  ChanCap = 1
  MaxReports = 3
SPECIFICATION FairSpec
CHECK_DEADLOCK FALSE
INVARIANTS
  RegisteredIsOpen
  StreamsAreOpen
  InSync
PROPERTIES
  SharesArrive
