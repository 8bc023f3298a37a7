CONSTANTS
  a = a
  b = b
  Topics = {a, b}
  Subs = {s1}
  Requests <- AllRequests
  BufferSize = 2
  ChanCap = 1
  MaxEvents = 4
SPECIFICATION FairSpec
CHECK_DEADLOCK FALSE
INVARIANTS
  ReplayIsTail
  SeamIsTight
  TopicsHoldOpen
PROPERTIES
  ReplayEnds
