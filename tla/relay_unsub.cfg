CONSTANTS
  a = a
  b = b
  Topics = {a, b}
  Subs = {s1}
  Requests <- AllRequests
  BufferSize = 2
  ChanCap = 1
  MaxEvents = 3
SPECIFICATION Spec
CHECK_DEADLOCK FALSE
INVARIANTS
  ServerSurvives
