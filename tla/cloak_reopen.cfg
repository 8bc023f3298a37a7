CONSTANTS
  Streams = {1}
  Data = {d1}
  NoData = NoData
  NoPush = NoPush
  MaxOpens = 2
  InboxCap = 1
  MaxChunks <- Upload
SPECIFICATION Spec
CHECK_DEADLOCK FALSE
INVARIANTS
  DuplicatesOnlyReAck
