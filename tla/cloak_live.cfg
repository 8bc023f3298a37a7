CONSTANTS
  Streams = {1}
  Data = {d1}
  NoData = NoData
  NoPush = NoPush
  MaxOpens = 1
  InboxCap = 1
  MaxChunks <- Download
SPECIFICATION FairSpec
CHECK_DEADLOCK FALSE
PROPERTIES
  WriteGetsThrough
  ReadLoopRecovers
