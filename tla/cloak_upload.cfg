CONSTANTS
  Streams = {1}
  Data = {d1, d2}
  NoData = NoData
  NoPush = NoPush
  MaxOpens = 1
  InboxCap = 1
  MaxChunks <- TwoChunks
SPECIFICATION OneWaySpec
CHECK_DEADLOCK FALSE
INVARIANTS
  UpstreamInOrder
  DownstreamInOrder
  ConfirmedIsAccepted
  DuplicatesOnlyReAck
PROPERTIES
  UpstreamReliable
