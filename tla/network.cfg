CONSTANTS
  ProxyRequests <- FourRequests
  Kind <- KindOf
  Ip <- OneAddress
  Creds <- Passwords
  Headers <- HeadersOf
  Settings <- FourSettings
  Rate = 3
  Cost = 2
  Burst = 1
  MaxTime = 2
  MaxChunks = 2
  Posts <- ThreePosts
  IdOf <- TwoIds
  PendingCap = 1
  QueueCap = 2
  Visits = {1, 2}
  Me = "m"
  Routes <- ThreeRoutes
  Updates <- TwoUpdates
  Configs <- TwoConfigs
  MaxLatencySamples = 2
  MaxReports = 1
  Clients = {1, 2}
  Cidrs <- Blocks
  KeyTexts <- KeyFiles
  Out <- Packets
  Foreign <- Strangers
  MaxPort = 3
  MaxSent = 2
  MaxNet = 2
  Streams = {"s1", "s2"}
  Rooms = {"lobby", ""}
  NoName = ""
  MaxJoins = 2
  SendCap = 2
  MaxChats = 3
  Listings <- TwoListings
  Commands <- SixCommands
  Sources = {"newgrad", "internships"}
  Turns = {1, 2}
  Redatings <- SomeRedatings
  Takers = {1, 2, 3}
  Need <- Needs
  Args <- ArgsOf
  Bucket = 3
  Scripts <- FiveScripts
  Strays <- FourStrays
  Letters = {"1", "2", "_", "a", "b", "c", "hi"}
  MaxAddrLen = 2
  MaxNumber = 6
SPECIFICATION Spec
CHECK_DEADLOCK FALSE
INVARIANTS
  ProxyPromise
  TasksPromise
  TrafficPromise
  VpnPromise
  RoomsClean
  RoomsAgree
  JobsPromise
  RedbanPromise
  Ipv1Promise
