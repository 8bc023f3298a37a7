CONSTANTS
  ip1 = ip1
  w1 = w1
  w2 = w2
  VMs = {v1, v2}
  Pool <- OneIP
  Addrs = {a1, a2}
  Rules = {ssh}
  DefaultFirewall = {ssh}
  Workers = {w1, w2}
  NoIP = NoIP
  NoAddr = NoAddr
  NoRecord = NoRecord
  CommandsFail = TRUE
  MaxRequests = 4
  MaxCrashes = 1
  MaxFaults = 1
  SerialRequests = 4
  ParallelRequests = 3
INIT MCInit
NEXT MCNext
SYMMETRY Alike
CHECK_DEADLOCK FALSE
INVARIANTS
  AddressesExclusive
  AssignedIsKnown
  NothingLeftBehind
  ShownAddressHeld
  UsageCloses
