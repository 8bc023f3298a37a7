CONSTANTS
  ip1 = ip1
  w1 = w1
  w2 = w2
  VMs = {v1}
  Pool <- OneIP
  Addrs = {a1, a2}
  Rules = {ssh}
  DefaultFirewall = {ssh}
  Workers = {w1, w2}
  NoIP = NoIP
  NoAddr = NoAddr
  NoRecord = NoRecord
  CommandsFail = FALSE
  MaxRequests = 3
  MaxCrashes = 0
  MaxFaults = 0
  SerialRequests = 3
  ParallelRequests = 3
INIT MCInit
NEXT MCNext
SYMMETRY Alike
CHECK_DEADLOCK FALSE
INVARIANTS
  DeletedStaysDeleted
