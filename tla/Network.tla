------------------------------- MODULE Network -------------------------------
(* The programs whose clients meet on a network, or whose processes meet in *)
(* a file, side by side: the movie finder's proxy and its orchestrator,     *)
(* hotwire's proxy with a backend and its agent, cloak's VPN, relay's chat  *)
(* rooms, simplijobs, redban and ipv1.  They have nothing to do with each   *)
(* other; "on" is the one a behaviour is about, and the variables of the    *)
(* others are Off.  Some variables are shared.                              *)
EXTENDS Integers, Sequences, FiniteSets

CONSTANTS
  ProxyRequests, Kind, Ip, Creds, Headers, Settings, Rate, Cost, Burst, MaxTime, MaxChunks,   \* proxy
  Posts, IdOf, PendingCap, QueueCap,                                                          \* orchestrator
  Visits, Me, Routes, Updates, Configs, MaxLatencySamples, MaxReports,                        \* traffic
  Clients, Cidrs, KeyTexts, Out, Foreign, MaxPort, MaxSent, MaxNet,                           \* vpn
  Streams, Rooms, NoName, MaxJoins, SendCap, MaxChats,                                        \* rooms
  Listings, Commands, Sources, Redatings, Turns,                                              \* jobs
  Takers, Need, Args, Bucket,                                                                 \* redban
  Scripts, Strays, Letters, MaxAddrLen, MaxNumber                                             \* ipv1

VARIABLES on,
  cfg, req, sent,                                                        \* of several programs
  server, late, now, buckets, wire, passed, upstream,                    \* proxy
  post, pending, manager, queue, worker, proc, taskDb, workerDb, crashed, accepted, started,   \* orchestrator
  ctx, agent, back, srv, rep, stream, weights, told, took, inflight, requests, errors, samples, recorded, reports,   \* traffic
  keys, node, port, nextPort, byIP, last, net, route, got, uses,         \* vpn
  members, present, handler, room, mine, home, joined, send, open, seen, lost, from, chats,  \* rooms
  file, command, alone, clock,                                           \* of the programs with a file
  repo, shown, excused,                                                  \* jobs
  tmp, fd, bal, wake, granted,                                           \* redban
  cmd, mem, answer, bound, datagrams, printed, packets                   \* ipv1

proxyOnly == <<server, late, now, buckets, wire, passed, upstream>>
tasksOnly == <<post, pending, manager, queue, worker, proc, taskDb, workerDb, crashed, accepted, started>>
trafficOnly == <<ctx, agent, back, srv, rep, stream, weights, told, took, inflight, requests, errors, samples, recorded, reports>>
vpnOnly == <<keys, node, port, nextPort, byIP, last, net, route, got, uses, sent>>
roomsOnly == <<members, present, handler, room, mine, home, joined, send, open, seen, lost, from, chats>>
files == <<file, command, alone>>
jobsOnly == <<repo, shown, excused>>
redbanOnly == <<tmp, fd, bal, wake, granted>>
ipv1Only == <<cmd, mem, answer, bound, datagrams, printed, packets>>
servers == <<cfg, req, proxyOnly, tasksOnly, trafficOnly, vpnOnly, roomsOnly>>
commands == <<files, clock, jobsOnly, redbanOnly, ipv1Only>>

Off == FALSE
ProxyOff == /\ server = Off /\ late = Off /\ now = Off /\ buckets = Off /\ wire = Off /\ passed = Off /\ upstream = Off
TasksOff == /\ post = Off /\ pending = Off /\ manager = Off /\ queue = Off /\ worker = Off /\ proc = Off
            /\ taskDb = Off /\ workerDb = Off /\ crashed = Off /\ accepted = Off /\ started = Off
TrafficOff == /\ ctx = Off /\ agent = Off /\ back = Off /\ srv = Off /\ rep = Off /\ stream = Off /\ weights = Off
              /\ told = Off /\ took = Off /\ inflight = Off /\ requests = Off /\ errors = Off /\ samples = Off
              /\ recorded = Off /\ reports = Off
VpnOff == /\ keys = Off /\ node = Off /\ port = Off /\ nextPort = Off /\ byIP = Off /\ last = Off /\ net = Off
          /\ route = Off /\ got = Off /\ uses = Off /\ sent = Off
RoomsOff == /\ members = Off /\ present = Off /\ handler = Off /\ room = Off /\ mine = Off /\ home = Off
            /\ joined = Off /\ send = Off /\ open = Off /\ seen = Off /\ lost = Off /\ from = Off /\ chats = Off
JobsOff == repo = Off /\ shown = Off /\ excused = Off
RedbanOff == tmp = Off /\ fd = Off /\ bal = Off /\ wake = Off /\ granted = Off
Ipv1Off == /\ cmd = Off /\ mem = Off /\ answer = Off /\ bound = Off /\ datagrams = Off /\ printed = Off /\ packets = Off
ServersOff == cfg = Off /\ req = Off /\ ProxyOff /\ TasksOff /\ TrafficOff /\ VpnOff /\ RoomsOff
CommandsOff == file = Off /\ command = Off /\ alone = Off /\ clock = Off /\ JobsOff /\ RedbanOff /\ Ipv1Off

----------------------------------------------------------------------------
MP == INSTANCE MovieProxy WITH Requests <- ProxyRequests
MO == INSTANCE MovieOrchestrator
HT == INSTANCE HotwireTraffic WITH Requests <- Visits
CV == INSTANCE CloakVpn
RR == INSTANCE RelayRooms
SJ == INSTANCE SimpliJobs WITH Procs <- Turns, Updates <- Redatings, now <- clock, proc <- command
RB == INSTANCE RedBan WITH Procs <- Takers, Burst <- Bucket, now <- clock, proc <- command
IP == INSTANCE Ipv1 WITH proc <- command, net <- datagrams, sent <- packets

ASSUME ProxyAssumption == Rate \in Nat /\ Cost \in Nat /\ Burst \in Nat

\* The hub is no client, other programs do not know its key, and the addresses
\* of the nodes are ones with a prefix length.
ASSUME VpnAssumption ==
  /\ 0 \notin Clients
  /\ \A k \in KeyTexts : \A b \in Foreign : b.version # 1 \/ b.key # CV!ParseKey(k[0])
  /\ \A n \in CV!Nodes : Cidrs[n].ip \in CV!Address /\ Cidrs[n].ones \in 0..32

ASSUME RoomsAssumption == NoName \in Rooms /\ MaxJoins \in Nat /\ SendCap \in Nat /\ MaxChats \in Nat

\* Commands are run one after the other, though they may overlap.
ASSUME JobsAssumption == Turns \subseteq Nat /\ Redatings \subseteq Listings \X Nat \X Nat

ASSUME RedbanAssumption == Need \in [Takers -> Nat] /\ Bucket \in Nat

\* The length of an address fits into its prefix, names and texts are words, and
\* datagrams of other programs are no packets.
ASSUME Ipv1Assumption ==
  /\ MaxAddrLen \in Nat /\ 0..MaxAddrLen \subseteq IP!Uint16
  /\ \A script \in Scripts :
       /\ DOMAIN script \subseteq Nat
       /\ \A i \in DOMAIN script : {script[i].addr, script[i].src, script[i].text} \subseteq Seq(Letters)
  /\ \A b \in Strays : IP!Decode(b) = IP!Malformed

----------------------------------------------------------------------------
Init ==
  \/ on = "proxy" /\ MP!Init /\ TasksOff /\ TrafficOff /\ VpnOff /\ RoomsOff /\ CommandsOff
  \/ on = "tasks" /\ MO!Init /\ cfg = Off /\ req = Off /\ ProxyOff /\ TrafficOff /\ VpnOff /\ RoomsOff /\ CommandsOff
  \/ on = "traffic" /\ HT!Init /\ ProxyOff /\ TasksOff /\ VpnOff /\ RoomsOff /\ CommandsOff
  \/ on = "vpn" /\ CV!Init /\ cfg = Off /\ req = Off /\ ProxyOff /\ TasksOff /\ TrafficOff /\ RoomsOff /\ CommandsOff
  \/ on = "rooms" /\ RR!Init /\ cfg = Off /\ req = Off /\ ProxyOff /\ TasksOff /\ TrafficOff /\ VpnOff /\ CommandsOff
  \/ on = "jobs" /\ SJ!Init /\ ServersOff /\ RedbanOff /\ Ipv1Off
  \/ on = "redban" /\ RB!Init /\ ServersOff /\ JobsOff /\ Ipv1Off
  \/ on = "ipv1" /\ IP!Init /\ ServersOff /\ clock = Off /\ JobsOff /\ RedbanOff
Next ==
  /\ UNCHANGED on
  /\ \/ on = "proxy" /\ MP!Next /\ UNCHANGED <<tasksOnly, trafficOnly, vpnOnly, roomsOnly, commands>>
     \/ on = "tasks" /\ MO!Next /\ UNCHANGED <<cfg, req, proxyOnly, trafficOnly, vpnOnly, roomsOnly, commands>>
     \/ on = "traffic" /\ HT!Next /\ UNCHANGED <<proxyOnly, tasksOnly, vpnOnly, roomsOnly, commands>>
     \/ on = "vpn" /\ CV!Next /\ UNCHANGED <<cfg, req, proxyOnly, tasksOnly, trafficOnly, roomsOnly, commands>>
     \/ on = "rooms" /\ RR!Next /\ UNCHANGED <<cfg, req, proxyOnly, tasksOnly, trafficOnly, vpnOnly, commands>>
     \/ on = "jobs" /\ SJ!Next /\ UNCHANGED <<servers, redbanOnly, ipv1Only>>
     \/ on = "redban" /\ RB!Next /\ UNCHANGED <<servers, jobsOnly, ipv1Only>>
     \/ on = "ipv1" /\ IP!Next /\ UNCHANGED <<servers, clock, jobsOnly, redbanOnly>>
vars == <<on, servers, commands>>
Spec == Init /\ [][Next]_vars

(* The proxy keeps to its rate, loses no byte of a tunnel, and serves to    *)
(* the end what it serves when it is stopped (dispatch, handleTunnel, Run). *)
ProxyPromise == on = "proxy" => MP!RateBound /\ MP!TunnelKeepsBytes /\ MP!ServedToTheEnd

(* A task is started once and in its turn, and the worker knows how it      *)
(* ended (SubmitTaskHandler, Manager.Start, SendWork, RunTask).             *)
TasksPromise == on = "tasks" => MO!TasksInOrder /\ MO!WorkerKnows

(* Requests are spread by the weights, and reports tell of the requests     *)
(* (pick, Snapshot, reportLoop).                                            *)
TrafficPromise == on = "traffic" => HT!SharesAreWeights /\ HT!ReportsAreTrue

(* Packets come out at the right client, the hub's table holds what it has  *)
(* heard, and the routes lead into the tunnel (remember, lookup,            *)
(* subnetGateway).                                                          *)
VpnPromise == on = "vpn" => CV!RightClient /\ CV!TableIsHeard /\ CV!GatewayInside

(* No participant, room or channel is left over (Join, leave, JoinRoom).    *)
RoomsClean == on = "rooms" => RR!RoomsStayClean

(* Participants that missed no frame agree on the head count and on the     *)
(* conversation (Join, Chat, broadcastLocked).                              *)
RoomsAgree == on = "rooms" => RR!RoomsAgree

(* simplijobs: what is new is shown once (runCheck, Save).                  *)
JobsPromise == on = "jobs" => SJ!NewIsShown

(* redban: restarts do not reset the budget, and no process is stopped by   *)
(* what a killed one left behind (Take, load, saveLocked).                  *)
RedbanPromise == on = "redban" => RB!BudgetSurvives /\ RB!BalanceIsReadable

(* ipv1: names lead where they were bound last, numbers are given out once, *)
(* and a listener prints only what was sent to its name (Registry, Encode,  *)
(* Decode, cmdListen).                                                      *)
Ipv1Promise == on = "ipv1" => IP!NamesLead /\ IP!PrintedWasSent
=============================================================================
