# Verification of sideprojects

TLA+ models, model-checking runs and machine-checked proofs for the programs of
this repository. Every definition of a module is translated from the code; the
table of what stands for what is `PROJECT.json` ("map").

The repository is a monorepo of independent programs. The ones that carry concurrent
logic, or that keep state which a crash or a second process can spoil, are modelled: the
streams and the VPN of **cloak**, the event store and chat rooms of **relay**, the control
plane, accounts and API of **plate**, the control plane and the traffic of **hotwire**, the
finder, the proxy and the orchestrator of **movie**, the audits of **surf**, and the
file-keeping command-line programs **redban**, **ipv1** and **simplijobs**.

## 1. Inventory

| Program | State | Operations | What is hard | Properties |
|---|---|---|---|---|
| cloak, tunnel (`tunnel.go`, `socks.go`) | per peer: table of streams, one read loop; per stream: next sequence number, pending chunk, ack channel, inbox, next expected number | open, reply, write with retransmission, ack, read, close | UDP loses, repeats and reorders; one read loop serves all streams and blocks on a full inbox; timers race with late answers | delivery in order, each chunk once; a confirmed write was accepted; retransmission gets through; the read loop recovers |
| cloak, VPN (`vpn.go`) | the hub's table of addresses and the last one heard; keys; routes | hello, packet in, packet out | clients that change their address while datagrams are late | packets come out at the right client |
| relay, store (`store/store.go`) | per topic a ring buffer and the set of subscribers; per subscriber a channel | Publish, Subscribe with replay, unsubscribe | replay runs outside the lock, beside live events; full channels; a channel closed while in use | replay is the tail of the topic; no event twice or missing at the seam; no send on a closed channel |
| relay, rooms (`store/room.go`, `server/server.go`) | rooms, their participants, the channel of each | join, chat, leave, end of the stream | counts announced while others join and leave; full channels; the empty room name | everybody has the same count and conversation; nobody is left behind |
| plate, control (`control/control.go`, `store`, `ippool`, `provider/docker`) | four JSON files, containers, DNAT rules | create, get, list, start, stop, delete, firewall, hostname, snapshots | requests in parallel with one lock per file access; any command may fail half way; crash between two files | addresses exclusive, none leaked; no container or usage record left behind |
| plate, accounts and API (`accounts`, `api`, `panel`) | accounts, tokens, usage ledger | create account and token, authenticate, bill | check and creation of the first token are two steps; torn files | what was answered lasts; tokens are required once there is one; the right account pays |
| hotwire, control (`control`) | registry of backends, subscribers, weights | report, rebalance, subscribe, list | two streams for one backend, slow subscribers, changes that rebalancing does not see | the registry holds no dead entry; subscribers have the last weights or are cut off; shares arrive in the end |
| hotwire, traffic (`proxy`, `agent`, simhttp, minstd's server) | weights, counters, window of latencies | pick, serve, snapshot, report | counters read one by one while requests go on | shares are the weights; reports are true |
| movie, finder (`app`, `agent`, `scraper`, `proxy`) | crawl frontier, pending threads, slots of clients | crawl, search, read, enrich | goroutines that answer in any order, refusals, a deadline anywhere | no movie twice, full lists, bounded crawl, the run ends |
| movie, proxy server | token buckets, tunnels | dispatch, forward, tunnel, shut down | half-closed tunnels, shutdown | the rate holds, no byte is lost, what is served is served to the end |
| movie, orchestrator | two channels, two maps | submit, schedule, run | full channels, maps without a lock | tasks once and in order |
| surf | visited pages, files of records | crawl, audit, plan, diff, batch | wrong nesting, crawl order, two tables that must agree, shards | the tree keeps the document, the crawl is closed, plan and diff are complete, the batch covers its list |
| redban | token bucket in a file | take, save | restarts, kills, a clock in the future | restarts do not reset the budget |
| ipv1 | registry file, datagrams | register, allocate, send, listen | several processes on one file, foreign datagrams | names lead where they were bound last |
| simplijobs | times of the last checks | check, status, reset | overlapping or killed commands | what is new is shown, once |
| slugcheck, grokbot, bookRoom, update_modules | none kept | sequential scripts | | not modelled |
| optimization, research | none kept | statistical models in Python | | not modelled |
| generated protobuf code | | | | not modelled |

How they interact: hotwire's agents wrap simhttp, which serves with minstd's HTTP
server, and report to its control plane over gRPC, which pushes weights to its proxies.
cloak's client and server talk over UDP only. relay's clients talk to its server over gRPC
streams. plate's API, panel and command line call `control.Plane`, which calls the record
store, the address pool, the account store and a backend. movie's finder may go through
movie's proxy server, and its orchestrator may start it. The other programs are independent
of each other.

The hazards of the code, each at its line and with the properties that cover it,
are listed in `PROJECT.json` ("hazards").

Two umbrella modules only hold instances: `MCPrograms` and `Network` join
programs that have nothing to do with each other in one run each. The variable `on` says
which one a behaviour is about, the others' variables are constantly `Off`, and each
property is of the form `on = "..." => ...`. `Network` leaves every constant of its
instances open, with the assumptions the proofs need (`ProxyAssumption`, `VpnAssumption`,
`RoomsAssumption`, `JobsAssumption`, `RedbanAssumption`, `Ipv1Assumption`); `MCNetwork` gives
them small values, and the promises of `Network` are proved for all of them: those of the servers in
`NetworkProofs`, those of the programs whose processes share a file in `CommandProofs`.
`MCPrograms` holds surf and plate's accounts, about which nothing is proved.

## 2. cloak: `CloakTunnel`, `ReliableStream`, `CloakTunnelProofs`

`CloakTunnel` has two peers and the datagrams between them. The network is a set:
a message received stays in it, so it can arrive again and in any order, and `Lose`
removes it. A *stream object* is `<<side, id, incarnation>>`: the client never uses
an id twice, but every OPEN that reaches the server makes a new object and
replaces the one in the table (`onOpen`), so a repeated OPEN is a second
incarnation. `MaxOpens` bounds how often one OPEN is delivered.

| Variable | Code |
|---|---|
| `net` | UDP datagrams |
| `tab` | `peer.streams` |
| `phase` | the goroutine that owns the stream: opening, dialing, relaying, done |
| `closed`, `waitOpen` | `stream.closed`, `stream.waitOpen` |
| `wr`, `nextSeq`, `pending`, `ackCh` | `writeReliable` and the fields it uses |
| `rd`, `recvNext`, `inbox` | `onData`, `Read` |
| `loop` | the push into an inbox at which `readLoop` is blocked |
| `sent`, `acked`, `got` | history |

The read loop is one goroutine per peer: while `loop[e] # NoPush` no other message
of that side is handled. `Write`, `Resend`, `WriteAcked`, `WriteFails` are the
paths of `writeReliable`; the choice between a closed stream, an
acknowledgement, a timer tick and the deadline is nondeterministic as in the
`select`. `Read` takes from the inbox, `ReadClosed` is the other branch of its
`select` and may be taken while the inbox is not empty, as in Go. What is read is
written to a TCP connection without a deadline (`tunnel.go:291`): `rd` is `"stuck"`
while that write does not return, and nothing says that it ever does.

`ReliableStream` is the abstract promise of one direction: write, accept,
confirm, read, with at most one chunk outstanding. `CloakTunnel` instantiates it
for the direction client to server.

Left out: the wrap-around of the 32-bit sequence numbers (they are naturals), the
reaper of idle clients, the cipher, the order in which ids are allocated.

Runs:

| Run | Question | Bounds |
|---|---|---|
| `cloak_upload` | safety of both directions and refinement of `ReliableStream` | 1 stream, 2 chunks of 2 payloads from one of the sides (`MCCloakOneWay` lets either be the one), inbox 1: a chunk can be queued, one being pushed and one on the wire, with copies of older ones, and data of the server can overtake the reply to OPEN |
| `cloak_live` | a write gets through; the read loop recovers (liveness) | 2 chunks of one payload from the server, inbox 1, so that the client's read loop can block; TCP sides that stall |
| `cloak_reopen` | violation: a repeated OPEN makes the server acknowledge what it does not accept | `MaxOpens = 2` |

Fairness. `FairSpec` takes weak fairness of the goroutines and of the retransmission
timer, which the Go scheduler and the clock give, and strong fairness of the delivery
of a message that is sent again and again, which is the usual assumption on a lossy
network; OPEN, its replies and CLOSE, which are sent once, may be lost for ever. The
30 s deadline of a write is not assumed: `WriteGetsThrough` must hold without its
help, and `ReadLoopRecovers` says that a read loop blocks for ever only if some
write waits for ever, which is what the deadline rules out, or a TCP side stalls for
ever. Nothing is assumed of the TCP sides; both properties name the stall
(`ConsumersTake`), because the code has it: a consumer that stalls leaves its inbox
full and the read loop blocked, and with it every stream of that peer. The run has one
stream; that one stalled stream stops the others follows from there being one loop.

Proved for every number of streams, chunks, payloads and every inbox capacity:
`TypeCorrect`, for any `MaxOpens`; and, when the network delivers no OPEN twice
(`MaxOpens = 1`, and the run `cloak_reopen` shows that the assumption is needed),
`UpstreamIsInOrder`, `DownstreamIsInOrder`, `ConfirmedWritesAreAccepted`,
`OnlyDuplicatesReAcked` and `UpstreamImplements` (the refinement). None of the
properties is inductive. The invariant `IInv` adds: a writer is at most one chunk
ahead of its confirmations (`WriterInv`); every DATA message on the wire carries
the chunk of its number, and all chunks before it are confirmed, and every ACK is
for an accepted chunk (`WireInv`), which is why a late copy can neither be taken
for a new chunk nor confirm one; what a reader has read, queued and is being
handed is a prefix of what its peer wrote (`Counts`, `Contents`).

## 3. relay: `RelayStore`, `RelayRooms`, `RelayStoreProofs`, `RelayRoomsProofs`

`RelayStore`: `ring` is the ring buffer with its slots, `head` and `count`, so that the
index arithmetic of `replay` is checked and not assumed; `subs` is the set of
registered subscribers of each topic, `ch` their channels, `replay` what the goroutine
that sends the replay has left. `Publish`, `Subscribe` and `Unsubscribe` hold the
store's mutex and are one step each; `SendReplay` is one step per event, outside
the mutex. `ReplayPanics` is the send on a closed channel, after which the process
is gone. An event is `<<topic, offset>>`.

`RelayRooms`: participants are `<<stream, n>>`, because a handler that has joined the
room with the empty name takes itself for not joined and may join once more.
`Broadcast` drops a frame for a participant whose channel is full. `Forward` is the
goroutine that sends frames to the client.

| Run | Question | Bounds |
|---|---|---|
| `relay_store` | the replay is the tail of the topic; nothing owed disappears or comes twice; each part is in order; Publish never meets a closed channel; the replay of a client that stays ends (liveness) | 2 topics, 2 slots and 4 events each: a buffer wraps around twice; every offset; lists of topics, one listed twice; a channel of 1 |
| `relay_unsub` | violation: the replay goroutine sends on a closed channel | |
| `network` (`RoomsClean`, `RoomsAgree`) | no send on a closed channel; no empty room; no participant left behind; the same head count and conversation for everybody who missed no frame | 2 clients with 2 participants each, 2 rooms, one without a name, 3 chats, a channel of 2 |

Fairness of `relay_store`: the loop that sends to a client that stays is weakly fair, the
replay goroutine strongly, because a sender blocked on a Go channel queues for it and
a slot that becomes free is given to it before a later Publish finds it. Publishing is
not fair. One subscriber is enough: subscribers share only the sets `subs`, and
nothing one does changes the channel of another.

Small capacities stand for 32 and 64: a channel is only asked whether it is full, and
a buffer only wraps around; 1 and 2 make both happen within a few steps.

Proved for any number of slots, topics and subscribers: `ReplaysAreTails` and
`TopicsOnlyHoldOpen`. `ReplayIsTail` says nothing of where the slots are; the invariant
`RingInv` does: `count` is the smaller of `nextID` and the size, and the slot d places back
from `head` holds the event numbered `nextID - d`. `append` moves every such slot one place
further back and drops the last (`HeadMoves`, `AppendKeepsRing`), and the index that
`replay` counts forward from the oldest slot is the one counted back from the head
(`SlotIndex`); below twice the size the remainder is one subtraction (`Remainder`).
`SubsInv` adds that a registered subscriber lists the topic, which is why unsub removes it
before its channel is closed.

Proved for any number of clients, rooms and joins, if the rooms include the one without a
name: `NobodyStays` (the theorem's `NothingLeftOver` is the part of `RoomsClean` that is
no type). A handler remembers only its last participant, so the invariant `RoomsInv` says
that it remembers the room it believes to be in (`Remembers`), that a participant is a
member of no room but the one it was created for (`Belongs`), and so that a handler that may
join again has no member in a room with a name.

Proved for any number of slots, topics, subscribers and events and any capacity: `StoreTypes` and `SeamHolds`,
the seam between the replay and the live events. Its invariant `SeamInv` joins `RingInv` and `SubsInv`
with what is known of a subscriber (`AtTheSeam`): its replay holds only events older than its
subscription, nothing it gets is still to be published, and an open one is registered wherever it
listens, so that a Publish which misses it comes before it or finds its channel full. The property
alone is not inductive: without the bounds on the offsets a Publish could repeat what is in a
channel. A request that lists a topic twice gets its replay twice and its live events once, which
`Listed` counts.

Proved for any number of clients, rooms, joins and chats and any capacity (`Bounds`):
`RoomsAreClean` and `ParticipantsAgree`, and from them the promises of the run (section 9). The invariant `AgreeInv` adds to `RoomsInv` and the property that a
participant which has not joined yet has an empty channel and has been sent nothing, and that no
member joined after a chat that is still to come.

## 4. plate: `PlateControl`, `PlateControlProofs`

A request is the list of steps that `Plane`'s method takes: `Steps` is the method,
written as the sequence of its calls, and each call is an action. A creation starts without the
step `assign` when the pool is empty or cannot be read. `todo[w]` holds the steps a
request has left, `inst[w]` the copy of the record that it read at its beginning and
will write back. Between two steps of a request any step of another may happen,
because each file has its own mutex, which is held for one access. `record`,
`assigned` and `usage` are `vms.json`, `ip-pool.json` and `billing.json`; `box`, `images`
and `dnat` are what docker and iptables keep.

Every docker command may fail, and one that fails may have done its work (`docker
run` leaves a container that did not start; when the client hangs up, the context of
the request is cancelled and the docker command killed, but not the daemon). With
`CommandsFail = FALSE` a command fails only for a reason in the model, such as a
missing container, or for a wrong request. `Crash` ends all requests and keeps files and host. A
container may stop by itself.

An access to a file may fail too (`Access`, at most `MaxFaults` of them): it has then changed nothing, or
has left the file torn, because `os.WriteFile` truncates before it writes, or was done after all; a torn file fails every access
that follows, and a server that finds the pool torn does not come up again (`up`). What follows is what the code does:
`Create` ends when `Put` fails, `Release` and the two billing calls drop their
errors, `Delete` has released the address when it fails to erase the record. `failed` remembers
which access failed for which VM, for the properties only.

Abstractions: a request of `List` is a `Get` of each record; firewall rules are a
set of ports; a step of iptables takes all its rules at once; every VM has an account; ids do not repeat (they have 32 random bits).
The backend is docker on Linux; on other systems the DNAT rules do nothing.

| Run | Question | Bounds |
|---|---|---|
| `plate_control` | every command failing at will; one request at a time, with an access to a file that fails: no container, address or open usage record is left behind, but where the named access failed; two at a time: no address is held twice, with a crash anywhere, and as long as there was none an address is held by somebody who can be deleted | 2 VMs for one address; 4 requests in the first mode: create, stop, delete and a second VM, or snapshot and restore instead; 3 in the second; one crash; one failing access (a torn file fails all the later ones too) |
| `plate_ghost` | violation: a Get brings back the record of a deleted VM | 1 VM |

Each exemption for a failed access is needed: without it TLC finds the failure. Three of them
are leaks of the code: a `Put` that fails at the end of `Create` (control.go:141) leaves the container and the address to nobody,
a `Store.Delete` that fails (control.go:222) leaves a record that shows an address it has given back, and
an error when the usage record is closed (control.go:193, 212) leaves it open after the VM is deleted.

`MCPlateControl` adds the variable `mode`: `NothingLeftBehind`, `ShownAddressHeld` and
`UsageCloses` are `BoxIsKnown`, `ShownIsHeld` and `OpenUsageCloses` for one request at a time.
With two they fail: when a Delete comes before Create has opened the usage record, the
record stays open, and a RestoreSnapshot against a Delete creates the container again. Both
have the same cause as `plate_ghost`.

Proved for every number of VMs, addresses, requests and any failures of docker and of the files: `TypeCorrect`;
`AddressesAreExclusive`, also with crashes, by induction on the property and the types,
because `Assign` tests and takes the address under one lock; and
`AssignedAddressesAreKnown`, as long as the server has not died (after a crash between
Assign and Put the address is lost, so the condition is needed). Its
invariant `LeakInv` says that only issued ids are on record or hold an address
(`IssuedInv`), that `assign` is the first step of a creation, whose VM no other request knows yet (`FreshInv`), that in whatever is
left of a request `erase` directly follows `release`, or the address is free already or releasing it
has failed (`EraseInv`), and that an address without a record
belongs to a creation that will write the record or release it, unless that access has failed (`HolderInv`).

Proved for any number of VMs and any failures, when requests are served one at a time and the server does not die:
`OneRequestLeavesOrder` (`SerialSpec` is the specification with the invariant `OneAtATime` as the
condition of every step), and of the specification that the run checks, where only the two workers are
fixed, `NothingIsLeftBehind`, `ShownAddressIsHeld` and `UsageIsClosed`. The three do not hold
in the middle of a request by themselves, so the invariant `SerialInv` says what is known of a VM at
rest (`AtRest`: its container and open usage are on record, and it holds the address it shows, each unless
the access that would have seen to it has failed) and at each
stage of the request that works on it (`AtWork`), where a stage is the list of steps that are left. A
Delete, for example, that has removed the container (`Emptied`) has closed the usage record before, or has failed to.

## 5. hotwire: `HotwireControl`, `HotwireControlProofs`

| Variable | Code |
|---|---|
| `registry` | `Registry.agents`, with the score and the time of the last report |
| `clock`, `horizon` | the time of a report is its number; reports before `horizon` are stale |
| `pc`, `backend`, `report` | a `ReportMetrics` handler: waiting in Recv, or between registering its stream and updating the registry |
| `metricStreams`, `subscribers`, `last` | the maps and `lastUpdate` of `Server`, under its mutex |
| `result` | what `rebalance` has scored before it takes that mutex for the fan-out |
| `ch`, `sub` | a `SubscribeWeights` handler and its channel |
| `weights` | `proxy.Server.weights` |
| `caught` | history |

Because reports are numbered, an older report never outlives a younger one. `Weight` is
the score of a fresh backend by the total, in units of `Unit`, which the instance
chooses as a multiple of all totals, so that equal weights are equal numbers. Removal in
`ReportMetrics` goes by the backend id, whichever stream it belongs to; `Apply`
leaves the weight of backends that the update does not name, and a subscriber with
a full channel is dropped from the map although its call goes on, as in the code. An update is
applied in the step that sends it: gRPC keeps the order, and nobody else looks.

Left out: the assignments sent back to agents (agents ignore them) and the rounding of the
floating-point weights. The random choice in `pick` and HTTP are in `HotwireTraffic`.

| Run | Question | Bounds |
|---|---|---|
| `hotwire_push` | no entry of the registry without a stream; subscribers in step or cut off; shares arrive (liveness) | 2 streams for any of 2 backends, one with two scores, 3 reports, 1 proxy, a channel of 1: scores can change, disappear and return, and the channel can be full |
| `hotwire_stale` | violation: a backend whose stream ended keeps its weight in the proxy | the same |

Fairness: the rebalance loop (a ticker) and the connection of a proxy. Reports, the end
of streams and the passing of the threshold are not fair. `SharesArrive` is stated for a
proxy that has taken an update from its channel and stays in the map: one that is
dropped gets nothing, and one that has only the first update may keep scores
that the rebalance loop never sees (`hazards`).

Proved for any number of backends, streams, proxies and any capacity:
`RegisteredBackendsAreOpen` and `MappedStreamsAreOpen`, with the invariant that a handler about to
update the registry has a backend id (`Owners`), and `SubscribersAreInSync`, with
the invariant that the channel of a subscriber in the map ends with the last published update
(`LastQueued`), since every update is either queued or costs the subscriber its place. The
proofs need no value of a weight, only the domains of the maps (`Keys`, `Domains`).

## 6. surf: `SeoHtml`, `SeoPage`, `SeoAudit`

`SeoHtml` is the parser on tokens: a document is a sequence of opening and closing tags,
texts, whitespace and comments, and a position is an index into it; `ParseKids` and `ParseElement` follow
`parseElement` with its recovery from wrong nesting and the whitespace it skips after it has looked for the
closing tag, and a closing tag cut off at the end of the page takes the position past the end, where the Go
code panics (`Panicked`). `SeoPage` holds the checks with their penalties, the fixes, the plan and the diff, with
the ends of its lists, as pure operators. `SeoAudit` is the program: the crawl with its recursion as a stack, one call
per step, the loops that write records, a second audit after pages were changed, the diff, and the pods of a batch,
which a page may end (`alive`) and which are replaced while they run.

Run `programs`:

- `CrawlPromise`: every page linked from an expanded page above the last depth is in the crawl, and nothing else. The depth is 2,
  as by default: a page first met at depth 2 is not expanded although the base links it too, and the page behind it, which
  is two links from the base, is not found; the property is about the pages the code did expand (`expanded`).
- `PlanPromise`, `ScorePromise` (the score is what the fixes explain), `BatchPromise` (the pods together analyze each URL once).
- `DiffPromise`: gains are named best first and losses worst first, up to `TopLimit`; every cleared fix is counted, and
  where the list of them is not cut (`ClearedLimit`, 15 in the code), every gain has one.
- `TreePromise`: no text or tag is lost or changes its order, and in a document that is nested well each is at its place. The second
  half leaves out what the parser gets wrong (section 10): a closing tag behind whitespace that follows an opening tag
  or a comment (`Astray`), and one in capitals, which `Balanced` does not count as the end of its element.

Three pages with five documents each and a fourth that is gone, any fetch failing, three sets of pages replaced
(`Changes`), lists of two gains and of six cleared fixes, both cut and not; two pods with three ways to be told their shard; 9000
single pages. The operators are recursive, so TLC alone checks them.

## 7. The programs that keep files: `RedBan`, `Ipv1`, `SimpliJobs`, `CommandProofs`, `PlateApi`, `Ipv4`

In each of these a process is a sequence of file accesses between which others run and at each of which
it may be killed; `os.WriteFile` is two steps, truncation and the write. `alone` is true as
long as no two processes overlapped (and, where the code has no defence, none was killed while it
wrote): the properties that need it say so, and those without it hold for every interleaving.

- `RedBan`: tokens are counted in what a tick refills, in whole numbers. `tmp` and `file` are the two files, `fd[p]` the file a process has open, so that a
  rename under a writer is seen. `BudgetSurvives`: every stretch of granted takes stays within the burst and
  the refill, across restarts and kills. `BalanceIsReadable`: no kill leaves a file that the next process cannot read.
- `Ipv1`: `Encode` and `Decode` work on a packet's fields with their lengths. `NamesLead`: a name leads where it was
  bound last, a number is given out once. `PrintedWasSent`: whatever is lost, late, repeated or foreign, a listener
  prints only what somebody sent to its name.
- `SimpliJobs`: a posting's date is set by the repository (`Publish`) and has nothing to do with the clock of the commands: a
  posting may appear long after its date or before it. `NewIsShown`: a posting dated up to the saved time was shown, cut off by an
  option, or appeared too late (`TooLate`): between fetch and save, or with a date that was already checked. These the code loses
  (section 10), and the property bounds the loss to them. None is shown twice, unless it was dated later than it was shown.
- `PlateApi`: requests step by step through the account store, whose mutex is `holder`, over the five files of the data
  directory (`files`). Any read or write may fail (`Fault`, at most `MaxFailed` requests) and any write may be torn by a crash
  (`Cut`), after which that file never parses again; `failed` remembers the requests an access failed for. `Boot` is
  the start of the server, which a torn `ip-pool.json`, a refused or an empty pool text, or a pool that cannot be written prevents.
  `AnswersLast`: what was answered is in the files, unless the file itself was torn; a usage record is also missing where its own
  write failed, whose error `control.go:146` drops (the only exemption). `TokenRequired`; `BilledRight`: the account and, for an account
  that asks, all VMs answered to it before (`before`); `PoolIsSpec`. The control plane behind it is only as detailed as accounts
  and billing need; section 4 has its races. `Ipv4` is the arithmetic of addresses and blocks, shared with `CloakVpn`.

The first three are checked in the run `network`, `PlateApi` in `programs`. Bounds: three redban processes, the last of
which asks for more than the burst; five scripts of three ipv1 commands; two simplijobs commands of six kinds, two postings,
dated in the past or the future and one of them dated again (`Redatings`);
five scripts of plate requests, four pool texts, one request with a failing file access. They are chosen so that each file is written by two processes and
read by a third.

Proved in `CommandProofs`:

- `JobsKeepTheirPromise`, for any postings, dates, sources, commands and number of processes. The first half of `NewIsShown` has to
  be known before the save: the invariant `JobsInv` says of every time that is remembered, in the file or by a process, that all
  postings up to it were shown or excused, and of what a process has fetched and shown that it makes this true of the time it will
  write (`Told`). For the second half, commands that run one after the other leave in the file a time that covers what
  was shown and was not dated later (`Covered`, `OneByOne`), so that a later check which shows a posting has found it newer.
- `RedbanKeepsItsPromise`, for any burst, needs and number of processes. `BudgetSurvives` says nothing of the balance; the invariant
  `OneTaker` adds, for each earlier take, that what was granted since, what the process in hand is about to be granted and the
  balance together are within the burst and what is refilled by the time the balance is of (`Paid`), which may lie
  in the future. It also follows the two files: a process that saves has the only open one, and renames what it wrote.
- `Ipv1KeepsItsPromise`, for any scripts, letters, limits and stray datagrams that do not decode. `NamesAreKept` says that
  the registry, and what the command at the file has read and is about to write, lead all names given so far, and
  that the command at the file is the last that has started; so a name bound again was bound by an earlier command.
  `PrintedWasSent` needs no order of the commands: `DecodeUndoes` shows that decoding undoes encoding for all words whose length fits into its
  prefix, so a datagram that decodes is a packet somebody sent (`SentWhole`).

## 8. movie: `MovieSources`, `MovieFinder`, `MovieFinderProofs`, `MovieProxy`, `MovieOrchestrator`, `NetworkProofs`

`MovieSources` has what the scraper makes of a page (a page is what its regular expressions find in it)
and how a proxy is chosen, all pure. `MovieFinder` is a run: `agent[a]` is the goroutine of an agent with its frontier,
threads and movies, `requests` the goroutines that want a page, with the slots of the client they share. Any request
may fail, be refused or come late (`Failures` bounds how many), and `Expire` is the deadline. The code ends the context of a
request when `Get` returns (`client.go:45`), before the page is read (`html.go:31`): reading it may fail, which is the outcome `err`.

Run `movie_finder`: `NoMovieTwice`, `FullReport`, `CrawlIsBounded`, and `RunEnds` (liveness). Thirteen inputs, from a crawl to a proxy test,
one with two picks of the same film,
on a site of three subreddits that name each other in a circle; one slot, so that requests wait for each other. Fairness:
weak fairness of the program as a whole, since goroutines run and every request has a timeout of five seconds.

The site is a constant: any function from addresses to pages of their type (`SiteAssumption`), and a run is started with
one of `Inputs`, which are any configurations of their type (`InputAssumption`). Text that the code compares is a string;
`Canonical` gives texts (`CanonicalAssumption`). `NoMovieTwice` says of an agent that works offline only as much as its
picks do, because those are reported as they are listed.

Proved for any such inputs and site and any number of workers and failures: `NoRepeats` (`NoMovieTwice`) and `CrawlStaysBounded`
(`CrawlIsBounded`). The bound on the requests sent says nothing of the ones a goroutine has still to send, and nothing of
what the crawl may still ask for, so it is not inductive. The invariant `Inv` counts both: `OneRequest` says that a crawling agent
waits for at most one page, `Fits` that it waits at the place that asked for it, and `CrawlCount` that the requests made, whether sent
or not, are at most what the pages read so far account for (`Spent`: each query once in each of the three searches, each thread
taken from the list, each visited subreddit with its listing and its queries). A fixed search starts one goroutine per pair of query and
subreddit, and each returns at most one thread (`FixedCount`). `Sound` keeps the limits of the frontier and of the list of threads (`Within`), whose
threads have different ids, and `Listed` the movies. What the folds of `MovieSources` and `EnqueueAll` return is not computed in these proofs:
`FoldExists` and `FoldStays` show, by well-founded induction on the number of turns, that a fold has a value, and that this
lies in every set which each turn keeps; the sets are lists without repetition up to a limit.

`ReportIsFull` (`FullReport`) is proved likewise, and needs the other half: what the folds do not drop. `FoldTurns` gives the list after each
turn, so that a pick which is looked at is in the list from then on unless the list is full (`Filled`). The property
speaks only of the end, and the invariant `Report` says what leads to it: what is found has no plot of its own and a movie
has none but one its picks give (`Kept`); once plots are looked for, a movie without one has a goroutine that asks for it
(`Plotted`), and only a movie whose picks give none has (`Wanted`), so that no answer overwrites a plot which was given.

`MovieProxy` (run `network`, `ProxyPromise`): settings, `rateLimiter.Allow` in units of `Rate` and `Cost`, plain requests and tunnels whose
two directions copy chunk by chunk and end on their own, and the shutdown, which does not know of tunnels: they are cut, and
the property only promises answers to plain requests, and asks for the credentials wherever the settings have any. `MovieOrchestrator` (`TasksPromise`): handler, scheduler, worker
and waiting goroutines. Two goroutines that write one map at once may end the process in Go; the
model has it as the outcome `crashed`.

Proved in `NetworkProofs` for any requests, credentials and settings, any rate and burst: `ProxyKeepsItsPromise`, the whole of
`ProxyPromise`. Its invariant `ProxyInv` has four parts. `ProxyTypes`. `TunnelInv`: in each direction what arrived, followed by what is on its way,
is what was sent, and a direction whose goroutine has returned was read to its end, or the connection broke (`Sound`).
`RateInv`: what an address got through since a grant, together with what is left in its bucket, is at most the burst and the refill
since that grant; `RateBound` alone is not inductive, because it says nothing of the bucket. `ServedInv`: what is being dialed or
forwarded, went upstream or has a tunnel was let through by the limiter and the credentials (`Permitted`), and what is cut has a tunnel.

Proved for any capacities and any number of requests: `TasksStartInOrder` and `WorkerKnowsOutcome` of `MovieOrchestrator`, and from the same
invariants `TasksKeepTheirPromise` of `Network`. What was started, the worker's
task, its channel, the scheduler's task and the manager's channel, put one after the other, are the
accepted tasks; the invariant `PipeInv` adds that each loop holds at most one task. That the
worker's map tells how a process ended if its task id was used once rests on `KnowInv`, which says what the map holds of such a task at every state of its
process (`TaskTold`).

## 9. The network programs: `CloakVpn`, `HotwireTraffic`, and the whole: `Network`, `NetworkProofs`

`CloakVpn` (`VpnPromise`): node 0 is the hub. A key is what `parseKey` makes of a text; a sealed datagram opens only with the same
key. `RightClient`: a packet for an address the hub has heard of comes out only at a client that spoke for it,
although clients move, end and start again and datagrams are late or come twice. A UDP address is not given to
another client afterwards (`nextPort`); if it were, a packet could reach the new owner. What the hub sends for an
address it has not heard of goes to whoever was heard last, and nothing is promised of it.

`VpnKeepsItsPromise` is proved in `NetworkProofs` for any number of clients, addresses and datagrams, if the hub is no client and
other programs do not have its key (`VpnAssumption`). The invariant `VpnInv` says that every datagram on its way
to the hub teaches it something true (`Teaches`), that what the hub sent for an address in its table goes where
that was heard (`Directed`), and that the client which has a UDP address is the one that used it (`PortsAreFresh`).
That the routes lead into the network is shown for every address and every prefix length from 0 to 32 (`GatewayOf`): the last byte of a
network with a prefix shorter than 32 is even, so that `incIP` carries nothing into the bytes before it; the gateway of a /32 lies
outside, and the property says so. `RoomsOfNetworkClean` and `RoomsOfNetworkAgree` carry `AgreeInv` over from `RelayRoomsProofs`:
the lemma `SameRooms` shows that the instance of `Network` is the module those proofs are about.

`HotwireTraffic` (`TrafficPromise`): `SharesAreWeights` counts the rolls that `pick` maps to each route; `ReportsAreTrue` compares the
report of an agent, whose snapshot reads the samples and three counters one after the other, with what was recorded:
an error rate above one is possible exactly by the requests counted between two reads, and the property says so.

Bounds of `network`: four requests through the proxy from one address, two chunks in each direction of a tunnel, of which one may come
early, so that one can be on its way while another has arrived or is cut; three tasks, two with one id, through channels of one and
two; two requests and three routes with a window of two samples; a hub and two clients with two datagrams in flight.

## 10. Findings

| Run | Where | What |
|---|---|---|
| `cloak_reopen` | `cloak/tunnel.go:173` | a chunk out of order is acknowledged and lost after a repeated OPEN |
| `relay_unsub` | `relay/internal/store/store.go:139` | send on a closed channel ends the server |
| `plate_ghost` | `plate/internal/control/control.go:52` | a deleted VM comes back |
| `hotwire_stale` | `hotwire/internal/proxy/proxy.go:94` | the proxy goes on sending traffic to a backend that is gone |

More disagreements were met while modelling and have no run of their own: a slow participant of a room misses chats
(`room.go:131`); a started container has a new address to which no DNAT rule leads (`control.go:176`); the record of a
failed creation keeps an address that was released (`control.go:113`); usage after a stop and a start is billed to nobody
(`control.go:193`); movie's `-workers` is documented as the "Max concurrent HTTP requests across all agents" (`options.go:27`), but
each proxy has a client with that many slots (`pool.go:40`); a page that ends within a closing tag makes surf's parser panic
(`html.go:82`), and one with `<b> </b>`, or with `</B>`, has what follows in the wrong element (`html.go:140`); requests that race for the first token of plate are served without one (`api/server.go:132`); postings that appear
between simplijobs' fetch and save, or later with a date before the save, are never shown (`check.go:102`, `filter.go:60`).

## 11. What is proved, what is only model-checked, and why

For every value of the constants, under the assumptions named in the sections:

| Module | Theorems | Assumes |
|---|---|---|
| `CloakTunnelProofs` | `TypeCorrect`, `UpstreamIsInOrder`, `DownstreamIsInOrder`, `ConfirmedWritesAreAccepted`, `OnlyDuplicatesReAcked`, `UpstreamImplements` (a refinement) | no OPEN twice, except for the types |
| `RelayStoreProofs` | `ReplaysAreTails`, `TopicsOnlyHoldOpen`, `StoreTypes`, `SeamHolds` | `StoreAssumption` |
| `RelayRoomsProofs` | `NobodyStays`, `RoomsAreClean`, `ParticipantsAgree` | the room without a name is a room; the bounds are natural numbers |
| `PlateControlProofs` | `TypeCorrect`, `AddressesAreExclusive`, `AssignedAddressesAreKnown` | `PlateAssumption` |
| `PlateControlProofs` | `OneRequestLeavesOrder`, `NothingIsLeftBehind`, `ShownAddressIsHeld`, `UsageIsClosed` | `PlateAssumption`; one request at a time, no crash; two workers in the last three |
| `HotwireControlProofs` | `RegisteredBackendsAreOpen`, `MappedStreamsAreOpen`, `SubscribersAreInSync` | `HotwireAssumption` |
| `MovieFinderProofs` | `NoRepeats`, `CrawlStaysBounded`, `ReportIsFull` | `FinderAssumption`, `InputAssumption`, `SiteAssumption`, `CanonicalAssumption` |
| `NetworkProofs` | `TasksStartInOrder`, `WorkerKnowsOutcome`, `TasksKeepTheirPromise` | none |
| `NetworkProofs` | `ProxyKeepsItsPromise`, `VpnKeepsItsPromise`, `RoomsOfNetworkClean`, `RoomsOfNetworkAgree` | `ProxyAssumption`, `VpnAssumption`, `RoomsAssumption` |
| `CommandProofs` | `JobsKeepTheirPromise` | `JobsAssumption`: processes are numbered, dates are natural numbers |
| `CommandProofs` | `RedbanKeepsItsPromise` | `RedbanAssumption`: needs and burst are natural numbers |
| `CommandProofs` | `Ipv1KeepsItsPromise` | `Ipv1Assumption`: lengths fit into two bytes, names are words, stray datagrams do not decode |

Each rests on an inductive invariant of its section: `IInv`, `RingInv`, `SubsInv` and `SeamInv`, `RoomsInv` and `AgreeInv`, `LeakInv`
and `SerialInv`, `Inv` and `Report` of the finder, `PipeInv`, `KnowInv` and `ProxyInv`, `VpnInv`, `JobsInv`, `RedbanInv` and `Ipv1Inv`. None of the properties is inductive by itself except the
types, `AddressesExclusive` and the gateways.

Only model-checked:

- Liveness (`WriteGetsThrough`, `ReadLoopRecovers`, `ReplayEnds`, `SharesArrive`, `RunEnds`) stays with TLC: the prover has no
  fairness or ENABLED.
- What a recursive definition or a fold computes in full: the surf modules and the texts of pools in `Ipv4`. Of the folds of `MovieSources` it is
  proved that they return lists of their type without repetition and within their limit, and that they keep what the code keeps first.
- So the promises of surf (`CrawlPromise`, `PlanPromise`, `ScorePromise`, `DiffPromise`, `BatchPromise`, `TreePromise`), whose operators are
  recursive; `PlatePromise`, whose pool is a fold over its text; and `TrafficPromise`, where the weighted choice sums
  the weights and the report sorts its samples. Each would need induction over data. Their runs contain the
  interleavings their hazards name.
- `TypeOK` of `HotwireControl` is not proved, since its range of weights rests on a sum over a set.

Every checked property of a passing run has a mutant: an operator beside the
definition it would replace, which makes a mistake that a programmer could make
there, and under which TLC finds the property violated.

CHECK_DEADLOCK is off in every run: each instance bounds its requests, events or processes and stops when they are used up.

## 12. Not modelled

- plate's Proxmox backend: calls of an outside API that the repository has no description of; the control plane's steps around it are those of `PlateControl`.
- The reaper of idle clients and the 32-bit wrap-around in cloak's tunnel; the devices of the VPN.
- minstd's conversions, strings and sockets, simplijobs' tables, movie's SOCKS dialer, command-line parsing, pages and printed
  output: no state, or bytes of outside protocols.
- slugcheck, grokbot, bookRoom, update_modules, the Python programs and generated code: sequential scripts over outside services, or not written by hand.

What could come next: the types of `HotwireControl` as theorems; abstract specifications of a topic
as a log and of a room as a list of frames, with `RelayStore` and `RelayRooms` shown to implement them.
