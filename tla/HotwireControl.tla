--------------------------- MODULE HotwireControl ---------------------------
(***************************************************************************)
(* The control plane of hotwire and its proxies: backends report metrics   *)
(* on streams, the rebalance loop scores them, and the weights are fanned  *)
(* out to subscribed proxies.  The registry and the server's maps have a   *)
(* mutex each; every handler and the loop is a goroutine.                  *)
(***************************************************************************)
EXTENDS Naturals, Sequences, FiniteSets, FiniteSetsExt

CONSTANTS
  Backends,
  Streams,     \* ReportMetrics calls
  Proxies,     \* SubscribeWeights calls, each with its proxy
  Scores,      \* those of a backend: (1 / p99) * (1 - error rate), in some unit
  Unit,        \* the weights of an update add up to it (1.0 in the code)
  None,        \* no backend id, stream, entry or result
  ChanCap,     \* capacity of a subscriber's channel
  MaxReports   \* bound: reports received

ASSUME HotwireAssumption ==
  /\ Scores \in [Backends -> SUBSET Nat] /\ Unit \in Nat \ {0}
  /\ ChanCap \in Nat \ {0} /\ MaxReports \in Nat
  /\ None \notin Backends \cup Streams

VARIABLES
  registry,   \* Registry.agents: score and time of the last report
  clock,      \* reports received; the time of a report is its number
  horizon,    \* reports before this one are older than the stale threshold
  pc,         \* ReportMetrics: in Recv, before Update, returned
  backend,    \* its backendID
  report,     \* the score it has received
  metricStreams,  \* Server.metricStreams, by stream instead of its channel
  subscribers,    \* Server.subscribers
  ch,         \* their channels
  sub,        \* SubscribeWeights: not called, added, in its loop, returned
  last,       \* Server.lastUpdate
  result,     \* what rebalance has scored and not sent yet
  weights,    \* proxy.Server.weights
  caught      \* history: proxies that have got an update from their channel

streamVars == <<pc, backend, report, metricStreams>>
subVars == <<subscribers, ch, sub, weights, caught>>
vars == <<registry, clock, horizon, streamVars, subVars, last, result>>

Entry == [score : Nat, at : 1..MaxReports]
Fingerprint(reasons) ==
  UNION {[reason : reasons, weights : [D -> 0..Unit]] : D \in SUBSET Backends}
Update == Fingerprint({"rebalance", "rebalance_with_stale", "no_backends"})
Never == [reason |-> "", weights |-> [b \in {} |-> 0]]

TypeOK ==
  /\ registry \in [Backends -> Entry \cup {None}]
  /\ clock \in 0..MaxReports
  /\ horizon \in 1..(clock + 1)
  /\ pc \in [Streams -> {"recv", "update", "done"}]
  /\ backend \in [Streams -> Backends \cup {None}]
  /\ report \in [Streams -> Nat \cup {None}]
  /\ metricStreams \in [Backends -> Streams \cup {None}]
  /\ subscribers \subseteq Proxies
  /\ ch \in [Proxies -> Seq(Update)]
  /\ \A p \in Proxies : Len(ch[p]) <= ChanCap
  /\ sub \in [Proxies -> {"new", "added", "loop", "done"}]
  /\ last \in Update \cup {Never}
  /\ result \in Update \cup {None}
  /\ weights \in [Proxies -> [Backends -> 0..Unit]]
  /\ caught \subseteq Proxies

Init ==
  /\ registry = [b \in Backends |-> None]
  /\ clock = 0
  /\ horizon = 1
  /\ pc = [s \in Streams |-> "recv"]
  /\ backend = [s \in Streams |-> None]
  /\ report = [s \in Streams |-> None]
  /\ metricStreams = [b \in Backends |-> None]
  /\ subscribers = {}
  /\ ch = [p \in Proxies |-> <<>>]
  /\ sub = [p \in Proxies |-> "new"]
  /\ last = Never
  /\ result = None
  /\ weights = [p \in Proxies |-> [b \in Backends |-> 0]]
  /\ caught = {}

----------------------------------------------------------------------------
(* Scores. *)

Known == {b \in Backends : registry[b] # None}
Fresh == {b \in Known : registry[b].at >= horizon}
Total == MapThenSumSet(LAMBDA b : registry[b].score, Fresh)

\* Stale backends, and all if every score is 0, get weight 0.
Weight(b) == IF b \in Fresh /\ Total > 0 THEN (registry[b].score * Unit) \div Total ELSE 0

Score ==
  [reason |-> IF Known = {} THEN "no_backends"
              ELSE IF Fresh # Known THEN "rebalance_with_stale" ELSE "rebalance",
   weights |-> [b \in Known |-> Weight(b)]]

\* A missing backend reads as weight 0.
Read(f, b) == IF b \in DOMAIN f.weights THEN f.weights[b] ELSE 0

\* Mutant: only the reason and the number of backends are compared.
EqualShape(f, g) ==
  f.reason = g.reason /\ Cardinality(DOMAIN f.weights) = Cardinality(DOMAIN g.weights)

Equal(f, g) ==
  /\ f.reason = g.reason
  /\ Cardinality(DOMAIN f.weights) = Cardinality(DOMAIN g.weights)
  /\ \A b \in DOMAIN f.weights : Read(g, b) = f.weights[b]

----------------------------------------------------------------------------
(* Backends. *)

\* A report arrives.  The first one gives the stream its backend; a stream that
\* names another one later ends (EndReports).
Receive(s, b, score) ==
  /\ pc[s] = "recv"
  /\ clock < MaxReports
  /\ backend[s] \in {None, b}
  /\ pc' = [pc EXCEPT ![s] = "update"]
  /\ report' = [report EXCEPT ![s] = score]
  /\ backend' = [backend EXCEPT ![s] = b]
  /\ metricStreams' = IF backend[s] = None THEN [metricStreams EXCEPT ![b] = s] ELSE metricStreams
  /\ UNCHANGED <<registry, clock, horizon, subVars, last, result>>

\* What follows, the answer with the stream's weight and a pushed assignment, is
\* ignored by agents and left out, as are the channels that hold assignments.
Register(s) ==
  /\ pc[s] = "update"
  /\ clock < MaxReports
  /\ clock' = clock + 1
  /\ registry' = [registry EXCEPT ![backend[s]] = [score |-> report[s], at |-> clock + 1]]
  /\ pc' = [pc EXCEPT ![s] = "recv"]
  /\ report' = [report EXCEPT ![s] = None]
  /\ UNCHANGED <<horizon, backend, metricStreams, subVars, last, result>>

\* Mutants: a stream that was replaced leaves the registry alone; the map of
\* streams is left alone.
RemovedIfOwn(s) ==
  /\ registry' = IF backend[s] # None /\ metricStreams[backend[s]] = s
                 THEN [registry EXCEPT ![backend[s]] = None] ELSE registry
  /\ metricStreams' = [b \in Backends |-> IF metricStreams[b] = s THEN None ELSE metricStreams[b]]
RemovedFromRegistry(s) ==
  /\ registry' = [b \in Backends |-> IF b = backend[s] THEN None ELSE registry[b]]
  /\ UNCHANGED metricStreams

\* The deferred function removes whatever its backend id has, its own or not.
Removed(s) ==
  /\ registry' = [b \in Backends |-> IF b = backend[s] THEN None ELSE registry[b]]
  /\ metricStreams' = [b \in Backends |-> IF b = backend[s] THEN None ELSE metricStreams[b]]

\* The agent ends the stream or is gone, a report is not valid, or Send fails.
EndReports(s) ==
  /\ pc[s] = "recv"
  /\ pc' = [pc EXCEPT ![s] = "done"]
  /\ Removed(s)
  /\ backend' = [backend EXCEPT ![s] = None]
  /\ UNCHANGED <<clock, horizon, report, subVars, last, result>>

\* The oldest reports pass the stale threshold.
TimePasses ==
  /\ horizon <= clock
  /\ horizon' = horizon + 1
  /\ UNCHANGED <<registry, clock, streamVars, subVars, last, result>>

----------------------------------------------------------------------------
(* The rebalance loop. *)

\* It takes its own snapshot of the registry ...
Rebalance ==
  /\ result = None
  /\ ~Equal(Score, last)
  /\ result' = Score
  /\ UNCHANGED <<registry, clock, horizon, streamVars, subVars, last>>

Full(p) == Len(ch[p]) >= ChanCap

\* Mutant: a subscriber that missed an update stays.
AllStay == subscribers

Kept == {p \in subscribers : ~Full(p)}

\* ... and sends it to all channels that have room; a subscriber whose channel is
\* full gets no update any more, although its call goes on.
FanOut ==
  /\ result # None
  /\ last' = result
  /\ ch' = [p \in Proxies |-> IF p \in subscribers /\ ~Full(p) THEN Append(ch[p], result) ELSE ch[p]]
  /\ subscribers' = Kept
  /\ result' = None
  /\ UNCHANGED <<registry, clock, horizon, streamVars, sub, weights, caught>>

----------------------------------------------------------------------------
(* Proxies.  An update is applied when it is sent: nothing overtakes it. *)

\* Backends that are not in the update keep their weight.
Apply(p, f) ==
  weights' = [weights EXCEPT ![p] =
                [b \in Backends |-> IF b \in DOMAIN f.weights THEN f.weights[b] ELSE weights[p][b]]]

Subscribe(p) ==
  /\ sub[p] = "new"
  /\ sub' = [sub EXCEPT ![p] = "added"]
  /\ subscribers' = subscribers \cup {p}
  /\ UNCHANGED <<registry, clock, horizon, streamVars, ch, weights, caught, last, result>>

\* The current weights, if there are backends, before the loop.
SendCurrent(p) ==
  /\ sub[p] = "added"
  /\ sub' = [sub EXCEPT ![p] = "loop"]
  /\ IF Known = {} THEN UNCHANGED weights ELSE Apply(p, Score)
  /\ UNCHANGED <<registry, clock, horizon, streamVars, subscribers, ch, caught, last, result>>

Forward(p) ==
  /\ sub[p] = "loop"
  /\ ch[p] # <<>>
  /\ Apply(p, Head(ch[p]))
  /\ ch' = [ch EXCEPT ![p] = Tail(@)]
  /\ caught' = caught \cup {p}
  /\ UNCHANGED <<registry, clock, horizon, streamVars, subscribers, sub, last, result>>

\* The proxy disconnects; it does not subscribe again, and its channel is gone.
Unsubscribe(p) ==
  /\ sub[p] \in {"added", "loop"}
  /\ sub' = [sub EXCEPT ![p] = "done"]
  /\ subscribers' = subscribers \ {p}
  /\ ch' = [ch EXCEPT ![p] = <<>>]
  /\ UNCHANGED <<registry, clock, horizon, streamVars, weights, caught, last, result>>

Next ==
  \/ \E s \in Streams :
       \/ \E b \in Backends : \E score \in Scores[b] : Receive(s, b, score)
       \/ Register(s) \/ EndReports(s)
  \/ TimePasses \/ Rebalance \/ FanOut
  \/ \E p \in Proxies : Subscribe(p) \/ SendCurrent(p) \/ Forward(p) \/ Unsubscribe(p)

Spec == Init /\ [][Next]_vars

\* The rebalance loop ticks, and the connections of the proxies take what is sent.
FairSpec ==
  /\ Spec
  /\ WF_vars(Rebalance) /\ WF_vars(FanOut)
  /\ \A p \in Proxies : WF_vars(SendCurrent(p)) /\ WF_vars(Forward(p))

----------------------------------------------------------------------------
(* Properties. *)

\* Two streams may name one backend (a restarted agent, the demo's second gamma).
\* However they end, a backend in the registry has a stream that is not over: the
\* deferred removal of ReportMetrics leaves no entry that nobody can remove.
RegisteredIsOpen ==
  \A b \in Known : \E s \in Streams : backend[s] = b

\* rebalance pushes assignments only to streams that are not over.
StreamsAreOpen ==
  \A b \in Backends : metricStreams[b] # None =>
    backend[metricStreams[b]] = b

UpToDate(p) == p \in subscribers \cap caught /\ ch[p] = <<>>

\* A subscriber is cut off rather than left with a gap: one that is still in the map,
\* has begun to take updates and has none left to take has the weights that
\* rebalance published last.
InSync ==
  \A p \in Proxies : UpToDate(p) =>
    \A b \in DOMAIN last.weights : weights[p][b] = last.weights[b]

\* Backends that have a share of the traffic.
Sharing == {b \in Fresh : Weight(b) > 0}

\* Once the backends' state stays as it is, a proxy that takes updates and stays
\* subscribed routes to every backend by its score, whatever it missed before
\* (rebalance compares fingerprints, so a change that it takes for none is lost).
SharesArrive ==
  \A p \in Proxies :
    <>[](p \in subscribers \cap caught) =>
      <>[](\A b \in Sharing : weights[p][b] = Weight(b))

\* "Stale backends (no report for >3s) get weight 0": when all reports are older
\* than the threshold, rebalance sees no change any more and the proxy has taken
\* every update, it sends traffic to nobody.
StaleGetNothing ==
  horizon > clock /\ Equal(Score, last) /\ result = None =>
    \A p \in Proxies : UpToDate(p) => \A b \in Backends : weights[p][b] = 0

=============================================================================
