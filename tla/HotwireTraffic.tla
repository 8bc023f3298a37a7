--------------------------- MODULE HotwireTraffic ---------------------------
(* The traffic of hotwire: the proxy that spreads requests by the weights   *)
(* it was told, one backend (simhttp on minstd/http) with its metrics, and  *)
(* the agent that reports them to the control plane.  A snapshot of the     *)
(* metrics is taken while requests are counted.  Latencies are whole ms,    *)
(* weights whole parts.                                                     *)
EXTENDS Integers, Sequences, FiniteSets, SequencesExt

CONSTANTS Requests,    \* the requests that may come to the proxy, numbered in the order they come
          Me,          \* the backend that is modelled
          Routes,      \* the proxy's routes: a sequence of [id, url], with a url that parses or not
          Updates,     \* the weights that the control plane sends, in order
          Configs,     \* the configurations of an agent, with the latencies of the requests its backend served earlier
          MaxLatencySamples, MaxReports   \* maxLatencySamples; bound: reports

VARIABLES cfg, ctx,    \* the agent's configuration; its context was cancelled
          agent, back, srv,   \* agent.Run, backend.Run and its listener
          rep,         \* reportLoop: its step and the snapshot it is taking
          stream,      \* the stream of reports
          weights, told,  \* the proxy's weights; the updates it has got
          req, took,   \* the step of each request, and the latency it slept
          inflight, requests, errors, samples,   \* Metrics
          recorded,    \* every latency ever recorded (history)
          reports      \* what was reported (history)
metrics == <<inflight, requests, errors, samples, recorded>>
control == <<cfg, ctx, agent, back, srv, rep, stream, reports>>
vars == <<control, weights, told, req, took, metrics>>

----------------------------------------------------------------------------
(* The proxy's choice: the routes with a positive weight, in their order,   *)
(* each with a share of the roll as long as its weight.                     *)
WeightOf(ws, id) == IF id \in DOMAIN ws THEN ws[id] ELSE 0
Total(cum) == IF cum = <<>> THEN 0 ELSE Last(cum).upto
Cum(ws) ==
  FoldLeft(LAMBDA cum, t : IF WeightOf(ws, t.id) <= 0 THEN cum
                           ELSE Append(cum, [id |-> t.id, upto |-> Total(cum) + WeightOf(ws, t.id)]), <<>>, Routes)
PickLow(cum, roll) ==      \* stops at the bound before; used by a mutant
  IF cum = <<>> THEN "" ELSE cum[CHOOSE i \in DOMAIN cum : i = Len(cum) \/ roll < cum[i].upto].id
Pick(cum, roll) ==
  IF cum = <<>> THEN ""
  ELSE LET fit == {i \in DOMAIN cum : roll <= cum[i].upto}
       IN  cum[IF fit = {} THEN Len(cum) ELSE CHOOSE i \in fit : \A j \in fit : i <= j].id
Rolls(cum) == 1..(IF cum = <<>> THEN 1 ELSE Total(cum))
Proxied(id) == \E i \in DOMAIN Routes : Routes[i].id = id /\ Routes[i].url

(* Percentile: the element at the rank rounded up, of the sorted samples.   *)
Ceil(n, d) == IF n % d > 0 THEN n \div d + 1 ELSE n \div d
Rank(n, p) == LET k == Ceil(n * p, 100) IN IF k < 1 THEN 1 ELSE IF k > n THEN n ELSE k
Percentile(s, p) == IF s = <<>> THEN 0 ELSE SortSeq(s, LAMBDA a, b : a < b)[Rank(Len(s), p)]

(* Latency.Sample: the base with the jitter around it, never negative.      *)
Sample == IF cfg.jitter <= 0 THEN {cfg.latency}
          ELSE {IF cfg.latency + d < 0 THEN 0 ELSE cfg.latency + d : d \in -cfg.jitter..cfg.jitter}
Trimmed(s) == IF Len(s) > MaxLatencySamples THEN SubSeq(s, Len(s) - MaxLatencySamples + 1, Len(s)) ELSE s

(* The defaults of agent.Run and simhttp.New.                               *)
Defaults(c) == [c EXCEPT !.every = IF @ <= 0 THEN 250 ELSE @, !.control = IF @ = "" THEN "127.0.0.1:50051" ELSE @,
                         !.addr = IF @ = "" THEN ":0" ELSE @]
NoSnapshot == [samples |-> <<>>, inflight |-> 0, requests |-> 0, errors |-> 0, slipped |-> 0, of |-> 0]

Init ==
  /\ cfg \in {Defaults(c) : c \in Configs} /\ ctx = FALSE
  /\ agent = (IF cfg.name = "" THEN "refused" ELSE "running")
  /\ back = "running" /\ srv = "new" /\ rep = [pc |-> "dial", s |-> NoSnapshot] /\ stream = "none"
  /\ weights = [i \in {} |-> 0] /\ told = 0 /\ req = [r \in Requests |-> "new"] /\ took = [r \in Requests |-> 0]
  /\ inflight = 0 /\ errors = 0 /\ reports = <<>>
  /\ requests = Len(cfg.earlier) /\ samples = cfg.earlier /\ recorded = cfg.earlier

----------------------------------------------------------------------------
(* The proxy: an update sets the weights it names.  Updates after the last  *)
(* request are left out.                                                    *)
ApplyUpdate ==
  /\ told < Len(Updates) /\ told' = told + 1 /\ \E r \in Requests : req[r] = "new"
  /\ LET u == Updates[told'] IN
     weights' = [i \in DOMAIN weights \cup DOMAIN u |-> IF i \in DOMAIN u THEN u[i] ELSE weights[i]]
  /\ UNCHANGED <<control, req, took, metrics>>
Route(id) == IF id = "" THEN "unavailable" ELSE IF ~Proxied(id) THEN "bad gateway"
             ELSE IF id # Me THEN "elsewhere" ELSE "connecting"
Handle(r) ==
  /\ req[r] = "new" /\ \A q \in Requests : q < r => req[q] # "new"
  /\ LET cum == Cum(weights) IN \E roll \in Rolls(cum) : req' = [req EXCEPT ![r] = Route(Pick(cum, roll))]
  /\ UNCHANGED <<control, weights, told, took, metrics>>

----------------------------------------------------------------------------
(* The backend's server: a connection gets a goroutine, which reads the     *)
(* request up to its blank line and serves it, unless the connection ends   *)
(* before it or the first line has less than two parts.                     *)
Started == agent # "refused"
Goto(r, s) == req' = [req EXCEPT ![r] = s]
Accept(r) ==
  /\ req[r] = "connecting" /\ Started
  /\ req' = [req EXCEPT ![r] = IF srv = "listening" THEN "reading" ELSE "refused"]
  /\ UNCHANGED <<control, weights, told, took, metrics>>
ReadFails(r) ==
  /\ req[r] = "reading" /\ Goto(r, "dropped")
  /\ UNCHANGED <<control, weights, told, took, metrics>>

(* Server.handle and the function that BeginRequest returns: the counters   *)
(* one after the other, without a lock over them all.                       *)
BeginRequest(r) ==
  /\ req[r] = "reading" /\ Goto(r, "sleeping") /\ inflight' = inflight + 1
  /\ UNCHANGED <<control, weights, told, took, requests, errors, samples, recorded>>
Slip == rep' = IF rep.pc = "errors" THEN [rep EXCEPT !.s.slipped = @ + 1] ELSE rep
CountRequest(r) ==
  /\ req[r] = "sleeping" /\ requests' = requests + 1 /\ Slip
  /\ \E ms \in Sample : took' = [took EXCEPT ![r] = ms]
  /\ Goto(r, "counted") \/ Goto(r, "failing")
  /\ UNCHANGED <<cfg, ctx, agent, back, srv, stream, reports, weights, told, inflight, errors, samples, recorded>>
CountError(r) ==
  /\ req[r] = "failing" /\ errors' = errors + 1 /\ Goto(r, "failed")
  /\ UNCHANGED <<control, weights, told, took, inflight, requests, samples, recorded>>
RecordLatency(r) ==
  /\ req[r] \in {"counted", "failed"} /\ samples' = Trimmed(Append(samples, took[r])) /\ recorded' = Append(recorded, took[r])
  /\ Goto(r, IF req[r] = "failed" THEN "recorded 500" ELSE "recorded 200")
  /\ UNCHANGED <<control, weights, told, took, inflight, requests, errors>>
Done(r) ==
  /\ req[r] \in {"recorded 200", "recorded 500"} /\ inflight' = inflight - 1
  /\ Goto(r, IF req[r] = "recorded 500" THEN "500" ELSE "200")
  /\ UNCHANGED <<control, weights, told, took, requests, errors, samples, recorded>>

----------------------------------------------------------------------------
(* Server.Run: the listener comes up in a goroutine; at the end Shutdown    *)
(* closes it, if it is there already, and waits for no request.             *)
Quiet == UNCHANGED <<weights, told, req, took, metrics>>
Listen ==
  /\ Started /\ srv = "new" /\ srv' \in {"listening", "failed"}
  /\ UNCHANGED <<cfg, ctx, agent, back, rep, stream, reports>> /\ Quiet
BackendEnds ==
  /\ Started /\ back = "running" /\ (ctx \/ srv = "failed") /\ back' = "ended"
  /\ srv' = IF srv = "listening" THEN "closed" ELSE srv
  /\ UNCHANGED <<cfg, ctx, agent, rep, stream, reports>> /\ Quiet
Cancel ==
  /\ Started /\ ~ctx /\ ctx' = TRUE
  /\ UNCHANGED <<cfg, agent, back, srv, rep, stream, reports>> /\ Quiet
AgentEnds ==
  /\ agent = "running" /\ (ctx \/ back = "ended" \/ rep.pc = "ended") /\ agent' = "ended"
  /\ UNCHANGED <<cfg, ctx, back, srv, rep, stream, reports>> /\ Quiet

(* reportLoop, with Snapshot in its four reads.                             *)
At(pc) == Started /\ rep.pc = pc
Step(pc, s) == rep' = [pc |-> pc, s |-> s]
Dial ==
  /\ At("dial")
  /\ \/ stream' = "open" /\ Step("copy", NoSnapshot)
     \/ stream' = "none" /\ Step("ended", NoSnapshot)
  /\ UNCHANGED <<cfg, ctx, agent, back, srv, reports>> /\ Quiet
Reading == UNCHANGED <<cfg, ctx, agent, back, srv, stream, reports>> /\ Quiet
CopySamples == At("copy") /\ Step("inflight", [NoSnapshot EXCEPT !.samples = samples, !.of = Len(recorded)]) /\ Reading
LoadInflight == At("inflight") /\ Step("requests", [rep.s EXCEPT !.inflight = inflight]) /\ Reading
LoadRequests == At("requests") /\ Step("errors", [rep.s EXCEPT !.requests = requests]) /\ Reading
LoadErrors == At("errors") /\ Step("send", [rep.s EXCEPT !.errors = errors]) /\ Reading

(* The report: without samples the configured latency stands in.            *)
Report(s) ==
  [p50 |-> IF s.samples = <<>> THEN 2 * cfg.latency ELSE 2 * Percentile(s.samples, 50),    \* in half ms
   p99 |-> IF s.samples = <<>> THEN 3 * cfg.latency ELSE 2 * Percentile(s.samples, 99),
   error |-> IF s.requests > 0 THEN <<s.errors, s.requests>> ELSE <<0, 1>>,
   inflight |-> s.inflight, rps |-> <<1000 * Len(s.samples), cfg.every>>, of |-> s.of, slipped |-> s.slipped]
SendReport ==
  /\ At("send")
  /\ IF stream = "broken" THEN Step("ended", NoSnapshot) /\ UNCHANGED reports
     ELSE Step("wait", NoSnapshot) /\ reports' = Append(reports, Report(rep.s))
  /\ UNCHANGED <<cfg, ctx, agent, back, srv, stream>> /\ Quiet
NextReport == At("wait") /\ Len(reports) < MaxReports /\ Step("copy", NoSnapshot) /\ Reading
CloseSend == At("wait") /\ ctx /\ Step("closing", NoSnapshot) /\ Reading
LoopEnds == At("closing") /\ stream = "broken" /\ Step("ended", NoSnapshot) /\ Reading
StreamEnds ==
  /\ stream = "open" /\ stream' = "broken"
  /\ UNCHANGED <<cfg, ctx, agent, back, srv, rep, reports>> /\ Quiet

Next == \/ ApplyUpdate \/ Listen \/ BackendEnds \/ Cancel \/ AgentEnds
        \/ Dial \/ CopySamples \/ LoadInflight \/ LoadRequests \/ LoadErrors
        \/ SendReport \/ NextReport \/ CloseSend \/ LoopEnds \/ StreamEnds
        \/ \E r \in Requests : \/ Handle(r) \/ Accept(r) \/ ReadFails(r) \/ BeginRequest(r)
                               \/ CountRequest(r) \/ CountError(r) \/ RecordLatency(r) \/ Done(r)

----------------------------------------------------------------------------
(* Every request goes to a route with a positive weight, and of all rolls   *)
(* each such route gets as many as its weight (pick).                       *)
SharesAreWeights ==
  LET cum == Cum(weights) IN
  \A i \in DOMAIN Routes :
    Cardinality({roll \in Rolls(cum) : Pick(cum, roll) = Routes[i].id}) = WeightOf(weights, Routes[i].id)

(* A report gives, of the last latencies recorded when it was begun, the    *)
(* smallest one that half of them and the smallest that 99 in a hundred do  *)
(* not exceed; its error rate is above one only by the requests that were   *)
(* counted between its two loads; and no request in flight is forgotten or  *)
(* counted for ever (Snapshot, Percentile, BeginRequest).                   *)
LastRecorded(n) == SubSeq(recorded, IF n > MaxLatencySamples THEN n - MaxLatencySamples + 1 ELSE 1, n)
AtMost(s, x) == Cardinality({i \in DOMAIN s : 2 * s[i] <= x})
IsRank(s, x, p) == /\ 100 * AtMost(s, x) >= p * Len(s)
                   /\ \E i \in DOMAIN s : 2 * s[i] = x
                   /\ 100 * Cardinality({i \in DOMAIN s : 2 * s[i] < x}) < p * Len(s)
ReportsAreTrue ==
  /\ \A i \in DOMAIN reports : LET m == reports[i] IN
       /\ m.of > 0 => IsRank(LastRecorded(m.of), m.p50, 50) /\ IsRank(LastRecorded(m.of), m.p99, 99)
       /\ m.p50 <= m.p99
       /\ m.error[1] <= m.error[2] + m.slipped
       /\ m.inflight \in 0..Cardinality(Requests)
  /\ inflight = Cardinality({r \in Requests : req[r] \in {"sleeping", "counted", "failing", "failed",
                                                         "recorded 200", "recorded 500"}})
=============================================================================
