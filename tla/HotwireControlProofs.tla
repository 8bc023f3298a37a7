------------------------ MODULE HotwireControlProofs ------------------------
(* Proofs about HotwireControl, for any backends, streams, proxies and scores. *)
EXTENDS HotwireControl, TLAPS

\* The maps of the server have the keys they are indexed with.
Keys ==
  /\ DOMAIN registry = Backends
  /\ DOMAIN metricStreams = Backends
  /\ backend \in [Streams -> Backends \cup {None}]
  /\ pc \in [Streams -> {"recv", "update", "done"}]
  /\ DOMAIN weights = Proxies
  /\ DOMAIN ch = Proxies
  /\ sub \in [Proxies -> {"new", "added", "loop", "done"}]
  /\ subscribers \subseteq Proxies
  /\ caught \subseteq Proxies

LEMMA KeysInit == Init => Keys
BY DEF Init, Keys

LEMMA KeysNext == Keys /\ [Next]_vars => Keys'
<1> SUFFICES ASSUME Keys, [Next]_vars PROVE Keys'
  OBVIOUS
<1> USE HotwireAssumption DEF Keys
<1>1. ASSUME NEW s \in Streams, NEW b \in Backends, NEW score \in Scores[b], Receive(s, b, score)
      PROVE  Keys'
  BY <1>1 DEF Receive, subVars
<1>2. ASSUME NEW s \in Streams, Register(s) PROVE Keys'
  BY <1>2 DEF Register, subVars
<1>3. ASSUME NEW s \in Streams, EndReports(s) PROVE Keys'
  BY <1>3 DEF EndReports, Removed, subVars
<1>4. CASE TimePasses \/ Rebalance
  BY <1>4 DEF TimePasses, Rebalance, streamVars, subVars
<1>5. CASE FanOut
  BY <1>5 DEF FanOut, Kept, streamVars
<1>6. ASSUME NEW p \in Proxies, Subscribe(p) \/ Unsubscribe(p) PROVE Keys'
  BY <1>6 DEF Subscribe, Unsubscribe, streamVars
<1>7. ASSUME NEW p \in Proxies, SendCurrent(p) PROVE Keys'
  BY <1>7 DEF SendCurrent, Apply, streamVars
<1>8. ASSUME NEW p \in Proxies, Forward(p) PROVE Keys'
  BY <1>8 DEF Forward, Apply, streamVars
<1>9. CASE UNCHANGED vars
  BY <1>9 DEF vars, streamVars, subVars
<1> QED BY <1>1, <1>2, <1>3, <1>4, <1>5, <1>6, <1>7, <1>8, <1>9 DEF Next

----------------------------------------------------------------------------
(* Streams. *)

\* A stream that is about to register a report has a backend.
Owners == \A s \in Streams : pc[s] = "update" => backend[s] # None

StreamInv == Keys /\ Owners /\ RegisteredIsOpen /\ StreamsAreOpen

LEMMA StreamInit == Init => StreamInv
BY KeysInit DEF Init, StreamInv, Owners, RegisteredIsOpen, StreamsAreOpen, Known

LEMMA StreamNext == StreamInv /\ [Next]_vars => StreamInv'
<1> SUFFICES ASSUME StreamInv, [Next]_vars PROVE StreamInv'
  OBVIOUS
<1>0. Keys'
  BY KeysNext DEF StreamInv
<1> USE HotwireAssumption DEF StreamInv, Keys, Owners, RegisteredIsOpen, StreamsAreOpen, Known
<1>1. ASSUME NEW s \in Streams, NEW b \in Backends, NEW score \in Scores[b], Receive(s, b, score)
      PROVE  StreamInv'
  <2>1. backend'[s] = b /\ \A u \in Streams \ {s} : backend'[u] = backend[u]
    BY <1>1 DEF Receive
  <2>2. backend[s] = b \/ backend[s] = None
    BY <1>1 DEF Receive
  <2>3. Owners' /\ RegisteredIsOpen'
    BY <1>1, <2>1, <2>2 DEF Receive
  <2>4. StreamsAreOpen'
    BY <1>1, <2>1, <2>2 DEF Receive
  <2> QED BY <1>0, <2>3, <2>4
<1>2. ASSUME NEW s \in Streams, Register(s) PROVE StreamInv'
  <2>1. backend[s] \in Backends /\ backend' = backend /\ metricStreams' = metricStreams
    BY <1>2 DEF Register
  <2>2. \A b \in Backends \ {backend[s]} : registry'[b] = registry[b]
    BY <1>2 DEF Register
  <2>3. RegisteredIsOpen'
    BY <2>1, <2>2
  <2>4. Owners' /\ StreamsAreOpen'
    BY <1>2, <2>1 DEF Register
  <2> QED BY <1>0, <2>3, <2>4
<1>3. ASSUME NEW s \in Streams, EndReports(s) PROVE StreamInv'
  <2>1. \A u \in Streams \ {s} : backend'[u] = backend[u] /\ pc'[u] = pc[u]
    BY <1>3 DEF EndReports
  <2>2. Owners'
    BY <1>3, <2>1 DEF EndReports
  <2>3. RegisteredIsOpen'
    <3> SUFFICES ASSUME NEW b \in Backends, registry'[b] # None
                 PROVE  \E u \in Streams : backend'[u] = b
      OBVIOUS
    <3>1. b # backend[s] /\ registry[b] # None
      BY <1>3 DEF EndReports, Removed
    <3> QED BY <2>1, <3>1
  <2>4. StreamsAreOpen'
    <3> SUFFICES ASSUME NEW b \in Backends, metricStreams'[b] # None
                 PROVE  backend'[metricStreams'[b]] = b
      OBVIOUS
    <3>1. b # backend[s] /\ metricStreams'[b] = metricStreams[b]
      BY <1>3 DEF EndReports, Removed
    <3>2. backend[metricStreams[b]] = b /\ metricStreams[b] # s
      BY <3>1
    <3> QED BY <1>3, <3>1, <3>2 DEF EndReports
  <2> QED BY <1>0, <2>2, <2>3, <2>4
<1>4. CASE UNCHANGED <<registry, streamVars>>
  BY <1>0, <1>4 DEF streamVars
<1>5. TimePasses \/ Rebalance \/ FanOut => UNCHANGED <<registry, streamVars>>
  BY DEF TimePasses, Rebalance, FanOut
<1>6. \A p \in Proxies : Subscribe(p) \/ SendCurrent(p) \/ Forward(p) \/ Unsubscribe(p)
                           => UNCHANGED <<registry, streamVars>>
  BY DEF Subscribe, SendCurrent, Forward, Unsubscribe
<1>7. UNCHANGED vars => UNCHANGED <<registry, streamVars>>
  BY DEF vars
<1> QED BY <1>1, <1>2, <1>3, <1>4, <1>5, <1>6, <1>7 DEF Next

\* Whatever streams share a backend id and however they end, an entry of the
\* registry belongs to a stream that is not over.
THEOREM RegisteredBackendsAreOpen == Spec => []RegisteredIsOpen
<1>1. StreamInv => RegisteredIsOpen
  BY DEF StreamInv
<1> QED BY <1>1, StreamInit, StreamNext, PTL DEF Spec

\* The map of streams holds no stream that is over.
THEOREM MappedStreamsAreOpen == Spec => []StreamsAreOpen
<1>1. StreamInv => StreamsAreOpen
  BY DEF StreamInv
<1> QED BY <1>1, StreamInit, StreamNext, PTL DEF Spec

----------------------------------------------------------------------------
(* Subscribers. *)

\* A channel is a sequence, of whatever elements, and holds what was published last
\* at its end if it holds anything.  A proxy takes updates from it only in its loop.
LastQueued ==
  \A p \in Proxies :
    /\ \E S : ch[p] \in Seq(S)
    /\ p \in subscribers /\ ch[p] # <<>> => ch[p][Len(ch[p])] = last
    /\ p \in caught => sub[p] # "new" /\ sub[p] # "added"
    /\ sub[p] = "new" => ch[p] = <<>> /\ p \notin subscribers

Domains ==
  /\ DOMAIN last.weights \subseteq Backends
  /\ result # None => DOMAIN result.weights \subseteq Backends

SyncInv == Keys /\ Domains /\ LastQueued /\ InSync

LEMMA SyncInit == Init => SyncInv
<1> SUFFICES ASSUME Init PROVE SyncInv
  OBVIOUS
<1>1. Keys
  BY KeysInit
<1>2. Domains
  BY DEF Init, Domains, Never
<1>3. LastQueued
  <2>1. <<>> \in Seq({})
    OBVIOUS
  <2> QED BY <2>1 DEF Init, LastQueued
<1>4. InSync
  BY DEF Init, InSync, UpToDate
<1> QED BY <1>1, <1>2, <1>3, <1>4 DEF SyncInv

LEMMA DomainsNext == Domains /\ [Next]_vars => Domains'
<1> SUFFICES ASSUME Domains, [Next]_vars PROVE Domains'
  OBVIOUS
<1>1. CASE Rebalance
  <2>1. DOMAIN Score.weights \subseteq Backends
    BY DEF Score, Known
  <2> QED BY <1>1, <2>1 DEF Rebalance, Domains
<1>2. CASE FanOut
  BY <1>2 DEF FanOut, Domains
<1>3. CASE UNCHANGED <<last, result>>
  BY <1>3 DEF Domains
<1>4. ASSUME NEW s \in Streams
      PROVE  (\E b \in Backends : \E score \in Scores[b] : Receive(s, b, score))
               \/ Register(s) \/ EndReports(s) => UNCHANGED <<last, result>>
  BY DEF Receive, Register, EndReports
<1>5. TimePasses \/ UNCHANGED vars => UNCHANGED <<last, result>>
  BY DEF TimePasses, vars
<1>6. ASSUME NEW p \in Proxies
      PROVE  Subscribe(p) \/ SendCurrent(p) \/ Forward(p) \/ Unsubscribe(p)
               => UNCHANGED <<last, result>>
  BY DEF Subscribe, SendCurrent, Forward, Unsubscribe
<1> QED BY <1>1, <1>2, <1>3, <1>4, <1>5, <1>6 DEF Next

LEMMA SyncNext == SyncInv /\ [Next]_vars => SyncInv'
<1> SUFFICES ASSUME SyncInv, [Next]_vars PROVE SyncInv'
  OBVIOUS
<1>0. Keys' /\ Domains'
  BY KeysNext, DomainsNext DEF SyncInv
<1> USE DEF SyncInv, Keys
<1>1. CASE FanOut
  <2>1. /\ last' = result /\ weights' = weights /\ sub' = sub /\ caught' = caught
        /\ \A p \in Proxies : p \in subscribers' <=> p \in subscribers /\ ~Full(p)
        /\ \A p \in Proxies :
             ch'[p] = IF p \in subscribers /\ ~Full(p) THEN Append(ch[p], result) ELSE ch[p]
    BY <1>1 DEF FanOut, Kept
  <2>2. ASSUME NEW p \in Proxies, p \in subscribers, ~Full(p)
        PROVE  /\ \E S : ch'[p] \in Seq(S)
               /\ ch'[p] # <<>> /\ ch'[p][Len(ch'[p])] = last'
    <3>1. PICK S : ch[p] \in Seq(S)
      BY DEF LastQueued
    <3>2. ch[p] \in Seq(S \cup {result}) /\ result \in S \cup {result}
      BY <3>1
    <3>3. ch'[p] = Append(ch[p], result)
      BY <2>1, <2>2
    <3> QED BY <2>1, <3>2, <3>3
  <2>3. LastQueued'
    <3>1. ASSUME NEW p \in Proxies
          PROVE  /\ \E S : ch'[p] \in Seq(S)
                 /\ p \in subscribers' /\ ch'[p] # <<>> => ch'[p][Len(ch'[p])] = last'
      BY <2>1, <2>2 DEF LastQueued
    <3>2. ASSUME NEW p \in Proxies, sub[p] = "new" PROVE p \notin subscribers
      BY <3>2 DEF LastQueued
    <3> QED BY <2>1, <3>1, <3>2 DEF LastQueued
  <2>4. InSync'
    BY <2>1, <2>2 DEF InSync, UpToDate
  <2> QED BY <1>0, <2>3, <2>4
<1>2. ASSUME NEW p \in Proxies, Forward(p) PROVE SyncInv'
  <2>1. PICK S : ch[p] \in Seq(S)
    BY DEF LastQueued
  <2>2. /\ ch[p] # <<>> /\ sub[p] = "loop" /\ caught' = caught \cup {p} /\ last' = last
        /\ subscribers' = subscribers /\ sub' = sub /\ ch'[p] = Tail(ch[p])
        /\ \A q \in Proxies \ {p} : ch'[q] = ch[q] /\ weights'[q] = weights[q]
        /\ weights'[p] = [b \in Backends |-> IF b \in DOMAIN Head(ch[p]).weights
                                             THEN Head(ch[p]).weights[b] ELSE weights[p][b]]
    BY <1>2 DEF Forward, Apply
  <2>3. ch'[p] \in Seq(S) /\ (ch'[p] # <<>> => ch'[p][Len(ch'[p])] = ch[p][Len(ch[p])])
    BY <2>1, <2>2
  <2>4. LastQueued'
    <3>1. ASSUME NEW q \in Proxies
          PROVE  /\ \E T : ch'[q] \in Seq(T)
                 /\ q \in subscribers' /\ ch'[q] # <<>> => ch'[q][Len(ch'[q])] = last'
                 /\ q \in caught' => sub'[q] # "new" /\ sub'[q] # "added"
                 /\ sub'[q] = "new" => ch'[q] = <<>> /\ q \notin subscribers'
      <4>1. CASE q = p
        BY <2>2, <2>3, <4>1 DEF LastQueued
      <4>2. CASE q # p
        BY <2>2, <4>2 DEF LastQueued
      <4> QED BY <4>1, <4>2
    <3> QED BY <3>1 DEF LastQueued
  <2>5. ASSUME p \in subscribers, ch'[p] = <<>> PROVE Head(ch[p]) = last
    <3>1. Len(Tail(ch[p])) = 0
      <4>1. Tail(ch[p]) = <<>> /\ Len(<<>>) = 0
        BY <2>2, <2>5
      <4> QED BY <4>1
    <3>2. Len(ch[p]) = 1
      BY <2>1, <2>2, <3>1
    <3> QED BY <2>1, <2>2, <2>5, <3>2 DEF LastQueued
  <2>6. InSync'
    <3> SUFFICES ASSUME NEW q \in Proxies, UpToDate(q)', NEW b \in DOMAIN last'.weights
                 PROVE  weights'[q][b] = last'.weights[b]
      BY DEF InSync
    <3>1. CASE q = p
      BY <2>2, <2>5, <3>1 DEF UpToDate, Domains
    <3>2. CASE q # p
      BY <2>2, <3>2 DEF UpToDate, InSync
    <3> QED BY <3>1, <3>2
  <2> QED BY <1>0, <2>4, <2>6
<1>3. ASSUME NEW p \in Proxies, SendCurrent(p) PROVE SyncInv'
  <2>1. /\ sub[p] = "added" /\ sub'[p] = "loop" /\ UNCHANGED <<subscribers, ch, caught, last>>
        /\ \A q \in Proxies \ {p} : weights'[q] = weights[q] /\ sub'[q] = sub[q]
    BY <1>3 DEF SendCurrent, Apply
  <2>2. p \notin caught
    BY <2>1 DEF LastQueued
  <2>3. LastQueued'
    BY <2>1 DEF LastQueued
  <2>4. InSync'
    BY <2>1, <2>2 DEF InSync, UpToDate
  <2> QED BY <1>0, <2>3, <2>4
<1>4. ASSUME NEW p \in Proxies, Subscribe(p) PROVE SyncInv'
  <2>1. /\ sub[p] = "new" /\ subscribers' = subscribers \cup {p}
        /\ UNCHANGED <<ch, weights, caught, last>>
        /\ \A q \in Proxies : sub'[q] = IF q = p THEN "added" ELSE sub[q]
    BY <1>4 DEF Subscribe
  <2>2. ch[p] = <<>> /\ p \notin caught
    BY <2>1 DEF LastQueued
  <2>3. LastQueued'
    BY <2>1, <2>2 DEF LastQueued
  <2>4. InSync'
    BY <2>1, <2>2 DEF InSync, UpToDate
  <2> QED BY <1>0, <2>3, <2>4
<1>5. ASSUME NEW p \in Proxies, Unsubscribe(p) PROVE SyncInv'
  <2>1. /\ subscribers' = subscribers \ {p} /\ UNCHANGED <<weights, caught, last>>
        /\ \A q \in Proxies : /\ sub'[q] = IF q = p THEN "done" ELSE sub[q]
                              /\ ch'[q] = IF q = p THEN <<>> ELSE ch[q]
    BY <1>5 DEF Unsubscribe
  <2>2. LastQueued'
    <3>1. <<>> \in Seq({})
      OBVIOUS
    <3> QED BY <2>1, <3>1 DEF LastQueued
  <2>3. InSync'
    BY <2>1 DEF InSync, UpToDate
  <2> QED BY <1>0, <2>2, <2>3
<1>6. CASE UNCHANGED <<subVars, last>>
  BY <1>0, <1>6 DEF subVars, LastQueued, InSync, UpToDate
<1>7. ASSUME NEW s \in Streams
      PROVE  (\E b \in Backends : \E score \in Scores[b] : Receive(s, b, score))
               \/ Register(s) \/ EndReports(s) => UNCHANGED <<subVars, last>>
  BY DEF Receive, Register, EndReports
<1>8. TimePasses \/ Rebalance \/ UNCHANGED vars => UNCHANGED <<subVars, last>>
  BY DEF TimePasses, Rebalance, vars
<1> QED BY <1>1, <1>2, <1>3, <1>4, <1>5, <1>6, <1>7, <1>8 DEF Next

\* A subscriber that is still in the map and has taken all its updates has the weights
\* of the last rebalance, for any channel capacity.
THEOREM SubscribersAreInSync == Spec => []InSync
<1>1. SyncInv => InSync
  BY DEF SyncInv
<1> QED BY <1>1, SyncInit, SyncNext, PTL DEF Spec
=============================================================================
