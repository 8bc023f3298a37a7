---------------------------- MODULE NetworkProofs ----------------------------
(***************************************************************************)
(* Proofs about the servers of Network: the movie finder's orchestrator    *)
(* and its proxy, and cloak's VPN; the chat rooms keep what                *)
(* RelayRoomsProofs proves of them.  The last section has the theorems of  *)
(* the whole.                                                              *)
(***************************************************************************)
EXTENDS Network, SequenceTheorems, FiniteSetTheorems, TLAPS

----------------------------------------------------------------------------
(* Queues: what moves from one to the next stays in order.                  *)

LEMMA HeadFirst ==
  ASSUME NEW S, NEW s \in Seq(S), s # <<>>
  PROVE  /\ Head(s) \in S /\ Tail(s) \in Seq(S) /\ <<Head(s)>> \in Seq(S)
         /\ s = <<Head(s)>> \o Tail(s)
<1>1. /\ Head(s) \in S /\ Tail(s) \in Seq(S) /\ Len(Tail(s)) = Len(s) - 1
      /\ \A i \in 1..Len(Tail(s)) : Tail(s)[i] = s[i + 1]
  BY HeadTailProperties
<1>2. <<Head(s)>> \in Seq(S) /\ Len(<<Head(s)>>) = 1 /\ <<Head(s)>>[1] = s[1]
  BY <1>1
<1>3. s = <<Head(s)>> \o Tail(s)
  BY <1>1, <1>2
<1> QED BY <1>1, <1>2, <1>3

\* The next station takes the head of the one behind it ...
LEMMA Pass ==
  ASSUME NEW S, NEW l \in Seq(S), NEW e \in Seq(S), e # <<>>
  PROVE  (l \o <<>>) \o e = (l \o <<Head(e)>>) \o Tail(e)
<1>1. l \o <<>> = l
  BY ConcatEmptySeq
<1>2. /\ <<Head(e)>> \in Seq(S) /\ Tail(e) \in Seq(S)
      /\ e = <<Head(e)>> \o Tail(e)
  BY HeadFirst
<1>3. (l \o <<Head(e)>>) \o Tail(e) = l \o (<<Head(e)>> \o Tail(e))
  BY <1>2, ConcatAssociative
<1> QED BY <1>1, <1>2, <1>3

\* ... and puts it at the end of the one before.
LEMMA Hand ==
  ASSUME NEW S, NEW l \in Seq(S), NEW c \in Seq(S), NEW x \in S
  PROVE  (l \o c) \o <<x>> = (l \o Append(c, x)) \o <<>>
<1>1. <<x>> \in Seq(S) /\ Append(c, x) \in Seq(S) /\ Append(c, x) = c \o <<x>>
  BY AppendIsConcat, AppendProperties
<1>2. (l \o c) \o <<x>> = l \o (c \o <<x>>)
  BY <1>1, ConcatAssociative
<1>3. l \o Append(c, x) \in Seq(S)
  BY <1>1, ConcatProperties
<1>4. (l \o Append(c, x)) \o <<>> = l \o Append(c, x)
  BY <1>3, ConcatEmptySeq
<1> QED BY <1>1, <1>2, <1>4

LEMMA Enters ==
  ASSUME NEW S, NEW l \in Seq(S), NEW e \in Seq(S), NEW x \in S
  PROVE  l \o Append(e, x) = Append(l \o e, x)
<1>1. <<x>> \in Seq(S) /\ Append(e, x) = e \o <<x>>
  BY AppendIsConcat
<1>2. (l \o e) \o <<x>> = l \o (e \o <<x>>)
  BY <1>1, ConcatAssociative
<1>3. l \o e \in Seq(S)
  BY ConcatProperties
<1>4. Append(l \o e, x) = (l \o e) \o <<x>>
  BY <1>3, AppendIsConcat
<1> QED BY <1>1, <1>2, <1>4

LEMMA Runs ==
  ASSUME NEW S, NEW a \in Seq(S), NEW x \in S
  PROVE  Append(a, x) \o <<>> = a \o <<x>>
<1>1. Append(a, x) \in Seq(S) /\ Append(a, x) = a \o <<x>>
  BY AppendIsConcat, AppendProperties
<1> QED BY <1>1, ConcatEmptySeq

LEMMA CopiesInOrder ==
  ASSUME NEW S, NEW a \in Seq(S), NEW e \in Seq(S), e # <<>>
  PROVE  Append(a, Head(e)) \o Tail(e) = a \o e
<1>1. /\ Head(e) \in S /\ <<Head(e)>> \in Seq(S) /\ Tail(e) \in Seq(S)
      /\ e = <<Head(e)>> \o Tail(e)
  BY HeadFirst
<1>2. Append(a, Head(e)) = a \o <<Head(e)>>
  BY <1>1, AppendIsConcat
<1>3. (a \o <<Head(e)>>) \o Tail(e) = a \o (<<Head(e)>> \o Tail(e))
  BY <1>1, ConcatAssociative
<1> QED BY <1>1, <1>2, <1>3

----------------------------------------------------------------------------
(* The orchestrator: its two channels and two loops are one queue, for any  *)
(* capacities and any number of requests.                                   *)

Tasks == Seq(Posts)

TaskTypes ==
  /\ post \in [Posts -> {"new", "refused", "writing", "sending", "created"}]
  /\ pending \in Tasks /\ manager \in Tasks /\ queue \in Tasks /\ worker.p \in Tasks
  /\ started \in Tasks /\ accepted \in Tasks

\* The scheduler holds at most one task, and so does the worker.
Hands ==
  /\ manager # <<>> => manager = <<Head(manager)>>
  /\ worker.step = "take" => worker.p = <<>>
  /\ worker.step = "record" => worker.p # <<>> /\ worker.p = <<Head(worker.p)>>

PipeInv == TaskTypes /\ Hands /\ MO!TasksInOrder

----------------------------------------------------------------------------
LEMMA PipeInvInit == MO!Init => PipeInv
<1> SUFFICES ASSUME MO!Init PROVE PipeInv
  OBVIOUS
<1>1. <<>> \in Tasks /\ <<>> \o <<>> = <<>>
  BY EmptySeq, ConcatEmptySeq DEF Tasks
<1>2. worker.p = <<>> /\ worker.step = "take"
  BY DEF MO!Init, MO!Idle
<1>3. started \o worker.p \o queue \o manager \o pending = accepted
  BY <1>1, <1>2 DEF MO!Init
<1>4. accepted = <<>> /\ DOMAIN accepted = {} /\ MO!Range(accepted) = {}
  BY DEF MO!Init, MO!Range
<1>5. TaskTypes /\ Hands
  BY <1>1, <1>2 DEF MO!Init, TaskTypes, Hands
<1> QED BY <1>3, <1>4, <1>5 DEF PipeInv, MO!TasksInOrder, MO!Init

\* A handler accepts its task once.
LEMMA SubmitKeeps ==
  ASSUME PipeInv, NEW p \in Posts, MO!Submit(p)
  PROVE  PipeInv'
<1>1. /\ post[p] = "sending" /\ post' = [post EXCEPT ![p] = "created"]
      /\ pending' = Append(pending, p) /\ accepted' = Append(accepted, p)
      /\ UNCHANGED <<manager, queue, worker, started>>
  BY DEF MO!Submit, MO!Sent
<1>2. pending' \in Tasks /\ accepted' \in Tasks
  BY <1>1, AppendProperties DEF PipeInv, TaskTypes, Tasks
<1>3. TaskTypes' /\ Hands'
  BY <1>1, <1>2 DEF PipeInv, TaskTypes, Hands
<1>4. started \o worker.p \o queue \o manager \in Tasks
  BY ConcatProperties DEF PipeInv, TaskTypes, Tasks
<1>5. (started \o worker.p \o queue \o manager \o pending = accepted)'
  <2>1. PICK l \in Tasks : l = started \o worker.p \o queue \o manager
    BY <1>4
  <2>2. l \o Append(pending, p) = Append(l \o pending, p)
    <3>1. l \in Seq(Posts) /\ pending \in Seq(Posts) /\ p \in Posts
      BY <2>1 DEF PipeInv, TaskTypes, Tasks
    <3> QED BY <3>1, Enters
  <2>3. l \o pending = accepted
    BY <2>1 DEF PipeInv, MO!TasksInOrder
  <2> QED BY <1>1, <2>1, <2>2, <2>3, Zenon
<1>6. p \notin MO!Range(accepted)
  BY <1>1 DEF PipeInv, MO!TasksInOrder
<1>7. /\ accepted \in Seq(Posts) /\ Len(accepted) \in Nat /\ DOMAIN accepted = 1..Len(accepted)
      /\ DOMAIN accepted' = 1..(Len(accepted) + 1)
      /\ \A i \in 1..Len(accepted) : accepted'[i] = accepted[i]
      /\ accepted'[Len(accepted) + 1] = p
  BY <1>1 DEF PipeInv, TaskTypes, Tasks
<1>8. \A i \in 1..Len(accepted) : accepted[i] # p
  BY <1>6, <1>7 DEF MO!Range
<1>9. \A k, n \in DOMAIN accepted' : k # n => accepted'[k] # accepted'[n]
  BY <1>7, <1>8 DEF PipeInv, MO!TasksInOrder
<1>10. MO!Range(accepted') = MO!Range(accepted) \cup {p}
  BY <1>7 DEF MO!Range
<1>11. \A q \in Posts : post'[q] = "created" <=> q \in MO!Range(accepted')
  BY <1>1, <1>10 DEF PipeInv, TaskTypes, MO!TasksInOrder
<1> QED BY <1>3, <1>5, <1>9, <1>11 DEF PipeInv, MO!TasksInOrder

\* What a step that moves a task must show.
LEMMA MovesKeep ==
  ASSUME PipeInv, TaskTypes', Hands', UNCHANGED <<post, accepted>>,
         (started \o worker.p \o queue \o manager \o pending)' =
           started \o worker.p \o queue \o manager \o pending
  PROVE  PipeInv'
  BY DEF PipeInv, MO!TasksInOrder

LEMMA ScheduleKeeps == PipeInv /\ MO!Schedule => PipeInv'
<1> SUFFICES ASSUME PipeInv, MO!Schedule PROVE PipeInv'
  OBVIOUS
<1>1. /\ manager = <<>> /\ pending # <<>> /\ manager' = <<Head(pending)>> /\ pending' = Tail(pending)
      /\ UNCHANGED <<post, queue, worker, accepted, started>>
  BY DEF MO!Schedule
<1>2. manager' \in Tasks /\ pending' \in Tasks
  BY <1>1, HeadFirst DEF PipeInv, TaskTypes, Tasks
<1>3. TaskTypes' /\ Hands'
  BY <1>1, <1>2 DEF PipeInv, TaskTypes, Hands
<1>4. started \o worker.p \o queue \in Tasks
  BY ConcatProperties DEF PipeInv, TaskTypes, Tasks
<1>5. (started \o worker.p \o queue \o manager \o pending)' =
        started \o worker.p \o queue \o manager \o pending
  BY <1>1, <1>4, Pass DEF PipeInv, TaskTypes, Tasks
<1> QED BY <1>1, <1>3, <1>5, MovesKeep

LEMMA SendWorkKeeps == PipeInv /\ MO!SendWork => PipeInv'
<1> SUFFICES ASSUME PipeInv, MO!SendWork PROVE PipeInv'
  OBVIOUS
<1> DEFINE x == Head(manager)
<1>1. /\ manager # <<>> /\ queue' = Append(queue, x) /\ manager' = <<>>
      /\ UNCHANGED <<post, pending, worker, accepted, started>>
  BY DEF MO!SendWork, MO!Enqueued
<1>2. manager = <<x>> /\ x \in Posts
  BY <1>1, HeadFirst DEF PipeInv, TaskTypes, Hands, Tasks
<1> HIDE DEF x
<1>3. queue' \in Tasks /\ manager' \in Tasks
  BY <1>1, <1>2, AppendProperties, EmptySeq DEF PipeInv, TaskTypes, Tasks
<1>4. TaskTypes' /\ Hands'
  BY <1>1, <1>3 DEF PipeInv, TaskTypes, Hands
<1>5. started \o worker.p \in Tasks
  BY ConcatProperties DEF PipeInv, TaskTypes, Tasks
<1>6. (started \o worker.p \o queue \o manager \o pending)' =
        started \o worker.p \o queue \o manager \o pending
  <2>1. PICK l \in Tasks : l = started \o worker.p
    BY <1>5
  <2>2. (l \o queue) \o <<x>> = (l \o Append(queue, x)) \o <<>>
    <3>1. l \in Seq(Posts) /\ queue \in Seq(Posts) /\ x \in Posts
      BY <1>2, <2>1 DEF PipeInv, TaskTypes, Tasks
    <3> QED BY <3>1, Hand, Zenon
  <2> QED BY <1>1, <1>2, <2>1, <2>2, Zenon
<1> QED BY <1>1, <1>4, <1>6, MovesKeep

LEMMA TakeKeeps == PipeInv /\ MO!Take => PipeInv'
<1> SUFFICES ASSUME PipeInv, MO!Take PROVE PipeInv'
  OBVIOUS
<1>1. /\ worker.step = "take" /\ queue # <<>> /\ queue' = Tail(queue)
      /\ worker' = [p |-> <<Head(queue)>>, step |-> "record"]
      /\ UNCHANGED <<post, pending, manager, accepted, started>>
  BY DEF MO!Take
<1>2. worker.p = <<>> /\ worker'.p = <<Head(queue)>> /\ worker'.step = "record"
  BY <1>1 DEF PipeInv, Hands
<1>3. worker'.p \in Tasks /\ queue' \in Tasks
  BY <1>1, <1>2, HeadFirst DEF PipeInv, TaskTypes, Tasks
<1>4. TaskTypes' /\ Hands'
  BY <1>1, <1>2, <1>3 DEF PipeInv, TaskTypes, Hands
<1>5. (started \o worker.p \o queue)' = started \o worker.p \o queue
  BY <1>1, <1>2, Pass DEF PipeInv, TaskTypes, Tasks
<1> QED BY <1>1, <1>4, <1>5, MovesKeep

LEMMA RunTaskKeeps == PipeInv /\ MO!RunTask => PipeInv'
<1> SUFFICES ASSUME PipeInv, MO!RunTask PROVE PipeInv'
  OBVIOUS
<1> DEFINE x == Head(worker.p)
<1>1. /\ worker.step = "record" /\ started' = Append(started, x) /\ worker' = MO!Idle
      /\ UNCHANGED <<post, pending, manager, queue, accepted>>
  BY DEF MO!RunTask
<1>2. worker.p = <<x>> /\ x \in Posts
  BY <1>1, HeadFirst DEF PipeInv, TaskTypes, Hands, Tasks
<1>3. worker'.p = <<>> /\ worker'.step = "take"
  BY <1>1 DEF MO!Idle
<1> HIDE DEF x
<1>4. started' \in Tasks /\ worker'.p \in Tasks
  BY <1>1, <1>2, <1>3, AppendProperties, EmptySeq DEF PipeInv, TaskTypes, Tasks
<1>5. TaskTypes' /\ Hands'
  BY <1>1, <1>3, <1>4 DEF PipeInv, TaskTypes, Hands
<1>6. (started \o worker.p)' = started \o worker.p
  BY <1>1, <1>2, <1>3, Runs DEF PipeInv, TaskTypes, Tasks
<1> QED BY <1>1, <1>5, <1>6, MovesKeep

LEMMA PipeInvStep == PipeInv /\ [MO!Next]_MO!vars => PipeInv'
<1> SUFFICES ASSUME PipeInv, [MO!Next]_MO!vars PROVE PipeInv'
  OBVIOUS
<1>1. CASE \E p \in Posts : MO!Submit(p)
  BY <1>1, SubmitKeeps
<1>2. CASE MO!Schedule \/ MO!SendWork \/ MO!Take \/ MO!RunTask
  BY <1>2, ScheduleKeeps, SendWorkKeeps, TakeKeeps, RunTaskKeeps
<1>3. CASE \E p \in Posts : MO!Decode(p) \/ MO!Record(p)
  <2>1. PICK p \in Posts : MO!Decode(p) \/ MO!Record(p)
    BY <1>3
  <2>2. /\ post[p] \in {"new", "writing"}
        /\ \E v \in {"refused", "writing", "sending"} : post' = [post EXCEPT ![p] = v]
        /\ UNCHANGED <<pending, manager, queue, worker, accepted, started>>
    BY <2>1 DEF MO!Decode, MO!Record
  <2> QED BY <2>2 DEF PipeInv, TaskTypes, Hands, MO!TasksInOrder
<1>4. CASE UNCHANGED <<post, pending, manager, queue, worker, accepted, started>>
  BY <1>4 DEF PipeInv, TaskTypes, Hands, MO!TasksInOrder
<1>5. CASE \E p \in Posts : MO!Ends(p) \/ MO!Waited(p)
  BY <1>4, <1>5 DEF MO!Ends, MO!Waited
<1> QED BY <1>1, <1>2, <1>3, <1>4, <1>5 DEF MO!Next, MO!vars

----------------------------------------------------------------------------
(* Tasks are started once and in the order they were accepted               *)
(* (SubmitTaskHandler, Manager.Start, SendWork, Worker.Start), for any      *)
(* capacities of the channels and any number of requests.                   *)
THEOREM TasksStartInOrder == MO!Spec => []MO!TasksInOrder
<1>1. MO!Init => PipeInv
  BY PipeInvInit
<1>2. PipeInv /\ [MO!Next]_MO!vars => PipeInv'
  BY PipeInvStep
<1>3. PipeInv => MO!TasksInOrder
  BY DEF PipeInv
<1> QED BY <1>1, <1>2, <1>3, PTL DEF MO!Spec

----------------------------------------------------------------------------
(* The worker's map.                                                        *)

TaskOver == {"completed", "failed", "not started"}

\* No other task with the id of p was started.
SoleUser(p) == \A q \in Posts \ {p} : IdOf[q] # IdOf[p] \/ proc[q] = "none"

\* What the map holds of a task that was started.
TaskTold(p) == <<p, IF proc[p] \in {"running", "ended ok", "ended failed"} THEN "running"
                ELSE IF proc[p] = "completed" THEN "completed" ELSE "failed">>

KnowInv ==
  /\ PipeInv
  /\ proc \in [Posts -> {"none", "running", "ended ok", "ended failed"} \cup TaskOver]
  /\ \A p \in Posts : proc[p] # "none" => IdOf[p] \in DOMAIN workerDb
  /\ \A p \in Posts : proc[p] # "none" /\ SoleUser(p) => workerDb[IdOf[p]] = TaskTold(p)

LEMMA KnowInvInit == MO!Init => KnowInv
  BY PipeInvInit DEF MO!Init, KnowInv

\* A step that changes the state of a process and writes what it is now.
LEMMA WritesKeep ==
  ASSUME KnowInv, PipeInv', NEW p \in Posts, NEW st \in {"running"} \cup TaskOver,
         proc' = [proc EXCEPT ![p] = st], workerDb' = MO!Put(workerDb, IdOf[p], TaskTold(p)')
  PROVE  KnowInv'
<1>1. /\ \A q \in Posts : proc'[q] = IF q = p THEN st ELSE proc[q]
      /\ proc' \in [Posts -> {"none", "running", "ended ok", "ended failed"} \cup TaskOver]
  BY DEF KnowInv
<1>2. st # "none"
  BY DEF TaskOver
<1>3. /\ workerDb'[IdOf[p]] = TaskTold(p)'
      /\ \A x \in DOMAIN workerDb : x # IdOf[p] => workerDb'[x] = workerDb[x]
      /\ DOMAIN workerDb' = DOMAIN workerDb \cup {IdOf[p]}
  <2>1. PICK k : k = IdOf[p]
    OBVIOUS
  <2>2. PICK v : v = TaskTold(p)'
    OBVIOUS
  <2>3. PICK f : f = workerDb
    OBVIOUS
  <2>4. PICK g : g = workerDb'
    OBVIOUS
  <2>5. g = MO!Put(f, k, v)
    BY <2>1, <2>2, <2>3, <2>4
  <2>6. g[k] = v /\ (\A x \in DOMAIN f : x # k => g[x] = f[x]) /\ DOMAIN g = DOMAIN f \cup {k}
    BY <2>5 DEF MO!Put
  <2> QED BY <2>1, <2>2, <2>3, <2>4, <2>6
<1>4. \A q \in Posts : proc'[q] # "none" => IdOf[q] \in DOMAIN workerDb'
  BY <1>1, <1>3 DEF KnowInv
<1>5. ASSUME NEW q \in Posts, proc'[q] # "none", SoleUser(q)'
      PROVE  workerDb'[IdOf[q]] = TaskTold(q)'
  <2>1. CASE q = p
    BY <1>3, <2>1
  <2>2. CASE q # p
    <3>1. IdOf[p] # IdOf[q] /\ proc[q] # "none" /\ proc'[q] = proc[q]
      BY <1>1, <1>2, <1>5, <2>2 DEF SoleUser
    <3>2. SoleUser(q)
      BY <1>1, <1>5, <3>1 DEF SoleUser
    <3>3. workerDb[IdOf[q]] = TaskTold(q) /\ IdOf[q] \in DOMAIN workerDb
      BY <3>1, <3>2 DEF KnowInv
    <3>4. TaskTold(q)' = TaskTold(q)
      BY <3>1 DEF TaskTold
    <3> QED BY <1>3, <3>1, <3>3, <3>4
  <2> QED BY <2>1, <2>2
<1> QED BY <1>1, <1>4, <1>5 DEF KnowInv

LEMMA KnowInvStep == KnowInv /\ [MO!Next]_MO!vars => KnowInv'
<1> SUFFICES ASSUME KnowInv, [MO!Next]_MO!vars PROVE KnowInv'
  OBVIOUS
<1>0. PipeInv /\ PipeInv'
  BY PipeInvStep DEF KnowInv
<1>1. CASE MO!RunTask
  <2> PICK p : p = Head(worker.p)
    OBVIOUS
  <2>1. p \in Posts
    BY <1>0, <1>1, HeadFirst DEF MO!RunTask, PipeInv, TaskTypes, Hands, Tasks
  <2>2. PICK st \in {"running", "not started"} :
          /\ proc' = [proc EXCEPT ![p] = st]
          /\ workerDb' = MO!Put(workerDb, IdOf[p], <<p, IF st = "running" THEN "running" ELSE "failed">>)
    BY <1>1 DEF MO!RunTask
  <2>3. proc'[p] = st
    BY <2>1, <2>2 DEF KnowInv
  <2>4. TaskTold(p)' = <<p, IF st = "running" THEN "running" ELSE "failed">>
    BY <2>2, <2>3 DEF TaskTold
  <2>5. st \in {"running"} \cup TaskOver
    BY <2>2 DEF TaskOver
  <2> QED BY <1>0, <2>1, <2>2, <2>4, <2>5, WritesKeep
<1>2. ASSUME NEW p \in Posts, MO!Waited(p) PROVE KnowInv'
  <2> PICK st : st = MO!Outcome(p)
    OBVIOUS
  <2>1. /\ proc' = [proc EXCEPT ![p] = st] /\ st \in {"completed", "failed"}
        /\ workerDb' = MO!Put(workerDb, IdOf[p], <<p, st>>)
    BY <1>2 DEF MO!Waited, MO!Outcome
  <2>2. proc'[p] = st
    BY <2>1 DEF KnowInv
  <2>3. TaskTold(p)' = <<p, st>>
    BY <2>1, <2>2 DEF TaskTold
  <2> QED BY <1>0, <2>1, <2>3, WritesKeep DEF TaskOver
<1>3. ASSUME NEW p \in Posts, MO!Ends(p) PROVE KnowInv'
  <2>1. /\ proc[p] = "running" /\ workerDb' = workerDb
        /\ \E st \in {"ended ok", "ended failed"} : proc' = [proc EXCEPT ![p] = st]
    BY <1>3 DEF MO!Ends
  <2>2. \A q \in Posts : (proc'[q] = "none" <=> proc[q] = "none") /\ TaskTold(q)' = TaskTold(q)
    BY <2>1 DEF KnowInv, TaskTold
  <2>3. \A q \in Posts : SoleUser(q)' <=> SoleUser(q)
    BY <2>2 DEF SoleUser
  <2> QED BY <1>0, <2>1, <2>2, <2>3 DEF KnowInv
<1>4. CASE UNCHANGED <<proc, workerDb>>
  BY <1>0, <1>4 DEF KnowInv, SoleUser, TaskTold
<1> QED BY <1>1, <1>2, <1>3, <1>4 DEF MO!Next, MO!vars, MO!Schedule, MO!SendWork, MO!Take, MO!Decode, MO!Record, MO!Submit

\* Once a process is over the worker's map tells how it ended, as long as its
\* task id was used once (RunTask and the goroutine that waits for the process).
THEOREM WorkerKnowsOutcome == MO!Spec => []MO!WorkerKnows
<1>1. MO!Init => KnowInv
  BY KnowInvInit
<1>2. KnowInv /\ [MO!Next]_MO!vars => KnowInv'
  BY KnowInvStep
<1>3. KnowInv => MO!WorkerKnows
  BY DEF KnowInv, TaskOver, SoleUser, TaskTold, MO!WorkerKnows
<1> QED BY <1>1, <1>2, <1>3, PTL DEF MO!Spec

----------------------------------------------------------------------------
(* The proxy of the movie finder.                                           *)

Ways == {"up", "down"}
Direction == [sent : Seq(Nat), way : Seq(Nat), got : Seq(Nat), ended : BOOLEAN, done : BOOLEAN]
Wires == [up : Direction, down : Direction, reset : BOOLEAN]
Ips == {Ip[r] : r \in ProxyRequests}

\* What the client of a tunnel may have sent early.
Early == {<<>>, <<1>>}

ProxyTypes ==
  /\ server \in {"running", "draining", "exited", "refused"}
  /\ now \in Nat
  /\ req \in [ProxyRequests -> {"new", "answered", "limited", "denied", "dialing", "forwarding", "failed",
                                "tunnel", "closed", "cut"}]
  /\ DOMAIN wire \subseteq ProxyRequests /\ \A r \in DOMAIN wire : wire[r] \in Wires
  /\ passed \in Seq([ip : Ips, at : Nat])
  /\ \A i \in DOMAIN buckets : buckets[i] \in [tokens : Nat, last : Nat] /\ buckets[i].last <= now
  /\ DOMAIN upstream = ProxyRequests

\* A direction whose goroutine has returned was read to its end, and both have
\* when the tunnel is closed.
Sound(w, broken, closed) ==
  /\ w.got \o w.way = w.sent
  /\ w.done => broken \/ (w.ended /\ w.way = <<>>)
  /\ closed => w.done
TunnelInv ==
  /\ \A r \in ProxyRequests : req[r] = "tunnel" => r \in DOMAIN wire
  /\ \A r \in DOMAIN wire : \A d \in Ways : Sound(wire[r][d], wire[r].reset, req[r] = "closed")

\* One direction of one tunnel has another state.
Turned(r, d, v) ==
  /\ DOMAIN wire' = DOMAIN wire /\ \A q \in DOMAIN wire \ {r} : wire'[q] = wire[q]
  /\ wire'[r] \in Wires /\ wire'[r][d] = v /\ wire'[r].reset = wire[r].reset
  /\ \A e \in Ways \ {d} : wire'[r][e] = wire[r][e]

LEMMA TurnedTypes ==
  ASSUME ProxyTypes, NEW r \in DOMAIN wire, NEW d \in Ways, NEW v \in Direction,
         wire' = [wire EXCEPT ![r] = [@ EXCEPT ![d] = v]]
  PROVE  Turned(r, d, v)
<1>1. wire[r] \in Wires
  BY DEF ProxyTypes
<1>2. wire'[r] = [wire[r] EXCEPT ![d] = v]
  OBVIOUS
<1>3. CASE d = "up"
  BY <1>1, <1>2, <1>3 DEF Turned, Wires, Ways
<1>4. CASE d = "down"
  BY <1>1, <1>2, <1>4 DEF Turned, Wires, Ways
<1> QED BY <1>3, <1>4 DEF Ways

LEMMA PeerSendsTurns ==
  ASSUME ProxyTypes, NEW r \in DOMAIN wire, NEW d \in Ways, MP!PeerSends(r, d)
  PROVE  \E c \in Nat : Turned(r, d, [wire[r][d] EXCEPT !.sent = Append(@, c), !.way = Append(@, c)])
<1> DEFINE w == wire[r][d]
           c == Len(w.sent) + 1
           v == [w EXCEPT !.sent = Append(@, c), !.way = Append(@, c)]
<1>1. w \in Direction
  BY DEF ProxyTypes, Wires, Ways
<1>2. c \in Nat
  BY <1>1 DEF Direction
<1>3. v \in Direction
  BY <1>1, <1>2, AppendProperties DEF Direction
<1>4. wire' = [wire EXCEPT ![r] = [@ EXCEPT ![d] = v]]
  BY DEF MP!PeerSends
<1> QED BY <1>2, <1>3, <1>4, TurnedTypes

LEMMA CopyTurns ==
  ASSUME ProxyTypes, NEW r \in DOMAIN wire, NEW d \in Ways, MP!Copy(r, d)
  PROVE  Turned(r, d, [wire[r][d] EXCEPT !.got = Append(@, Head(wire[r][d].way)), !.way = Tail(@)])
<1> DEFINE w == wire[r][d]
           v == [w EXCEPT !.got = Append(@, Head(w.way)), !.way = Tail(@)]
<1>1. w \in Direction
  BY DEF ProxyTypes, Wires, Ways
<1>2. w.way # <<>>
  BY DEF MP!Copy
<1>3. v \in Direction
  BY <1>1, <1>2, HeadTailProperties, AppendProperties DEF Direction
<1>4. wire' = [wire EXCEPT ![r] = [@ EXCEPT ![d] = v]]
  BY DEF MP!Copy
<1> QED BY <1>3, <1>4, TurnedTypes

LEMMA EndTurns ==
  ASSUME ProxyTypes, NEW r \in DOMAIN wire, NEW d \in Ways
  PROVE  /\ MP!PeerEnds(r, d) => Turned(r, d, [wire[r][d] EXCEPT !.ended = TRUE])
         /\ MP!CopyEnds(r, d) => Turned(r, d, [wire[r][d] EXCEPT !.done = TRUE])
<1> DEFINE w == wire[r][d]
<1>1. w \in Direction
  BY DEF ProxyTypes, Wires, Ways
<1>2. [w EXCEPT !.ended = TRUE] \in Direction /\ [w EXCEPT !.done = TRUE] \in Direction
  BY <1>1 DEF Direction
<1>3. MP!PeerEnds(r, d) => wire' = [wire EXCEPT ![r] = [@ EXCEPT ![d] = [w EXCEPT !.ended = TRUE]]]
  BY DEF MP!PeerEnds
<1>4. MP!CopyEnds(r, d) => wire' = [wire EXCEPT ![r] = [@ EXCEPT ![d] = [w EXCEPT !.done = TRUE]]]
  BY DEF MP!CopyEnds
<1> QED BY <1>2, <1>3, <1>4, TurnedTypes

LEMMA TurnKeeps ==
  ASSUME TunnelInv, NEW r \in DOMAIN wire, NEW d \in Ways, NEW v, Turned(r, d, v), req' = req,
         Sound(v, wire[r].reset, req[r] = "closed")
  PROVE  TunnelInv'
<1>1. DOMAIN wire' = DOMAIN wire
  BY DEF Turned
<1>2. ASSUME NEW q \in DOMAIN wire, NEW e \in Ways
      PROVE  Sound(wire'[q][e], wire'[q].reset, req[q] = "closed")
  <2>1. wire'[q].reset = wire[q].reset
    BY DEF Turned
  <2>2. CASE q = r /\ e = d
    <3>1. wire'[q][e] = v
      BY <2>2 DEF Turned
    <3> QED BY <2>1, <2>2, <3>1
  <2>3. CASE ~(q = r /\ e = d)
    <3>1. wire'[q][e] = wire[q][e]
      BY <2>3 DEF Turned
    <3> QED BY <2>1, <3>1 DEF TunnelInv
  <2> QED BY <2>2, <2>3
<1> QED BY <1>1, <1>2 DEF TunnelInv

LEMMA WayKeeps ==
  ASSUME ProxyTypes, TunnelInv, NEW r \in DOMAIN wire, NEW d \in Ways,
         MP!PeerSends(r, d) \/ MP!PeerEnds(r, d) \/ MP!Copy(r, d) \/ MP!CopyEnds(r, d)
  PROVE  TunnelInv'
<1> DEFINE w == wire[r][d]
<1>1. w \in Direction /\ Sound(w, wire[r].reset, req[r] = "closed")
  <2>1. w \in Direction
    BY DEF ProxyTypes, Wires, Ways
  <2> QED BY <2>1 DEF TunnelInv
<1>2. CASE MP!PeerSends(r, d)
  <2>1. PICK c \in Nat : Turned(r, d, [w EXCEPT !.sent = Append(@, c), !.way = Append(@, c)])
    BY <1>2, PeerSendsTurns
  <2> DEFINE v == [w EXCEPT !.sent = Append(@, c), !.way = Append(@, c)]
  <2>2. /\ v.sent = Append(w.sent, c) /\ v.way = Append(w.way, c) /\ v.got = w.got
        /\ v.done = w.done /\ v.ended = w.ended
    BY <1>1 DEF Direction
  <2> HIDE DEF v, w
  <2>3. v.got \o v.way = v.sent
    <3>1. w.got \in Seq(Nat) /\ w.way \in Seq(Nat) /\ c \in Nat
      BY <1>1 DEF Direction
    <3>2. w.got \o Append(w.way, c) = Append(w.got \o w.way, c)
      <4>1. \A l, e \in Seq(Nat) : \A x \in Nat : l \o Append(e, x) = Append(l \o e, x)
        BY Enters
      <4> QED BY <3>1, <4>1, Zenon
    <3>3. w.got \o w.way = w.sent
      BY <1>1 DEF Sound
    <3> QED BY <2>2, <3>2, <3>3, Zenon
  <2>4. ~w.ended /\ ~wire[r].reset /\ req' = req
    BY <1>2 DEF w, MP!PeerSends
  <2>5. Sound(v, wire[r].reset, req[r] = "closed")
    BY <1>1, <2>2, <2>3, <2>4 DEF Sound
  <2> QED BY <2>1, <2>4, <2>5, TurnKeeps DEF v
<1>3. CASE MP!PeerEnds(r, d)
  <2> DEFINE v == [w EXCEPT !.ended = TRUE]
  <2>1. Turned(r, d, v) /\ req' = req
    BY <1>3, EndTurns DEF MP!PeerEnds
  <2>2. v.sent = w.sent /\ v.way = w.way /\ v.got = w.got /\ v.done = w.done /\ v.ended
    BY <1>1 DEF Direction
  <2> HIDE DEF v, w
  <2>3. Sound(v, wire[r].reset, req[r] = "closed")
    BY <1>1, <2>1, <2>2 DEF Sound
  <2> QED BY <2>1, <2>3, TurnKeeps
<1>4. CASE MP!Copy(r, d)
  <2> DEFINE v == [w EXCEPT !.got = Append(@, Head(w.way)), !.way = Tail(@)]
  <2>1. Turned(r, d, v) /\ req' = req /\ ~w.done /\ w.way # <<>>
    BY <1>4, CopyTurns DEF MP!Copy
  <2>2. v.sent = w.sent /\ v.way = Tail(w.way) /\ v.got = Append(w.got, Head(w.way)) /\ v.done = w.done
    BY <1>1 DEF Direction
  <2> HIDE DEF v, w
  <2>3. v.got \o v.way = v.sent
    <3>1. w.got \in Seq(Nat) /\ w.way \in Seq(Nat)
      BY <1>1 DEF Direction
    <3>2. Append(w.got, Head(w.way)) \o Tail(w.way) = w.got \o w.way
      BY <2>1, <3>1, CopiesInOrder
    <3>3. w.got \o w.way = w.sent
      BY <1>1 DEF Sound
    <3> QED BY <2>2, <3>2, <3>3, Zenon
  <2>4. Sound(v, wire[r].reset, req[r] = "closed")
    BY <1>1, <2>1, <2>2, <2>3 DEF Sound
  <2> QED BY <2>1, <2>4, TurnKeeps
<1>5. CASE MP!CopyEnds(r, d)
  <2> DEFINE v == [w EXCEPT !.done = TRUE]
  <2>1. Turned(r, d, v) /\ req' = req /\ (wire[r].reset \/ (w.ended /\ w.way = <<>>))
    BY <1>5, EndTurns DEF MP!CopyEnds
  <2>2. v.sent = w.sent /\ v.way = w.way /\ v.got = w.got /\ v.done /\ v.ended = w.ended
    BY <1>1 DEF Direction
  <2> HIDE DEF v, w
  <2>3. Sound(v, wire[r].reset, req[r] = "closed")
    BY <1>1, <2>1, <2>2 DEF Sound
  <2> QED BY <2>1, <2>3, TurnKeeps
<1> QED BY <1>2, <1>3, <1>4, <1>5

LEMMA OthersKeepTunnels ==
  ASSUME ProxyTypes, TunnelInv, NEW r \in ProxyRequests,
         MP!Health(r) \/ MP!Dispatch(r) \/ MP!Dial(r) \/ MP!Send(r) \/ MP!Reply(r) \/ MP!Reset(r) \/ MP!CloseTunnel(r)
  PROVE  TunnelInv'
<1>1. CASE UNCHANGED <<req, wire>>
  BY <1>1 DEF TunnelInv
<1>2. ASSUME NEW s \in {"answered", "limited", "denied", "dialing", "forwarding", "failed"},
             req' = [req EXCEPT ![r] = s], UNCHANGED wire
      PROVE  TunnelInv'
  <2>1. \A q \in ProxyRequests : (req'[q] = "closed" => req[q] = "closed") /\ (req'[q] = "tunnel" => req[q] = "tunnel")
    BY <1>2 DEF ProxyTypes
  <2>2. ASSUME NEW q \in DOMAIN wire, NEW d \in Ways PROVE Sound(wire[q][d], wire[q].reset, req'[q] = "closed")
    BY <2>1 DEF TunnelInv, ProxyTypes, Sound
  <2> QED BY <1>2, <2>1, <2>2 DEF TunnelInv
<1>3. CASE MP!Health(r) \/ MP!Send(r) \/ MP!Reply(r)
  BY <1>1, <1>2, <1>3 DEF MP!Health, MP!Send, MP!Reply, MP!Quietly
<1>4. CASE MP!Dispatch(r)
  BY <1>2, <1>4 DEF MP!Dispatch
<1>5. CASE MP!Dial(r)
  <2>1. CASE req' = [req EXCEPT ![r] = "failed"] /\ UNCHANGED wire
    BY <1>2, <2>1
  <2>2. ASSUME NEW early \in Early, req' = [req EXCEPT ![r] = "tunnel"],
               wire' = [q \in DOMAIN wire \cup {r} |-> IF q = r THEN MP!Tunnel(early) ELSE wire[q]]
        PROVE  TunnelInv'
    <3> DEFINE t == MP!Tunnel(early)
    <3>1. /\ t.up.got = <<>> /\ t.up.way = early /\ t.up.sent = early /\ ~t.up.done
          /\ t.down.got = <<>> /\ t.down.way = <<>> /\ t.down.sent = <<>> /\ ~t.down.done
      BY DEF MP!Tunnel, MP!Quiet
    <3>2. early \in Seq(Nat) /\ <<>> \in Seq(Nat)
      <4>1. <<>> \in Seq(Nat) /\ <<1>> \in Seq(Nat)
        OBVIOUS
      <4> QED BY <4>1 DEF Early
    <3> HIDE DEF t
    <3>6. <<>> \o early = early /\ <<>> \o <<>> = <<>>
      BY <3>2, ConcatEmptySeq
    <3>7. \A d \in Ways : t[d].got \o t[d].way = t[d].sent /\ ~t[d].done
      BY <3>1, <3>6 DEF Ways
    <3>3. \A q \in DOMAIN wire : q # r => wire'[q] = wire[q] /\ req'[q] = req[q]
      BY <2>2 DEF ProxyTypes
    <3>4. wire'[r] = t /\ req'[r] = "tunnel" /\ DOMAIN wire' = DOMAIN wire \cup {r}
      BY <2>2 DEF ProxyTypes, t
    <3>5. \A q \in ProxyRequests : req'[q] = "tunnel" => q \in DOMAIN wire'
      BY <2>2, <3>4 DEF TunnelInv, ProxyTypes
    <3>8. ASSUME NEW q \in DOMAIN wire', NEW d \in Ways
          PROVE  Sound(wire'[q][d], wire'[q].reset, req'[q] = "closed")
      <4>1. CASE q = r
        BY <3>4, <3>7, <4>1 DEF Sound
      <4>2. CASE q # r
        BY <3>3, <3>4, <4>2 DEF TunnelInv
      <4> QED BY <4>1, <4>2
    <3> QED BY <3>5, <3>8 DEF TunnelInv
  <2> QED BY <1>5, <2>1, <2>2 DEF MP!Dial, Early
<1>6. CASE MP!Reset(r)
  <2>1. r \in DOMAIN wire /\ req' = req /\ wire' = [wire EXCEPT ![r].reset = TRUE]
    BY <1>6 DEF MP!Reset, MP!Alive, TunnelInv
  <2>2. /\ wire'[r].reset /\ \A d \in Ways : wire'[r][d] = wire[r][d]
        /\ DOMAIN wire' = DOMAIN wire /\ \A q \in DOMAIN wire \ {r} : wire'[q] = wire[q]
    BY <2>1 DEF ProxyTypes, Wires, Ways
  <2>3. ASSUME NEW q \in DOMAIN wire, NEW d \in Ways
        PROVE  Sound(wire'[q][d], wire'[q].reset, req[q] = "closed")
    <3>1. wire'[q][d] = wire[q][d] /\ (wire'[q].reset \/ wire'[q].reset = wire[q].reset)
      BY <2>2
    <3>2. Sound(wire[q][d], wire[q].reset, req[q] = "closed")
      BY DEF TunnelInv
    <3> QED BY <3>1, <3>2 DEF Sound
  <2> QED BY <2>1, <2>2, <2>3 DEF TunnelInv
<1>7. CASE MP!CloseTunnel(r)
  <2>1. /\ req' = [req EXCEPT ![r] = "closed"] /\ UNCHANGED wire
        /\ \A d \in Ways : wire[r][d].done
    BY <1>7 DEF MP!CloseTunnel, MP!BothDone, Ways
  <2>2. ASSUME NEW q \in DOMAIN wire, NEW d \in Ways PROVE Sound(wire[q][d], wire[q].reset, req'[q] = "closed")
    <3>1. q = r \/ req'[q] = req[q]
      BY <2>1 DEF ProxyTypes
    <3>2. Sound(wire[q][d], wire[q].reset, req[q] = "closed")
      BY DEF TunnelInv
    <3> QED BY <2>1, <3>1, <3>2 DEF Sound
  <2>3. \A q \in ProxyRequests : req'[q] = "tunnel" => req[q] = "tunnel"
    BY <2>1 DEF ProxyTypes
  <2> QED BY <2>1, <2>2, <2>3 DEF TunnelInv
<1> QED BY <1>3, <1>4, <1>5, <1>6, <1>7

----------------------------------------------------------------------------

----------------------------------------------------------------------------
(* The limiter.                                                             *)

Grant == [ip : Ips, at : Nat]
Count(s, i, n, q) == Cardinality({k \in i..n : s[k].ip = q})

\* What an address got through since a time, and what is left in its bucket, are
\* at most the burst and the refill since that time.
RateInv ==
  /\ \A i \in DOMAIN passed :
       LET p == passed[i].ip IN
       /\ p \in DOMAIN buckets
       /\ Count(passed, i, Len(passed), p) * Cost + buckets[p].tokens
            <= Burst * Cost + Rate * (buckets[p].last - passed[i].at)
  /\ MP!RateBound

LEMMA SameCardinality == \A S : MP!Cardinality(S) = Cardinality(S)
BY DEF MP!Cardinality, Cardinality

LEMMA CountAppend ==
  ASSUME NEW s \in Seq(Grant), NEW x \in Grant, NEW i \in 1..(Len(s) + 1), NEW q
  PROVE  /\ Count(s, i, Len(s), q) \in Nat
         /\ Count(Append(s, x), i, Len(s) + 1, q) = Count(s, i, Len(s), q) + (IF x.ip = q THEN 1 ELSE 0)
         /\ \A j \in 1..Len(s) : Count(Append(s, x), i, j, q) = Count(s, i, j, q)
         /\ i = Len(s) + 1 => Count(s, i, Len(s), q) = 0
<1> DEFINE n == Len(s)
           t == Append(s, x)
           S == {k \in i..n : s[k].ip = q}
<1>1. n \in Nat /\ \A k \in 1..n : t[k] = s[k]
  OBVIOUS
<1>2. t[n + 1] = x
  OBVIOUS
<1> HIDE DEF n, t
<1>3. IsFiniteSet(S) /\ Cardinality(S) \in Nat
  <2>1. IsFiniteSet(i..n)
    BY <1>1, FS_Interval
  <2>2. S \subseteq i..n
    OBVIOUS
  <2> QED BY <2>1, <2>2, FS_Subset, FS_CardinalityType
<1>4. {k \in i..(n + 1) : t[k].ip = q} = IF x.ip = q THEN S \cup {n + 1} ELSE S
  BY <1>1, <1>2 DEF n
<1>5. n + 1 \notin S
  BY <1>1
<1>6. Cardinality(S \cup {n + 1}) = Cardinality(S) + 1
  BY <1>3, <1>5, FS_AddElement
<1>7. Count(t, i, n + 1, q) = Count(s, i, n, q) + (IF x.ip = q THEN 1 ELSE 0)
  <2>1. CASE x.ip = q
    BY <1>4, <1>6, <2>1 DEF Count
  <2>2. CASE x.ip # q
    <3>1. Count(t, i, n + 1, q) = Cardinality(S) /\ Count(s, i, n, q) = Cardinality(S)
      BY <1>4, <2>2 DEF Count
    <3> QED BY <1>3, <2>2, <3>1
  <2> QED BY <2>1, <2>2
<1>8. ASSUME NEW j \in 1..n PROVE Count(t, i, j, q) = Count(s, i, j, q)
  <2>1. {k \in i..j : t[k].ip = q} = {k \in i..j : s[k].ip = q}
    BY <1>1
  <2> QED BY <2>1 DEF Count
<1>9. i = n + 1 => Count(s, i, n, q) = 0
  <2>1. i = n + 1 => S = {}
    BY <1>1
  <2> QED BY <2>1, FS_EmptySet DEF Count
<1> QED BY <1>3, <1>7, <1>8, <1>9 DEF Count, n, t

LEMMA FilledIs ==
  ASSUME ProxyTypes, NEW p
  PROVE  /\ MP!Filled(p) \in Nat /\ MP!Filled(p) <= Burst * Cost
         /\ p \in DOMAIN buckets => MP!Filled(p) <= buckets[p].tokens + (now - buckets[p].last) * Rate
<1>1. Burst * Cost \in Nat /\ Rate \in Nat
  BY ProxyAssumption
<1>2. CASE p \notin DOMAIN buckets
  BY <1>1, <1>2 DEF MP!Filled
<1>3. CASE p \in DOMAIN buckets
  <2>1. buckets[p].tokens \in Nat /\ buckets[p].last \in Nat /\ buckets[p].last <= now /\ now \in Nat
    BY <1>3 DEF ProxyTypes
  <2>2. (now - buckets[p].last) * Rate \in Nat
    BY <1>1, <2>1
  <2> QED BY <1>1, <1>3, <2>1, <2>2 DEF MP!Filled
<1> QED BY <1>2, <1>3

LEMMA AllowIs ==
  ASSUME ProxyTypes, NEW p, MP!Allow(p)
  PROVE  /\ DOMAIN buckets' = DOMAIN buckets \cup {p}
         /\ \A i \in DOMAIN buckets \ {p} : buckets'[i] = buckets[i]
         /\ buckets'[p].last = now
         /\ buckets'[p].tokens = MP!Filled(p) - (IF MP!Allowed(p) THEN Cost ELSE 0)
         /\ buckets'[p] \in [tokens : Nat, last : Nat]
<1>1. buckets'[p] = [tokens |-> MP!Filled(p) - (IF MP!Allowed(p) THEN Cost ELSE 0), last |-> now]
  BY DEF MP!Allow
<1>2. MP!Filled(p) - (IF MP!Allowed(p) THEN Cost ELSE 0) \in Nat
  BY FilledIs, ProxyAssumption DEF MP!Allowed
<1> QED BY <1>1, <1>2 DEF MP!Allow, ProxyTypes

LEMMA Spend ==
  ASSUME NEW m \in Nat, NEW t \in Nat, NEW f \in Nat, NEW B \in Nat, NEW R \in Nat, NEW C \in Nat,
         NEW x \in Nat, NEW y \in Nat, NEW z \in Nat,
         m * C + t <= B + R * (y - x), f <= t + (z - y) * R
  PROVE  m * C + f <= B + R * (z - x) /\ (m + 1) * C + (f - C) <= B + R * (z - x)
<1>1. R * (z - x) = R * (y - x) + (z - y) * R
  OBVIOUS
<1>2. (m + 1) * C = m * C + C
  OBVIOUS
<1>3. m * C \in Nat /\ R * (y - x) \in Int /\ (z - y) * R \in Int /\ R * (z - x) \in Int
  OBVIOUS
<1> QED BY <1>1, <1>2, <1>3

LEMMA DispatchKeepsRate ==
  ASSUME ProxyTypes, RateInv, NEW r \in ProxyRequests, MP!Dispatch(r)
  PROVE  RateInv'
<1> DEFINE p == Ip[r]
           n == Len(passed)
           x == [ip |-> p, at |-> now]
           f == MP!Filled(p)
<1>1. MP!Allow(p) /\ passed' = IF MP!Allowed(p) THEN Append(passed, x) ELSE passed
  BY DEF MP!Dispatch
<1>2. /\ f \in Nat /\ f <= Burst * Cost
      /\ p \in DOMAIN buckets => f <= buckets[p].tokens + (now - buckets[p].last) * Rate
      /\ MP!Allowed(p) => f >= Cost
  BY FilledIs DEF MP!Allowed
<1>3. /\ DOMAIN buckets' = DOMAIN buckets \cup {p} /\ \A i \in DOMAIN buckets \ {p} : buckets'[i] = buckets[i]
      /\ buckets'[p].last = now /\ buckets'[p].tokens = f - (IF MP!Allowed(p) THEN Cost ELSE 0)
  BY <1>1, AllowIs
<1>4. passed \in Seq(Grant) /\ x \in Grant /\ n \in Nat /\ DOMAIN passed = 1..n /\ now \in Nat
  BY DEF ProxyTypes, Grant, Ips
<1>5. Rate \in Nat /\ Cost \in Nat /\ Burst * Cost \in Nat
  BY ProxyAssumption
<1> HIDE DEF p, f
<1>6. ASSUME NEW i \in 1..n
      PROVE  LET q == passed[i].ip IN
             /\ q \in DOMAIN buckets /\ Count(passed, i, n, q) \in Nat /\ passed[i].at \in Nat
             /\ buckets[q].tokens \in Nat /\ buckets[q].last \in Nat
             /\ Count(passed, i, n, q) * Cost + buckets[q].tokens
                  <= Burst * Cost + Rate * (buckets[q].last - passed[i].at)
  <2>1. passed[i].ip \in DOMAIN buckets
    BY <1>4 DEF RateInv
  <2>2. Count(passed, i, n, passed[i].ip) \in Nat
    BY <1>4, CountAppend
  <2>3. passed[i].at \in Nat
    <3>1. passed[i] \in Grant
      BY <1>4
    <3> QED BY <3>1 DEF Grant
  <2>4. buckets[passed[i].ip].tokens \in Nat /\ buckets[passed[i].ip].last \in Nat
    BY <2>1 DEF ProxyTypes
  <2>5. Count(passed, i, n, passed[i].ip) * Cost + buckets[passed[i].ip].tokens
          <= Burst * Cost + Rate * (buckets[passed[i].ip].last - passed[i].at)
    BY <1>4 DEF RateInv
  <2> QED BY <2>1, <2>2, <2>3, <2>4, <2>5
\* The old takes.
<1>7. ASSUME NEW i \in 1..n
      PROVE  LET q == passed[i].ip
                 m == Count(passed, i, n, q) + (IF MP!Allowed(p) /\ q = p THEN 1 ELSE 0) IN
             m * Cost + buckets'[q].tokens <= Burst * Cost + Rate * (buckets'[q].last - passed[i].at)
  <2> DEFINE q == passed[i].ip
             m == Count(passed, i, n, q)
  <2>1. CASE q # p
    <3>1. buckets'[q] = buckets[q]
      BY <1>3, <1>6, <2>1
    <3> QED BY <1>6, <2>1, <3>1
  <2>2. CASE q = p
    <3>1. f <= buckets[q].tokens + (now - buckets[q].last) * Rate
      BY <1>2, <1>6, <2>2
    <3>2. m * Cost + f <= Burst * Cost + Rate * (now - passed[i].at)
          /\ (m + 1) * Cost + (f - Cost) <= Burst * Cost + Rate * (now - passed[i].at)
      BY <1>2, <1>4, <1>5, <1>6, <3>1, Spend
    <3> QED BY <1>2, <1>3, <1>5, <1>6, <2>2, <3>2
  <2> QED BY <2>1, <2>2
<1>8. CASE ~MP!Allowed(p)
  <2>1. passed' = passed
    BY <1>1, <1>8
  <2>2. MP!RateBound'
    BY <2>1 DEF RateInv, MP!RateBound
  <2>3. ASSUME NEW i \in 1..n
        PROVE  /\ passed[i].ip \in DOMAIN buckets'
               /\ Count(passed, i, n, passed[i].ip) * Cost + buckets'[passed[i].ip].tokens
                    <= Burst * Cost + Rate * (buckets'[passed[i].ip].last - passed[i].at)
    <3>1. passed[i].ip \in DOMAIN buckets'
      BY <1>3, <1>6
    <3>2. Count(passed, i, n, passed[i].ip) \in Nat
      BY <1>6
    <3> QED BY <1>7, <1>8, <3>1, <3>2
  <2> QED BY <1>4, <2>1, <2>2, <2>3 DEF RateInv
<1>9. CASE MP!Allowed(p)
  <2>1. /\ passed' = Append(passed, x) /\ Len(passed') = n + 1 /\ DOMAIN passed' = 1..(n + 1)
        /\ passed'[n + 1] = x /\ \A i \in 1..n : passed'[i] = passed[i]
    BY <1>1, <1>4, <1>9
  <2>2. ASSUME NEW i \in 1..(n + 1)
        PROVE  LET q == passed'[i].ip IN
               /\ q \in DOMAIN buckets'
               /\ Count(passed', i, n + 1, q) \in Nat /\ buckets'[q].tokens \in Nat
               /\ Count(passed', i, n + 1, q) * Cost + buckets'[q].tokens
                    <= Burst * Cost + Rate * (buckets'[q].last - passed'[i].at)
    <3> DEFINE q == passed'[i].ip
    <3>1. Count(passed', i, n + 1, q) = Count(passed, i, n, q) + (IF p = q THEN 1 ELSE 0)
          /\ Count(passed, i, n, q) \in Nat
      BY <1>4, <2>1, CountAppend
    <3>2. CASE i \in 1..n
      <4>1. q = passed[i].ip /\ passed'[i] = passed[i]
        BY <2>1, <3>2
      <4>2. buckets'[q].tokens \in Nat
        <5>1. CASE q = p
          BY <1>2, <1>3, <1>5, <1>9, <5>1
        <5>2. CASE q # p
          BY <1>3, <1>6, <3>2, <4>1, <5>2
        <5> QED BY <5>1, <5>2
      <4>3. q \in DOMAIN buckets'
        BY <1>3, <1>6, <3>2, <4>1
      <4> QED BY <1>7, <1>9, <3>1, <3>2, <4>1, <4>2, <4>3
    <3>3. CASE i = n + 1
      <4>1. q = p /\ passed'[i].at = now
        BY <2>1, <3>3
      <4>2. Count(passed', i, n + 1, q) = 1
        BY <1>4, <3>1, <3>3, <4>1, CountAppend
      <4>3. Rate * (now - now) = 0
        BY <1>4, <1>5
      <4> QED BY <1>2, <1>3, <1>5, <1>9, <4>1, <4>2, <4>3
    <3> QED BY <3>2, <3>3
  <2>3. MP!RateBound'
    <3> SUFFICES ASSUME NEW i \in DOMAIN passed', NEW j \in DOMAIN passed', i < j, passed'[i].ip = passed'[j].ip
                 PROVE  Count(passed', i, j, passed'[i].ip) * Cost
                          <= Burst * Cost + Rate * (passed'[j].at - passed'[i].at)
      BY SameCardinality DEF MP!RateBound, Count
    <3>1. CASE j \in 1..n
      <4>2. i \in 1..n /\ passed'[i] = passed[i] /\ passed'[j] = passed[j]
        BY <1>4, <2>1, <3>1
      <4>1. Count(passed', i, j, passed'[i].ip) = Count(passed, i, j, passed[i].ip)
        <5>1. i \in 1..(Len(passed) + 1) /\ j \in 1..Len(passed)
          BY <1>4, <2>1, <3>1
        <5>2. Count(Append(passed, x), i, j, passed[i].ip) = Count(passed, i, j, passed[i].ip)
          BY <1>4, <5>1, CountAppend
        <5> QED BY <2>1, <4>2, <5>2
      <4>3. Count(passed, i, j, passed[i].ip) * Cost <= Burst * Cost + Rate * (passed[j].at - passed[i].at)
        BY <1>4, <3>1, <4>2, SameCardinality DEF RateInv, MP!RateBound, Count
      <4> QED BY <4>1, <4>2, <4>3
    <3>2. CASE j = n + 1
      <4>1. passed'[i].ip = p /\ passed'[j].at = now
        BY <2>1, <3>2
      <4>2. LET c == Count(passed', i, n + 1, p) IN
            c \in Nat /\ buckets'[p].tokens \in Nat
            /\ c * Cost + buckets'[p].tokens <= Burst * Cost + Rate * (now - passed'[i].at)
        BY <1>3, <2>1, <2>2, <4>1
      <4>3. passed'[i].at \in Nat
        BY <1>4, <1>6, <2>1, <3>2
      <4>4. Count(passed', i, n + 1, p) * Cost \in Nat /\ Rate * (now - passed'[i].at) \in Int
        BY <1>4, <1>5, <4>2, <4>3
      <4> QED BY <1>5, <3>2, <4>1, <4>2, <4>4
    <3> QED BY <1>4, <2>1, <3>1, <3>2
  <2> QED BY <2>1, <2>2, <2>3 DEF RateInv
<1> QED BY <1>8, <1>9

----------------------------------------------------------------------------

----------------------------------------------------------------------------
(* The shutdown and the credentials.                                        *)

Permitted(r) ==
  /\ \E k \in DOMAIN passed : passed[k].ip = Ip[r]
  /\ IF MP!AuthRequired(cfg) THEN MP!ProxyBasicAuth(r) = <<cfg.user, cfg.pass>> ELSE cfg.insecure

ServedInv ==
  /\ server \in {"running", "draining", "exited"} => MP!Validate(cfg)
  /\ \A r \in ProxyRequests : req[r] = "cut" => server = "exited"
  /\ server = "exited" /\ ~late => \A r \in ProxyRequests : req[r] = "cut" => r \in DOMAIN wire
  /\ \A r \in ProxyRequests : upstream[r] \intersect MP!HopByHop = {}
  /\ \A r \in ProxyRequests :
       req[r] \in {"dialing", "forwarding"} \/ upstream[r] # MP!NotSent \/ r \in DOMAIN wire => Permitted(r)

\* What is permitted stays so, and the requests that a step makes no progress
\* with need no permission.
LEMMA RequestKeepsServed ==
  ASSUME ProxyTypes, ServedInv, NEW r \in ProxyRequests, NEW s \in {"answered", "failed", "tunnel", "closed"},
         req' = [req EXCEPT ![r] = s], UNCHANGED <<cfg, server, late, passed, upstream>>,
         DOMAIN wire' \subseteq DOMAIN wire \cup {r}, DOMAIN wire \subseteq DOMAIN wire',
         s = "tunnel" => req[r] = "dialing", s # "tunnel" => DOMAIN wire' = DOMAIN wire
  PROVE  ServedInv'
<1>1. req'[r] = s /\ \A q \in ProxyRequests \ {r} : req'[q] = req[q]
  BY DEF ProxyTypes
<1>2. \A q \in ProxyRequests : Permitted(q)' <=> Permitted(q)
  BY DEF Permitted, MP!AuthRequired, MP!ProxyBasicAuth, MP!NoPair
<1>3. \A q \in ProxyRequests : req'[q] = "cut" => req[q] = "cut"
  BY <1>1
<1>4. ASSUME NEW q \in ProxyRequests,
             req'[q] \in {"dialing", "forwarding"} \/ upstream'[q] # MP!NotSent \/ q \in DOMAIN wire'
      PROVE  Permitted(q)
  <2>1. req[q] \in {"dialing", "forwarding"} \/ upstream[q] # MP!NotSent \/ q \in DOMAIN wire
    BY <1>1, <1>4
  <2> QED BY <2>1 DEF ServedInv
<1> QED BY <1>2, <1>3, <1>4 DEF ServedInv, MP!Validate, MP!AuthRequired, MP!HopByHop, MP!NotSent

LEMMA DispatchKeepsServed ==
  ASSUME ProxyTypes, ServedInv, NEW r \in ProxyRequests, MP!Dispatch(r)
  PROVE  ServedInv'
<1>1. /\ server = "running" /\ UNCHANGED <<cfg, server, late, wire, upstream>>
      /\ passed' = IF MP!Allowed(Ip[r]) THEN Append(passed, [ip |-> Ip[r], at |-> now]) ELSE passed
      /\ req' = [req EXCEPT ![r] = IF ~MP!Allowed(Ip[r]) THEN "limited"
                                   ELSE IF MP!AuthRequired(cfg) /\ ~MP!Authenticated(r) THEN "denied"
                                   ELSE IF Kind[r] = "connect" THEN "dialing" ELSE "forwarding"]
  BY DEF MP!Dispatch
<1>2. \A q \in ProxyRequests \ {r} : req'[q] = req[q]
  BY <1>1 DEF ProxyTypes
<1>3. req'[r] \in {"limited", "denied", "dialing", "forwarding"}
      /\ (req'[r] \in {"dialing", "forwarding"} =>
            MP!Allowed(Ip[r]) /\ (MP!AuthRequired(cfg) => MP!Authenticated(r)))
  BY <1>1 DEF ProxyTypes
<1>4. passed \in Seq([ip : Ips, at : Nat]) /\ now \in Nat /\ Ip[r] \in Ips
  BY DEF ProxyTypes, Ips
<1>5. \A q \in ProxyRequests : Permitted(q) => Permitted(q)'
  <2>1. \A k \in DOMAIN passed : k \in DOMAIN passed' /\ passed'[k] = passed[k]
    BY <1>1, <1>4
  <2> QED BY <1>1, <2>1 DEF Permitted, MP!AuthRequired, MP!ProxyBasicAuth, MP!NoPair
<1>6. req'[r] \in {"dialing", "forwarding"} => Permitted(r)'
  <2> SUFFICES ASSUME req'[r] \in {"dialing", "forwarding"} PROVE Permitted(r)'
    OBVIOUS
  <2>1. passed' = Append(passed, [ip |-> Ip[r], at |-> now])
    BY <1>1, <1>3
  <2>2. \E k \in DOMAIN passed' : passed'[k].ip = Ip[r]
    <3>1. Len(passed) + 1 \in DOMAIN passed' /\ passed'[Len(passed) + 1] = [ip |-> Ip[r], at |-> now]
      BY <1>4, <2>1
    <3> QED BY <3>1
  <2>3. IF MP!AuthRequired(cfg) THEN MP!ProxyBasicAuth(r) = <<cfg.user, cfg.pass>> ELSE cfg.insecure
    BY <1>1, <1>3 DEF ServedInv, MP!Validate, MP!Authenticated
  <2> QED BY <1>1, <2>2, <2>3 DEF Permitted, MP!AuthRequired, MP!ProxyBasicAuth, MP!NoPair
<1>7. ASSUME NEW q \in ProxyRequests,
             req'[q] \in {"dialing", "forwarding"} \/ upstream'[q] # MP!NotSent \/ q \in DOMAIN wire'
      PROVE  Permitted(q)'
  <2>1. \/ q = r /\ req'[r] \in {"dialing", "forwarding"}
        \/ req[q] \in {"dialing", "forwarding"} \/ upstream[q] # MP!NotSent \/ q \in DOMAIN wire
    BY <1>1, <1>2, <1>7
  <2> QED BY <1>5, <1>6, <2>1 DEF ServedInv
<1>8. \A q \in ProxyRequests : req'[q] # "cut"
  BY <1>1, <1>2, <1>3 DEF ServedInv
<1> QED BY <1>1, <1>7, <1>8 DEF ServedInv, MP!Validate, MP!AuthRequired, MP!HopByHop, MP!NotSent

LEMMA SendKeepsServed ==
  ASSUME ProxyTypes, ServedInv, NEW r \in ProxyRequests, MP!Send(r)
  PROVE  ServedInv'
<1>1. /\ req[r] = "forwarding" /\ UNCHANGED <<cfg, server, late, req, wire, passed>>
      /\ upstream' = [upstream EXCEPT ![r] = MP!Forwarded(Headers[r])]
  BY DEF MP!Send
<1>2. upstream'[r] = MP!Forwarded(Headers[r]) /\ \A q \in ProxyRequests \ {r} : upstream'[q] = upstream[q]
  BY <1>1 DEF ProxyTypes
<1>3. MP!Forwarded(Headers[r]) \intersect MP!HopByHop = {}
  BY DEF MP!Forwarded, MP!HopByHop
<1>4. \A q \in ProxyRequests : Permitted(q)' <=> Permitted(q)
  BY <1>1 DEF Permitted, MP!AuthRequired, MP!ProxyBasicAuth, MP!NoPair
<1>5. \A q \in ProxyRequests : upstream'[q] \intersect MP!HopByHop = {}
  BY <1>2, <1>3 DEF ServedInv
<1>6. ASSUME NEW q \in ProxyRequests, upstream'[q] # MP!NotSent
      PROVE  Permitted(q)
  BY <1>1, <1>2, <1>6 DEF ServedInv
<1> QED BY <1>1, <1>4, <1>5, <1>6 DEF ServedInv, MP!Validate, MP!AuthRequired, MP!HopByHop, MP!NotSent

LEMMA ExitKeepsServed ==
  ASSUME ProxyTypes, TunnelInv, ServedInv, MP!Exit
  PROVE  ServedInv'
<1>1. /\ server = "draining" /\ server' = "exited" /\ UNCHANGED <<cfg, late, wire, passed, upstream>>
      /\ \A r \in ProxyRequests : req'[r] = IF req[r] \in {"dialing", "forwarding", "tunnel"} THEN "cut" ELSE req[r]
      /\ ~late => \A r \in ProxyRequests : req[r] \notin {"dialing", "forwarding"}
  BY DEF MP!Exit, MP!Drained, MP!Serving
<1>2. \A q \in ProxyRequests : Permitted(q)' <=> Permitted(q)
  BY <1>1 DEF Permitted, MP!AuthRequired, MP!ProxyBasicAuth, MP!NoPair
<1>3. ~late => \A r \in ProxyRequests : req'[r] = "cut" => r \in DOMAIN wire
  BY <1>1 DEF TunnelInv, ServedInv
<1>4. \A r \in ProxyRequests : req'[r] \notin {"dialing", "forwarding"}
  BY <1>1
<1> QED BY <1>1, <1>2, <1>3, <1>4 DEF ServedInv, MP!Validate, MP!AuthRequired, MP!HopByHop, MP!NotSent

----------------------------------------------------------------------------
ProxyInv == ProxyTypes /\ TunnelInv /\ RateInv /\ ServedInv

LEMMA ProxyInvInit == MP!Init => ProxyInv
<1> SUFFICES ASSUME MP!Init PROVE ProxyInv
  OBVIOUS
<1>1. ProxyTypes
  BY DEF MP!Init, ProxyTypes
<1>2. TunnelInv
  BY DEF MP!Init, TunnelInv
<1>3. RateInv
  BY DEF MP!Init, RateInv, MP!RateBound
<1>4. ServedInv
  <2>1. server \in {"running", "draining", "exited"} => MP!Validate(cfg)
    BY DEF MP!Init
  <2>2. server # "exited"
    BY DEF MP!Init
  <2>3. \A r \in ProxyRequests : upstream[r] = MP!NotSent
    BY DEF MP!Init
  <2>4. MP!NotSent \intersect MP!HopByHop = {}
    BY DEF MP!NotSent, MP!HopByHop
  <2> QED BY <2>1, <2>2, <2>3, <2>4 DEF MP!Init, ServedInv
<1> QED BY <1>1, <1>2, <1>3, <1>4 DEF ProxyInv

\* The steps that only count time or change the server.
LEMMA ServerKeeps ==
  ASSUME ProxyInv, MP!Tick \/ MP!Signal \/ MP!TenSeconds \/ MP!Exit
  PROVE  ProxyInv'
<1>1. ProxyTypes /\ TunnelInv /\ RateInv /\ ServedInv
  BY DEF ProxyInv
<1>2. UNCHANGED <<cfg, buckets, wire, passed, upstream>>
  BY DEF MP!Tick, MP!Signal, MP!TenSeconds, MP!Exit
<1>3. RateInv'
  BY <1>1, <1>2 DEF RateInv, MP!RateBound, Count
<1>4. CASE MP!Tick
  <2>1. now' = now + 1 /\ UNCHANGED <<server, late, req>>
    BY <1>4 DEF MP!Tick
  <2>2. ProxyTypes'
    BY <1>1, <1>2, <2>1 DEF ProxyTypes
  <2>3. TunnelInv'
    BY <1>1, <1>2, <2>1 DEF TunnelInv
  <2>4. ServedInv'
    BY <1>1, <1>2, <2>1 DEF ServedInv, Permitted, MP!Validate, MP!AuthRequired, MP!HopByHop, MP!NotSent, MP!ProxyBasicAuth, MP!NoPair
  <2> QED BY <1>3, <2>2, <2>3, <2>4 DEF ProxyInv
<1>5. CASE MP!Signal \/ MP!TenSeconds
  <2>1. UNCHANGED <<now, req>> /\ server \in {"running", "draining"} /\ server' \in {"running", "draining"}
    BY <1>5 DEF MP!Signal, MP!TenSeconds
  <2>2. ProxyTypes'
    BY <1>1, <1>2, <2>1 DEF ProxyTypes
  <2>3. TunnelInv'
    BY <1>1, <1>2, <2>1 DEF TunnelInv
  <2>4. ServedInv'
    BY <1>1, <1>2, <2>1 DEF ServedInv, Permitted, MP!Validate, MP!AuthRequired, MP!HopByHop, MP!NotSent, MP!ProxyBasicAuth, MP!NoPair
  <2> QED BY <1>3, <2>2, <2>3, <2>4 DEF ProxyInv
<1>6. CASE MP!Exit
  <2>1. /\ UNCHANGED now /\ server' = "exited"
        /\ req' = [r \in ProxyRequests |-> IF req[r] \in {"dialing", "forwarding", "tunnel"} THEN "cut" ELSE req[r]]
    BY <1>6 DEF MP!Exit
  <2>2. ProxyTypes'
    BY <1>1, <1>2, <2>1 DEF ProxyTypes
  <2>3. TunnelInv'
    <3>1. \A r \in ProxyRequests : (req'[r] = "closed" <=> req[r] = "closed") /\ req'[r] # "tunnel"
      BY <2>1
    <3>2. ASSUME NEW r \in DOMAIN wire, NEW d \in Ways PROVE Sound(wire[r][d], wire[r].reset, req'[r] = "closed")
      BY <1>1, <3>1 DEF TunnelInv, ProxyTypes, Sound
    <3> QED BY <1>2, <3>1, <3>2 DEF TunnelInv
  <2> QED BY <1>1, <1>3, <1>6, <2>2, <2>3, ExitKeepsServed DEF ProxyInv
<1> QED BY <1>4, <1>5, <1>6

\* The steps of a tunnel's peers and of its two goroutines.
LEMMA WayStepKeeps ==
  ASSUME ProxyInv, NEW r \in ProxyRequests, NEW d \in Ways,
         MP!PeerSends(r, d) \/ MP!PeerEnds(r, d) \/ MP!Copy(r, d) \/ MP!CopyEnds(r, d)
  PROVE  ProxyInv'
<1>1. ProxyTypes /\ TunnelInv /\ RateInv /\ ServedInv
  BY DEF ProxyInv
<1>2. req[r] = "tunnel" /\ UNCHANGED <<cfg, server, late, now, buckets, passed, upstream, req>>
  BY DEF MP!PeerSends, MP!PeerEnds, MP!Copy, MP!CopyEnds, MP!Alive, MP!Quietly
<1>3. r \in DOMAIN wire
  BY <1>1, <1>2 DEF TunnelInv
<1>4. \E v : Turned(r, d, v)
  BY <1>1, <1>3, PeerSendsTurns, CopyTurns, EndTurns
<1>5. DOMAIN wire' = DOMAIN wire /\ \A q \in DOMAIN wire : wire'[q] \in Wires
  BY <1>1, <1>4 DEF Turned, ProxyTypes
<1>6. ProxyTypes'
  BY <1>1, <1>2, <1>5 DEF ProxyTypes
<1>7. TunnelInv'
  BY <1>1, <1>3, WayKeeps
<1>8. RateInv'
  BY <1>1, <1>2 DEF RateInv, MP!RateBound, Count
<1>9. ServedInv'
  BY <1>1, <1>2, <1>5 DEF ServedInv, Permitted, MP!Validate, MP!AuthRequired, MP!HopByHop, MP!NotSent, MP!ProxyBasicAuth, MP!NoPair
<1> QED BY <1>6, <1>7, <1>8, <1>9 DEF ProxyInv

\* The steps of a request.
LEMMA RequestKeeps ==
  ASSUME ProxyInv, NEW r \in ProxyRequests,
         MP!Health(r) \/ MP!Dial(r) \/ MP!Send(r) \/ MP!Reply(r) \/ MP!Reset(r) \/ MP!CloseTunnel(r)
  PROVE  ProxyInv'
<1>1. ProxyTypes /\ TunnelInv /\ RateInv /\ ServedInv
  BY DEF ProxyInv
<1>2. TunnelInv'
  BY <1>1, OthersKeepTunnels
<1>3. UNCHANGED <<cfg, server, late, now, buckets, passed>>
  BY DEF MP!Health, MP!Dial, MP!Send, MP!Reply, MP!Reset, MP!CloseTunnel, MP!Quietly
<1>4. RateInv'
  BY <1>1, <1>3 DEF RateInv, MP!RateBound, Count
<1>5. CASE MP!Send(r)
  <2>1. UNCHANGED <<req, wire>> /\ upstream' = [upstream EXCEPT ![r] = MP!Forwarded(Headers[r])]
    BY <1>5 DEF MP!Send
  <2>2. ProxyTypes'
    BY <1>1, <1>3, <2>1 DEF ProxyTypes
  <2> QED BY <1>1, <1>2, <1>4, <1>5, <2>2, SendKeepsServed DEF ProxyInv
<1>6. CASE MP!Health(r) \/ MP!Reply(r) \/ MP!CloseTunnel(r)
  <2>1. UNCHANGED <<wire, upstream>> /\ \E s \in {"answered", "failed", "closed"} : req' = [req EXCEPT ![r] = s]
    BY <1>6 DEF MP!Health, MP!Reply, MP!CloseTunnel, MP!Quietly
  <2>2. ProxyTypes'
    BY <1>1, <1>3, <2>1 DEF ProxyTypes
  <2>3. ServedInv'
    BY <1>1, <1>3, <2>1, RequestKeepsServed
  <2> QED BY <1>2, <1>4, <2>2, <2>3 DEF ProxyInv
<1>7. CASE MP!Dial(r)
  <2>1. UNCHANGED upstream /\ req[r] = "dialing"
    BY <1>7 DEF MP!Dial
  <2>2. CASE req' = [req EXCEPT ![r] = "failed"] /\ UNCHANGED wire
    <3>1. ProxyTypes'
      BY <1>1, <1>3, <2>1, <2>2 DEF ProxyTypes
    <3>2. ServedInv'
      BY <1>1, <1>3, <2>1, <2>2, RequestKeepsServed
    <3> QED BY <1>2, <1>4, <3>1, <3>2 DEF ProxyInv
  <2>3. ASSUME NEW early \in Early, req' = [req EXCEPT ![r] = "tunnel"],
               wire' = [q \in DOMAIN wire \cup {r} |-> IF q = r THEN MP!Tunnel(early) ELSE wire[q]]
        PROVE  ProxyInv'
    <3>1. DOMAIN wire' = DOMAIN wire \cup {r}
      BY <2>3
    <3>2. MP!Tunnel(early) \in Wires
      <4>1. <<>> \in Seq(Nat) /\ <<1>> \in Seq(Nat)
        OBVIOUS
      <4>2. early \in Seq(Nat)
        BY <4>1 DEF Early
      <4> QED BY <4>1, <4>2 DEF MP!Tunnel, MP!Quiet, Wires, Direction
    <3>3. ProxyTypes'
      BY <1>1, <1>3, <2>1, <2>3, <3>1, <3>2 DEF ProxyTypes
    <3>4. ServedInv'
      BY <1>1, <1>3, <2>1, <2>3, <3>1, RequestKeepsServed
    <3> QED BY <1>2, <1>4, <3>3, <3>4 DEF ProxyInv
  <2> QED BY <1>7, <2>2, <2>3 DEF MP!Dial, Early
<1>8. CASE MP!Reset(r)
  <2>1. UNCHANGED <<req, upstream>> /\ wire' = [wire EXCEPT ![r].reset = TRUE]
    BY <1>8 DEF MP!Reset, MP!Quietly
  <2>2. DOMAIN wire' = DOMAIN wire /\ \A q \in DOMAIN wire : wire'[q] \in Wires
    BY <1>1, <2>1 DEF ProxyTypes, Wires
  <2>3. ProxyTypes'
    BY <1>1, <1>3, <2>1, <2>2 DEF ProxyTypes
  <2>4. ServedInv'
    BY <1>1, <1>3, <2>1, <2>2 DEF ServedInv, Permitted, MP!Validate, MP!AuthRequired, MP!HopByHop, MP!NotSent, MP!ProxyBasicAuth, MP!NoPair
  <2> QED BY <1>2, <1>4, <2>3, <2>4 DEF ProxyInv
<1> QED BY <1>5, <1>6, <1>7, <1>8

LEMMA DispatchKeeps ==
  ASSUME ProxyInv, NEW r \in ProxyRequests, MP!Dispatch(r)
  PROVE  ProxyInv'
<1>1. ProxyTypes /\ TunnelInv /\ RateInv /\ ServedInv
  BY DEF ProxyInv
<1>2. TunnelInv' /\ RateInv' /\ ServedInv'
  BY <1>1, OthersKeepTunnels, DispatchKeepsRate, DispatchKeepsServed
<1>3. /\ MP!Allow(Ip[r]) /\ UNCHANGED <<server, now, wire, upstream>>
      /\ \/ passed' = passed
         \/ passed' = Append(passed, [ip |-> Ip[r], at |-> now])
      /\ \E s \in {"limited", "denied", "dialing", "forwarding"} : req' = [req EXCEPT ![r] = s]
  BY DEF MP!Dispatch
<1>4. [ip |-> Ip[r], at |-> now] \in [ip : Ips, at : Nat]
  BY <1>1 DEF ProxyTypes, Ips
<1>5. passed' \in Seq([ip : Ips, at : Nat])
  <2>1. passed \in Seq([ip : Ips, at : Nat])
    BY <1>1 DEF ProxyTypes
  <2>2. Append(passed, [ip |-> Ip[r], at |-> now]) \in Seq([ip : Ips, at : Nat])
    BY <1>4, <2>1, AppendProperties
  <2> QED BY <1>3, <2>1, <2>2
<1>6. \A i \in DOMAIN buckets' : buckets'[i] \in [tokens : Nat, last : Nat] /\ buckets'[i].last <= now
  <2>1. /\ DOMAIN buckets' = DOMAIN buckets \cup {Ip[r]}
        /\ \A i \in DOMAIN buckets \ {Ip[r]} : buckets'[i] = buckets[i]
        /\ buckets'[Ip[r]].last = now /\ buckets'[Ip[r]] \in [tokens : Nat, last : Nat]
    BY <1>1, <1>3, AllowIs
  <2>2. now \in Nat /\ \A i \in DOMAIN buckets : buckets[i] \in [tokens : Nat, last : Nat] /\ buckets[i].last <= now
    BY <1>1 DEF ProxyTypes
  <2> QED BY <2>1, <2>2
<1>7. ProxyTypes'
  BY <1>1, <1>3, <1>5, <1>6 DEF ProxyTypes
<1> QED BY <1>2, <1>7 DEF ProxyInv

LEMMA ProxyInvStep == ProxyInv /\ [MP!Next]_MP!vars => ProxyInv'
<1> SUFFICES ASSUME ProxyInv, [MP!Next]_MP!vars PROVE ProxyInv'
  OBVIOUS
<1>1. CASE MP!Tick \/ MP!Signal \/ MP!TenSeconds \/ MP!Exit
  BY <1>1, ServerKeeps
<1>2. ASSUME NEW r \in ProxyRequests, MP!Dispatch(r) PROVE ProxyInv'
  BY <1>2, DispatchKeeps
<1>3. ASSUME NEW r \in ProxyRequests,
             MP!Health(r) \/ MP!Dial(r) \/ MP!Send(r) \/ MP!Reply(r) \/ MP!Reset(r) \/ MP!CloseTunnel(r)
      PROVE  ProxyInv'
  BY <1>3, RequestKeeps
<1>4. ASSUME NEW r \in ProxyRequests, NEW d \in Ways,
             MP!PeerSends(r, d) \/ MP!PeerEnds(r, d) \/ MP!Copy(r, d) \/ MP!CopyEnds(r, d)
      PROVE  ProxyInv'
  BY <1>4, WayStepKeeps
<1>5. CASE UNCHANGED MP!vars
  <2>1. ProxyTypes'
    BY <1>5 DEF MP!vars, ProxyInv, ProxyTypes
  <2>2. TunnelInv'
    BY <1>5 DEF MP!vars, ProxyInv, TunnelInv
  <2>3. RateInv'
    BY <1>5 DEF MP!vars, ProxyInv, RateInv, MP!RateBound, Count
  <2>4. ServedInv'
    BY <1>5 DEF MP!vars, ProxyInv, ServedInv, Permitted, MP!Validate, MP!AuthRequired, MP!HopByHop, MP!NotSent,
                MP!ProxyBasicAuth, MP!NoPair
  <2> QED BY <2>1, <2>2, <2>3, <2>4 DEF ProxyInv
<1> QED BY <1>1, <1>2, <1>3, <1>4, <1>5 DEF MP!Next, Ways

LEMMA ProxyKeepsPromise == ProxyInv => MP!RateBound /\ MP!TunnelKeepsBytes /\ MP!ServedToTheEnd
<1> SUFFICES ASSUME ProxyInv PROVE MP!RateBound /\ MP!TunnelKeepsBytes /\ MP!ServedToTheEnd
  OBVIOUS
<1>1. MP!RateBound
  BY DEF ProxyInv, RateInv
<1>2. MP!ServedToTheEnd
  BY DEF ProxyInv, ServedInv, Permitted, ProxyTypes, MP!ServedToTheEnd
<1>3. ASSUME NEW r \in DOMAIN wire, NEW d \in Ways
      PROVE  /\ wire[r][d].got \o wire[r][d].way = wire[r][d].sent
             /\ req[r] = "closed" /\ ~wire[r].reset => wire[r][d].got = wire[r][d].sent
  <2> DEFINE w == wire[r][d]
  <2>1. w \in Direction
    BY DEF ProxyInv, ProxyTypes, Wires, Ways
  <2>2. Sound(w, wire[r].reset, req[r] = "closed")
    BY DEF ProxyInv, TunnelInv
  <2> HIDE DEF w
  <2>3. w.got \o <<>> = w.got
    BY <2>1, ConcatEmptySeq DEF Direction
  <2>4. req[r] = "closed" /\ ~wire[r].reset => w.way = <<>>
    BY <2>2 DEF Sound
  <2>5. w.got \o w.way = w.sent
    BY <2>2 DEF Sound
  <2>6. req[r] = "closed" /\ ~wire[r].reset => w.got = w.sent
    BY <2>3, <2>4, <2>5, Zenon
  <2> QED BY <2>5, <2>6 DEF w
<1>4. MP!TunnelKeepsBytes
  BY <1>3 DEF MP!TunnelKeepsBytes, Ways
<1> QED BY <1>1, <1>2, <1>4

----------------------------------------------------------------------------
(* The VPN: the hub delivers to the right client, and a node's routes lead  *)
(* to an address in its network.                                            *)

\* The hub is no client, and other programs do not know its key.
VpnParameters ==
  /\ 0 \notin Clients
  /\ \A k \in KeyTexts : \A b \in Foreign : b.version # 1 \/ b.key # CV!ParseKey(k[0])

VpnTypes ==
  /\ keys \in KeyTexts
  /\ node \in [CV!Nodes -> {"off", "up"}]
  /\ port \in [Clients -> Nat]
  /\ nextPort \in Nat \ {0}

\* UDP addresses are not given out twice, so that the client which has one now
\* is the one that used it.
PortsAreFresh ==
  /\ \A c \in Clients : port[c] < nextPort /\ (node[c] = "up" => port[c] # 0)
  /\ \A c, e \in Clients : c # e /\ port[c] = port[e] => port[c] = 0
  /\ \A u \in uses : u = <<u[1], u[2]>> /\ u[2] \in 1..(nextPort - 1)
  /\ \A u \in uses : \A c \in Clients : port[c] = u[2] => CV!Spoke(c, u[1])

\* What the hub will learn from a datagram is true.
Teaches(d) == \A ip \in CV!SpokenFor(CV!Open(0, d.bytes)) : <<ip, d.from>> \in uses

\* What the hub sends for an address it knows goes to a user of that address.
Directed(d) ==
  \E pkt \in Out[0] :
    d.bytes = CV!Seal(0, CV!Packet(pkt)) /\ (d.known => <<pkt.dst, d.to>> \in uses)

NetInv == \A d \in net : (d.to = 0 => Teaches(d)) /\ (d.from = 0 => Directed(d))

VpnInv == VpnTypes /\ PortsAreFresh /\ CV!TableIsHeard /\ NetInv /\ CV!RightClient

----------------------------------------------------------------------------
(* Datagrams on their way and what was delivered stay true: addresses are   *)
(* only added to those in use, and the keys do not change.                  *)
LEMMA UsesGrow ==
  ASSUME VpnInv, uses \subseteq uses', keys' = keys
  PROVE  \A d \in net : (d.to = 0 => Teaches(d)') /\ (d.from = 0 => Directed(d)')
<1>1. ASSUME NEW d \in net, d.to = 0 PROVE Teaches(d)'
  <2>1. Teaches(d)
    BY <1>1 DEF VpnInv, NetInv
  <2> QED BY <2>1 DEF Teaches, CV!Open, CV!KeyOf
<1>2. ASSUME NEW d \in net, d.from = 0 PROVE Directed(d)'
  <2>1. Directed(d)
    BY <1>2 DEF VpnInv, NetInv
  <2> QED BY <2>1 DEF Directed, CV!Seal, CV!KeyOf
<1> QED BY <1>1, <1>2

LEMMA GotStays ==
  ASSUME CV!RightClient, keys' = keys, got' = got
  PROVE  CV!RightClient'
  BY DEF CV!RightClient, CV!KeyOf

LEMMA NothingSpoken == CV!SpokenFor(CV!NoMessage) = {}
  BY DEF CV!SpokenFor, CV!NoMessage

----------------------------------------------------------------------------
LEMMA VpnInvInit == CV!Init => VpnInv
<1> SUFFICES ASSUME CV!Init PROVE VpnInv
  OBVIOUS
<1>1. VpnTypes
  BY DEF CV!Init, VpnTypes
<1>2. PortsAreFresh
  BY DEF CV!Init, PortsAreFresh, CV!Nodes
<1> QED BY <1>1, <1>2 DEF CV!Init, VpnInv, CV!TableIsHeard, NetInv, CV!RightClient

\* A client that starts has a fresh UDP address, and its hello gives its own
\* tunnel address.
LEMMA OpenTunKeeps ==
  ASSUME VpnParameters, VpnInv, NEW n \in CV!Nodes, CV!OpenTun(n)
  PROVE  VpnInv'
<1>1. keys' = keys /\ byIP' = byIP /\ got' = got /\ node' = [node EXCEPT ![n] = "up"]
  BY DEF CV!OpenTun
<1>2. CASE n = 0
  <2>1. port' = port /\ nextPort' = nextPort /\ net' = net /\ uses' = uses
    BY <1>2 DEF CV!OpenTun
  <2>2. VpnTypes' /\ PortsAreFresh'
    BY <1>1, <1>2, <2>1 DEF VpnInv, VpnTypes, PortsAreFresh, VpnParameters, CV!Nodes
  <2>3. CV!TableIsHeard'
    BY <1>1, <2>1 DEF VpnInv, CV!TableIsHeard
  <2>4. NetInv'
    BY <1>1, <2>1, UsesGrow DEF NetInv
  <2> QED BY <1>1, <2>2, <2>3, <2>4, GotStays DEF VpnInv
<1>3. CASE n # 0
  <2>0. PICK u, h : /\ u = <<Cidrs[n].ip, nextPort>>
                    /\ h = CV!Datagram(0, nextPort, CV!Seal(n, CV!Hello(Cidrs[n].ip)), FALSE)
    OBVIOUS
  <2>1. /\ n \in Clients
        /\ port' = [port EXCEPT ![n] = nextPort] /\ nextPort' = nextPort + 1
        /\ uses' = uses \cup {u} /\ net' = net \cup {h}
    BY <1>3, <2>0 DEF CV!OpenTun, CV!Nodes
  <2>2. VpnTypes'
    BY <1>1, <2>1 DEF VpnInv, VpnTypes
  <2>3. CV!Spoke(n, Cidrs[n].ip)
    BY DEF CV!Spoke
  <2>4. PortsAreFresh'
    BY <1>1, <2>0, <2>1, <2>3 DEF VpnInv, VpnTypes, PortsAreFresh, CV!Nodes
  <2>5. Teaches(h)' /\ h.from # 0 /\ h.to = 0
    <3>1. h.from # 0 /\ h.to = 0 /\ <<Cidrs[n].ip, h.from>> \in uses'
      BY <2>0, <2>1 DEF CV!Datagram, VpnInv, VpnTypes
    <3>2. CV!Open(0, h.bytes)' \in {CV!Hello(Cidrs[n].ip), CV!NoMessage}
      BY <1>1, <2>0 DEF CV!Open, CV!Datagram, CV!Seal, CV!KeyOf
    <3>3. CV!SpokenFor(CV!Hello(Cidrs[n].ip)) \subseteq {Cidrs[n].ip}
      BY DEF CV!SpokenFor, CV!Hello
    <3> QED BY <3>1, <3>2, <3>3, NothingSpoken DEF Teaches
  <2>6. CV!TableIsHeard'
    BY <1>1, <2>1 DEF VpnInv, CV!TableIsHeard
  <2>7. NetInv'
    BY <1>1, <2>1, <2>5, UsesGrow DEF NetInv
  <2> QED BY <1>1, <2>2, <2>4, <2>6, <2>7, GotStays DEF VpnInv
<1> QED BY <1>2, <1>3

\* A client that is up sends a hello or a packet of its device.
LEMMA ClientSendKeeps ==
  ASSUME VpnInv, NEW c \in Clients, CV!SendHello(c) \/ CV!ClientSends(c)
  PROVE  VpnInv'
<1>1. /\ keys' = keys /\ byIP' = byIP /\ got' = got /\ node' = node /\ port' = port /\ nextPort' = nextPort
      /\ node[c] = "up"
  BY DEF CV!SendHello, CV!ClientSends
<1>2. PICK m : /\ net' = net \cup {CV!ToHub(c, m)}
               /\ \A ip \in CV!SpokenFor(m) : <<ip, port[c]>> \in uses'
               /\ uses \subseteq uses'
               /\ \A u \in uses' \ uses : \E ip : u = <<ip, port[c]>> /\ CV!Spoke(c, ip)
  <2>1. CASE CV!SendHello(c)
    <3>1. net' = net \cup {CV!ToHub(c, CV!Hello(Cidrs[c].ip))} /\ uses' = uses \cup {<<Cidrs[c].ip, port[c]>>}
      BY <2>1 DEF CV!SendHello
    <3>2. CV!SpokenFor(CV!Hello(Cidrs[c].ip)) \subseteq {Cidrs[c].ip}
      BY DEF CV!SpokenFor, CV!Hello
    <3> QED BY <3>1, <3>2 DEF CV!Spoke
  <2>2. CASE CV!ClientSends(c)
    <3>1. PICK pkt \in Out[c] :
            /\ net' = net \cup {CV!ToHub(c, CV!Packet(pkt))}
            /\ uses' = IF CV!Ipv4Packet(pkt) THEN uses \cup {<<pkt.src, port[c]>>} ELSE uses
      BY <2>2 DEF CV!ClientSends
    <3>2. CV!SpokenFor(CV!Packet(pkt)) = IF CV!Ipv4Packet(pkt) THEN {pkt.src} ELSE {}
      BY DEF CV!SpokenFor, CV!Packet
    <3> QED BY <3>1, <3>2 DEF CV!Spoke
  <2> QED BY <2>1, <2>2
<1>3. VpnTypes'
  BY <1>1 DEF VpnInv, VpnTypes
<1>4. port[c] \in 1..(nextPort - 1)
  BY <1>1 DEF VpnInv, VpnTypes, PortsAreFresh
<1>5. PortsAreFresh'
  <2>1. ASSUME NEW u \in uses'
        PROVE  /\ u = <<u[1], u[2]>> /\ u[2] \in 1..(nextPort - 1)
               /\ \A e \in Clients : port[e] = u[2] => CV!Spoke(e, u[1])
    <3>1. CASE u \in uses
      BY <3>1 DEF VpnInv, PortsAreFresh
    <3>2. CASE u \notin uses
      <4>1. PICK ip : u = <<ip, port[c]>> /\ CV!Spoke(c, ip)
        BY <1>2, <2>1, <3>2
      <4>2. \A e \in Clients : port[e] = port[c] => e = c
        BY <1>4 DEF VpnInv, PortsAreFresh
      <4> QED BY <1>4, <4>1, <4>2
    <3> QED BY <3>1, <3>2
  <2> QED BY <1>1, <2>1 DEF VpnInv, PortsAreFresh
<1>6. CV!TableIsHeard'
  BY <1>1, <1>2 DEF VpnInv, CV!TableIsHeard
<1>7. NetInv'
  <2>0. PICK h : h = CV!ToHub(c, m)
    OBVIOUS
  <2>1. h.to = 0 /\ h.from = port[c] /\ h.from # 0
    BY <1>4, <2>0 DEF CV!ToHub, CV!Datagram
  <2>2. CV!Open(0, h.bytes)' \in {m, CV!NoMessage}
    BY <1>1, <2>0 DEF CV!Open, CV!ToHub, CV!Datagram, CV!Seal, CV!KeyOf
  <2>3. Teaches(h)'
    BY <1>2, <2>1, <2>2, NothingSpoken DEF Teaches
  <2>4. \A d \in net' : d \in net \/ d = h
    BY <1>2, <2>0
  <2> QED BY <1>1, <1>2, <2>1, <2>3, <2>4, UsesGrow DEF NetInv
<1> QED BY <1>1, <1>3, <1>5, <1>6, <1>7, GotStays DEF VpnInv

LEMMA MoveKeeps ==
  ASSUME VpnParameters, VpnInv, NEW c \in Clients, CV!Moves(c) \/ CV!ClientEnds(c)
  PROVE  VpnInv'
<1>1. keys' = keys /\ byIP' = byIP /\ got' = got /\ net' = net /\ uses' = uses
  BY DEF CV!Moves, CV!ClientEnds
<1>2. CASE CV!Moves(c)
  <2>1. port' = [port EXCEPT ![c] = nextPort] /\ nextPort' = nextPort + 1 /\ node' = node
    BY <1>2 DEF CV!Moves
  <2> QED BY <1>1, <2>1, UsesGrow, GotStays DEF VpnInv, VpnTypes, PortsAreFresh, CV!TableIsHeard, NetInv
<1>3. CASE CV!ClientEnds(c)
  <2>1. port' = [port EXCEPT ![c] = 0] /\ nextPort' = nextPort /\ node' = [node EXCEPT ![c] = "off"]
    BY <1>3 DEF CV!ClientEnds
  <2> QED BY <1>1, <2>1, UsesGrow, GotStays DEF VpnInv, VpnTypes, PortsAreFresh, CV!TableIsHeard, NetInv, CV!Nodes
<1> QED BY <1>2, <1>3

----------------------------------------------------------------------------
\* The hub learns from a datagram only what was used; foreign ones teach nothing.
LEMMA HubReceivesKeeps ==
  ASSUME VpnInv, CV!HubReceives
  PROVE  VpnInv'
<1>1. UNCHANGED <<keys, node, port, nextPort, net, got, uses>>
  BY DEF CV!HubReceives
<1>2. PICK d \in net :
        /\ d.to = 0
        /\ \/ UNCHANGED <<byIP, last>>
           \/ \E ip \in CV!SpokenFor(CV!Open(0, d.bytes)) : CV!Remember(ip, d.from)
  BY DEF CV!HubReceives
<1>3. Teaches(d)
  BY <1>2 DEF VpnInv, NetInv
<1>4. byIP' = byIP \/ \E ip : CV!Remember(ip, d.from) /\ <<ip, d.from>> \in uses
  BY <1>2, <1>3 DEF Teaches
<1>5. CV!TableIsHeard'
  BY <1>1, <1>4 DEF VpnInv, CV!TableIsHeard, CV!Remember
<1> QED BY <1>1, <1>5, UsesGrow, GotStays DEF VpnInv, VpnTypes, PortsAreFresh, NetInv

\* What the hub sends for an address in its table goes where that was heard.
LEMMA HubSendsKeeps ==
  ASSUME VpnParameters, VpnInv, CV!HubSends
  PROVE  VpnInv'
<1>1. UNCHANGED <<keys, node, port, nextPort, byIP, got, uses>>
  BY DEF CV!HubSends
<1>2. PICK pkt \in Out[0] :
        net' = IF ~CV!Ipv4Packet(pkt) \/ CV!Lookup(pkt.dst) = 0 THEN net
               ELSE net \cup {CV!Datagram(CV!Lookup(pkt.dst), 0, CV!Seal(0, CV!Packet(pkt)), pkt.dst \in DOMAIN byIP)}
  BY DEF CV!HubSends
<1>3. PICK h : h = CV!Datagram(CV!Lookup(pkt.dst), 0, CV!Seal(0, CV!Packet(pkt)), pkt.dst \in DOMAIN byIP)
  OBVIOUS
<1>4. h.to = CV!Lookup(pkt.dst) /\ h.bytes = CV!Seal(0, CV!Packet(pkt)) /\ (h.known => pkt.dst \in DOMAIN byIP)
  BY <1>3 DEF CV!Datagram
<1>5. pkt.dst \in DOMAIN byIP => <<pkt.dst, CV!Lookup(pkt.dst)>> \in uses
  BY DEF VpnInv, CV!TableIsHeard, CV!Lookup
<1>6. Directed(h)'
  BY <1>1, <1>4, <1>5 DEF Directed, CV!Seal, CV!KeyOf
<1>7. \A d \in net' : d \in net \/ (d = h /\ d.to # 0)
  BY <1>2, <1>3, <1>4
<1>8. NetInv'
  BY <1>1, <1>6, <1>7, UsesGrow DEF NetInv
<1> QED BY <1>1, <1>8, GotStays DEF VpnInv, VpnTypes, PortsAreFresh, CV!TableIsHeard

\* A client writes to its device only what came whole from the hub, and what the
\* hub sent to it knowingly was for an address it spoke for.
LEMMA ClientReceivesKeeps ==
  ASSUME VpnInv, NEW c \in Clients, CV!ClientReceives(c)
  PROVE  VpnInv'
<1>1. UNCHANGED <<keys, node, port, nextPort, byIP, net, uses>>
  BY DEF CV!ClientReceives
<1>2. PICK d \in net : d.to = port[c] /\
        got' = IF d.from = 0 /\ CV!Open(c, d.bytes).type = "packet" /\ CV!Open(c, d.bytes).body # CV!Empty
               THEN {[c |-> c, pkt |-> CV!Open(c, d.bytes).body, known |-> d.known]} ELSE got
  BY DEF CV!ClientReceives
<1>3. CASE d.from = 0 /\ CV!Open(c, d.bytes).type = "packet" /\ CV!Open(c, d.bytes).body # CV!Empty
  <2>1. PICK pkt \in Out[0] : d.bytes = CV!Seal(0, CV!Packet(pkt)) /\ (d.known => <<pkt.dst, d.to>> \in uses)
    BY <1>3 DEF VpnInv, NetInv, Directed
  <2>2. CV!KeyOf(c) = CV!KeyOf(0) /\ CV!Open(c, d.bytes) = CV!Packet(pkt)
    BY <1>3, <2>1 DEF CV!Open, CV!Seal, CV!NoMessage
  <2>3. d.known => CV!Spoke(c, pkt.dst)
    <3>1. ASSUME NEW u \in uses, port[c] = u[2] PROVE CV!Spoke(c, u[1])
      BY <3>1 DEF VpnInv, PortsAreFresh
    <3> QED BY <1>2, <2>1, <3>1
  <2>4. got' = {[c |-> c, pkt |-> pkt, known |-> d.known]}
    BY <1>2, <1>3, <2>2 DEF CV!Packet
  <2>5. CV!RightClient'
    BY <1>1, <2>2, <2>3, <2>4 DEF CV!RightClient, CV!KeyOf
  <2> QED BY <1>1, <2>5, UsesGrow DEF VpnInv, VpnTypes, PortsAreFresh, CV!TableIsHeard, NetInv
<1>4. CASE got' = got
  BY <1>1, <1>4, UsesGrow, GotStays DEF VpnInv, VpnTypes, PortsAreFresh, CV!TableIsHeard, NetInv
<1> QED BY <1>2, <1>3, <1>4

\* The hub starts again with nothing; datagrams are lost or come from elsewhere.
LEMMA OthersKeepVpn ==
  ASSUME VpnParameters, VpnInv, CV!HubEnds \/ CV!Lose \/ CV!Stray
  PROVE  VpnInv'
<1>1. CASE CV!HubEnds
  <2>1. /\ UNCHANGED <<keys, port, nextPort, net, got, uses>>
        /\ node' = [node EXCEPT ![0] = "off"] /\ byIP' = [i \in {} |-> 0]
    BY <1>1 DEF CV!HubEnds
  <2> QED BY <2>1, UsesGrow, GotStays
          DEF VpnInv, VpnTypes, PortsAreFresh, CV!TableIsHeard, NetInv, CV!Nodes, VpnParameters
<1>2. CASE CV!Lose
  <2>1. UNCHANGED <<keys, node, port, nextPort, byIP, got, uses>> /\ net' \subseteq net
    BY <1>2 DEF CV!Lose
  <2> QED BY <2>1, UsesGrow, GotStays DEF VpnInv, VpnTypes, PortsAreFresh, CV!TableIsHeard, NetInv
<1>3. CASE CV!Stray
  <2>1. UNCHANGED <<keys, node, port, nextPort, byIP, got, uses>>
    BY <1>3 DEF CV!Stray
  <2>2. PICK b \in Foreign : \E to \in 0..MaxPort : net' = net \cup {CV!Datagram(to, -1, b, FALSE)}
    BY <1>3 DEF CV!Stray
  <2>3. PICK to \in 0..MaxPort : net' = net \cup {CV!Datagram(to, -1, b, FALSE)}
    BY <2>2
  <2>8. PICK h : h = CV!Datagram(to, -1, b, FALSE)
    OBVIOUS
  <2>4. h.from # 0 /\ h.bytes = b
    BY <2>8 DEF CV!Datagram
  <2>5. CV!Open(0, b)' = CV!NoMessage
    BY <2>1 DEF CV!Open, VpnParameters, VpnInv, VpnTypes, CV!KeyOf
  <2>6. Teaches(h)'
    BY <2>4, <2>5, NothingSpoken DEF Teaches
  <2>7. NetInv'
    BY <2>1, <2>3, <2>4, <2>6, <2>8, UsesGrow DEF NetInv
  <2> QED BY <2>1, <2>7, GotStays DEF VpnInv, VpnTypes, PortsAreFresh, CV!TableIsHeard
<1> QED BY <1>1, <1>2, <1>3

LEMMA VpnInvStep == VpnParameters /\ VpnInv /\ (CV!Next \/ UNCHANGED CV!vars) => VpnInv'
<1> SUFFICES ASSUME VpnParameters, VpnInv, (CV!Next \/ UNCHANGED CV!vars) PROVE VpnInv'
  OBVIOUS
<1>1. CASE \E n \in CV!Nodes : CV!OpenTun(n)
  BY <1>1, OpenTunKeeps
<1>2. CASE \E c \in Clients : CV!SendHello(c) \/ CV!ClientSends(c)
  BY <1>2, ClientSendKeeps
<1>3. CASE \E c \in Clients : CV!Moves(c) \/ CV!ClientEnds(c)
  BY <1>3, MoveKeeps
<1>4. CASE \E c \in Clients : CV!ClientReceives(c)
  BY <1>4, ClientReceivesKeeps
<1>5. CASE CV!HubReceives
  BY <1>5, HubReceivesKeeps
<1>6. CASE CV!HubSends
  BY <1>6, HubSendsKeeps
<1>7. CASE CV!HubEnds \/ CV!Lose \/ CV!Stray
  BY <1>7, OthersKeepVpn
<1>8. CASE UNCHANGED CV!vars
  BY <1>8, UsesGrow, GotStays DEF CV!vars, VpnInv, VpnTypes, PortsAreFresh, CV!TableIsHeard, NetInv
<1> QED BY <1>1, <1>2, <1>3, <1>4, <1>5, <1>6, <1>7, <1>8 DEF CV!Next, CV!Step

----------------------------------------------------------------------------
(* Networks.                                                                *)

Sizes == {1, 2, 4, 8, 16, 32, 64, 128, 256}

\* The bits of a byte that are left to the hosts make a power of two.
LEMMA HostPartIsSize ==
  ASSUME NEW ones \in 0..32, NEW i \in 1..4
  PROVE  CV!HostPart(ones, i) \in Sizes /\ (i = 4 => (CV!HostPart(ones, i) = 1 <=> ones = 32))
<1>1. /\ 2 ^ 0 = 1 /\ 2 ^ 1 = 2 /\ 2 ^ 2 = 4 /\ 2 ^ 3 = 8 /\ 2 ^ 4 = 16
      /\ 2 ^ 5 = 32 /\ 2 ^ 6 = 64 /\ 2 ^ 7 = 128 /\ 2 ^ 8 = 256
  OBVIOUS
<1>2. PICK e \in 0..8 : /\ CV!HostPart(ones, i) = 2 ^ e
                        /\ i = 4 => (e = 0 <=> ones = 32)
  <2> DEFINE left == 8 * i - ones
             e == IF left < 0 THEN 0 ELSE IF left > 8 THEN 8 ELSE left
  <2>1. e \in 0..8 /\ (i = 4 => (e = 0 <=> ones = 32))
    OBVIOUS
  <2>2. CV!HostPart(ones, i) = 2 ^ e
    BY DEF CV!HostPart
  <2> QED BY <2>1, <2>2
<1>3. e \in {0, 1, 2, 3, 4, 5, 6, 7, 8}
  OBVIOUS
<1>4. 2 ^ e \in Sizes /\ (2 ^ e = 1 <=> e = 0)
  <2>1. CASE e = 0
    BY <1>1, <2>1 DEF Sizes
  <2>2. CASE e = 1
    BY <1>1, <2>2 DEF Sizes
  <2>3. CASE e = 2
    BY <1>1, <2>3 DEF Sizes
  <2>4. CASE e = 3
    BY <1>1, <2>4 DEF Sizes
  <2>5. CASE e = 4
    BY <1>1, <2>5 DEF Sizes
  <2>6. CASE e = 5
    BY <1>1, <2>6 DEF Sizes
  <2>7. CASE e = 6
    BY <1>1, <2>7 DEF Sizes
  <2>8. CASE e = 7
    BY <1>1, <2>8 DEF Sizes
  <2>9. CASE e = 8
    BY <1>1, <2>9 DEF Sizes
  <2> QED BY <1>3, <2>1, <2>2, <2>3, <2>4, <2>5, <2>6, <2>7, <2>8, <2>9
<1> QED BY <1>2, <1>4

\* A byte without its host bits; and, when it has any, the next one.
LEMMA ByteOfNetwork ==
  ASSUME NEW b \in CV!Byte, NEW h \in Sizes
  PROVE  /\ b - (b % h) \in CV!Byte
         /\ (b - (b % h)) - ((b - (b % h)) % h) = b - (b % h)
         /\ h # 1 => /\ b - (b % h) # 255
                     /\ (b - (b % h)) + 1 \in CV!Byte
                     /\ ((b - (b % h)) + 1) - (((b - (b % h)) + 1) % h) = b - (b % h)
         /\ h = 1 => b - (b % h) = b
<1>1. CASE h = 1
  BY <1>1 DEF CV!Byte
<1>2. CASE h = 2
  BY <1>2 DEF CV!Byte
<1>3. CASE h = 4
  BY <1>3 DEF CV!Byte
<1>4. CASE h = 8
  BY <1>4 DEF CV!Byte
<1>5. CASE h = 16
  BY <1>5 DEF CV!Byte
<1>6. CASE h = 32
  BY <1>6 DEF CV!Byte
<1>7. CASE h = 64
  BY <1>7 DEF CV!Byte
<1>8. CASE h = 128
  BY <1>8 DEF CV!Byte
<1>9. CASE h = 256
  BY <1>9 DEF CV!Byte
<1> QED BY <1>1, <1>2, <1>3, <1>4, <1>5, <1>6, <1>7, <1>8, <1>9 DEF Sizes

\* The address after that of the network is inside, but for a single host.
LEMMA GatewayOf ==
  ASSUME NEW c, c.ip \in CV!Address, c.ones \in 0..32
  PROVE  CV!SubnetGateway(c) \in CV!Address /\ (CV!InNetwork(c, CV!SubnetGateway(c)) <=> c.ones # 32)
<1> PICK n : n = CV!NetworkOf(c)
  OBVIOUS
<1> PICK g : g = CV!SubnetGateway(c)
  OBVIOUS
<1> PICK m : m = CV!NetworkOf(CV!Cidr(g, c.ones))
  OBVIOUS
<1> PICK h : h = [i \in 1..4 |-> CV!HostPart(c.ones, i)]
  OBVIOUS
<1>1. \A i \in 1..4 : h[i] \in Sizes /\ c.ip[i] \in CV!Byte /\ (i = 4 => (h[i] = 1 <=> c.ones = 32))
  BY HostPartIsSize DEF CV!Address
<1>2. n = [i \in 1..4 |-> c.ip[i] - (c.ip[i] % h[i])]
  BY DEF CV!NetworkOf
<1>3. n \in CV!Address
  BY <1>1, <1>2, ByteOfNetwork DEF CV!Address
<1>4. g = [i \in 1..4 |-> IF \A j \in (i + 1)..4 : n[j] = 255 THEN (n[i] + 1) % 256 ELSE n[i]]
  BY DEF CV!SubnetGateway, CV!IncIP
<1>5. g \in CV!Address
  <2>1. \A b \in CV!Byte : (b + 1) % 256 \in CV!Byte
    BY DEF CV!Byte
  <2>2. \A i \in 1..4 : n[i] \in CV!Byte /\ g[i] \in {n[i], (n[i] + 1) % 256}
    BY <1>3, <1>4 DEF CV!Address
  <2>3. \A i \in 1..4 : g[i] \in CV!Byte
    BY <2>1, <2>2
  <2> QED BY <1>4, <2>3 DEF CV!Address
<1>6. m = [i \in 1..4 |-> g[i] - (g[i] % h[i])]
  BY DEF CV!NetworkOf, CV!Cidr
<1>7. g[4] = (n[4] + 1) % 256
  BY <1>4
<1>8. CASE c.ones = 32
  <2>1. h[4] = 1
    BY <1>1, <1>8
  <2>2. m[4] = g[4]
    BY <1>5, <1>6, <2>1, ByteOfNetwork DEF CV!Address, Sizes
  <2>3. g[4] # n[4]
    BY <1>3, <1>7 DEF CV!Address, CV!Byte
  <2>4. m # n
    BY <2>2, <2>3
  <2> QED BY <1>5, <1>8, <2>4 DEF CV!InNetwork
<1>9. CASE c.ones # 32
  <2>1. h[4] # 1
    BY <1>1, <1>9
  <2>2. n[4] # 255 /\ n[4] + 1 \in CV!Byte /\ (n[4] + 1) - ((n[4] + 1) % h[4]) = n[4]
    BY <1>1, <1>2, <2>1, ByteOfNetwork
  <2>3. g[4] = n[4] + 1
    BY <1>3, <1>7, <2>2 DEF CV!Address, CV!Byte
  <2>4. m[4] = n[4]
    BY <1>6, <2>2, <2>3
  <2>5. ASSUME NEW i \in 1..3 PROVE m[i] = n[i]
    <3>1. g[i] = n[i]
      BY <1>4, <2>2
    <3>2. n[i] - (n[i] % h[i]) = n[i]
      BY <1>1, <1>2, ByteOfNetwork
    <3> QED BY <1>6, <3>1, <3>2
  <2>6. m = n
    <3>1. \A i \in 1..4 : m[i] = n[i]
      BY <2>4, <2>5
    <3> QED BY <1>2, <1>6, <3>1
  <2> QED BY <1>5, <1>9, <2>6 DEF CV!InNetwork
<1> QED BY <1>8, <1>9

\* The nodes' addresses are ones with a prefix length.
VpnBlocks == \A n \in CV!Nodes : Cidrs[n].ip \in CV!Address /\ Cidrs[n].ones \in 0..32

VpnRoutes ==
  /\ route \in [CV!Nodes -> {CV!NoGateway} \cup CV!Address]
  /\ \A n \in CV!Nodes : route[n] \in {CV!NoGateway, CV!SubnetGateway(Cidrs[n])}

LEMMA RoutesInit == CV!Init => VpnRoutes
BY DEF CV!Init, VpnRoutes

LEMMA RoutesStep == VpnBlocks /\ VpnRoutes /\ (CV!Next \/ UNCHANGED CV!vars) => VpnRoutes'
<1> SUFFICES ASSUME VpnBlocks, VpnRoutes, (CV!Next \/ UNCHANGED CV!vars) PROVE VpnRoutes'
  OBVIOUS
<1> USE DEF VpnRoutes
<1>1. \A n \in CV!Nodes : CV!SubnetGateway(Cidrs[n]) \in CV!Address
  BY GatewayOf DEF VpnBlocks
<1>2. CASE UNCHANGED route
  BY <1>2
<1>3. ASSUME NEW n \in CV!Nodes, CV!OpenTun(n) PROVE VpnRoutes'
  <2>1. route' = [route EXCEPT ![n] = CV!SubnetGateway(Cidrs[n])]
    BY <1>3 DEF CV!OpenTun
  <2> QED BY <1>1, <2>1
<1>4. ASSUME NEW n \in CV!Nodes, route' = [route EXCEPT ![n] = CV!NoGateway] PROVE VpnRoutes'
  BY <1>4
<1>5. CASE \E c \in Clients : CV!ClientEnds(c)
  BY <1>4, <1>5 DEF CV!ClientEnds, CV!Nodes
<1>6. CASE CV!HubEnds
  BY <1>4, <1>6 DEF CV!HubEnds, CV!Nodes
<1> QED BY <1>2, <1>3, <1>5, <1>6 DEF CV!Next, CV!Step, CV!vars, CV!HubReceives, CV!HubSends, CV!Lose, CV!Stray,
                                      CV!SendHello, CV!ClientSends, CV!Moves, CV!ClientReceives

LEMMA RoutesAreInside == VpnBlocks /\ VpnRoutes => CV!GatewayInside
BY GatewayOf DEF VpnBlocks, VpnRoutes, CV!GatewayInside

LEMMA VpnParametersHold == VpnParameters /\ VpnBlocks
BY VpnAssumption DEF VpnAssumption, VpnParameters, VpnBlocks

LEMMA VpnKeepsPromise ==
  ASSUME VpnInv, VpnRoutes
  PROVE  CV!RightClient /\ CV!TableIsHeard /\ CV!GatewayInside
BY VpnParametersHold, RoutesAreInside DEF VpnInv

----------------------------------------------------------------------------
(* The chat rooms: the instance of Network is the module RelayRoomsProofs   *)
(* is about.                                                                *)

RRP == INSTANCE RelayRoomsProofs

LEMMA SameRooms ==
  /\ RR!Init <=> RRP!Init
  /\ RR!Next <=> RRP!Next
  /\ RR!vars = RRP!vars
<1>1. RR!Init <=> RRP!Init
  BY DEF RR!Init, RRP!Init, RR!Part, RRP!Part, RR!NoPart, RRP!NoPart
<1>2. RR!vars = RRP!vars
  BY DEF RR!vars, RRP!vars
<1>3. ASSUME NEW ps, NEW f PROVE RR!Broadcast(ps, f) <=> RRP!Broadcast(ps, f)
  BY DEF RR!Broadcast, RRP!Broadcast, RR!Full, RRP!Full, RR!Part, RRP!Part
<1>4. ASSUME NEW s, NEW r PROVE RR!Join(s, r) <=> RRP!Join(s, r)
  BY <1>3 DEF RR!Join, RRP!Join, RR!MayJoin, RRP!MayJoin, RR!Presence, RRP!Presence, RR!Cardinality, RRP!Cardinality
<1>5. ASSUME NEW s PROVE RR!Leave(s) <=> RRP!Leave(s)
  BY <1>3 DEF RR!Leave, RRP!Leave, RR!Presence, RRP!Presence, RR!Cardinality, RRP!Cardinality, RR!NoPart, RRP!NoPart, RR!CountAfter, RRP!CountAfter, RR!Remaining, RRP!Remaining
<1>6. ASSUME NEW s PROVE RR!Chat(s) <=> RRP!Chat(s)
  BY <1>3 DEF RR!Chat, RRP!Chat, RR!Audience, RRP!Audience
<1>7. ASSUME NEW s PROVE RR!Forward(s) <=> RRP!Forward(s)
  BY DEF RR!Forward, RRP!Forward
<1>8. RR!Part = RRP!Part
  BY DEF RR!Part, RRP!Part
<1> QED BY <1>1, <1>2, <1>4, <1>5, <1>6, <1>7, <1>8 DEF RR!Next, RRP!Next

LEMMA RoomsStart == RR!Init => RRP!AgreeInv
<1>1. RRP!Bounds
  BY RoomsAssumption DEF RRP!Bounds, RRP!Parameters
<1> QED BY <1>1, RRP!AgreeInit, SameRooms

LEMMA RoomsGoOn == RRP!AgreeInv /\ [RR!Next]_RR!vars => RRP!AgreeInv'
<1>1. RRP!Bounds
  BY RoomsAssumption DEF RRP!Bounds, RRP!Parameters
<1>2. [RR!Next]_RR!vars => [RRP!Next]_RRP!vars
  BY SameRooms DEF RR!vars, RRP!vars
<1>3. RRP!AgreeInv /\ [RRP!Next]_RRP!vars => RRP!AgreeInv'
  BY <1>1, RRP!AgreeStep
<1> QED BY <1>2, <1>3

----------------------------------------------------------------------------
(* The promises of the servers.  A behaviour of Network is a behaviour of   *)
(* one of them, so each promise has its server's invariant.                 *)

(* The proxy keeps to its rate, loses no byte of a tunnel, and serves to    *)
(* the end what it serves when it is stopped (dispatch, rateLimiter.Allow,  *)
(* handleTunnel, Run), for any requests and settings, any rate and burst.   *)
THEOREM ProxyKeepsItsPromise == Spec => []ProxyPromise
<1> DEFINE I == on = "proxy" => ProxyInv
<1>1. Init => I
  BY ProxyInvInit DEF Init
<1>2. I /\ [Next]_vars => I'
  <2> SUFFICES ASSUME I, [Next]_vars, on' = "proxy" PROVE ProxyInv'
    OBVIOUS
  <2>1. ProxyInv
    BY DEF Next, vars
  <2>2. MP!Next \/ UNCHANGED MP!vars
    BY DEF Next, vars, servers, proxyOnly, MP!vars
  <2> QED BY <2>1, <2>2, ProxyInvStep
<1>3. I => ProxyPromise
  BY ProxyKeepsPromise DEF ProxyPromise
<1> QED BY <1>1, <1>2, <1>3, PTL DEF Spec

(* A task that was accepted is started once and in its turn, and the worker *)
(* knows how it ended (SubmitTaskHandler, Manager.Start, SendWork,          *)
(* RunTask), for any capacities of the channels and any number of requests. *)
THEOREM TasksKeepTheirPromise == Spec => []TasksPromise
<1> DEFINE I == on = "tasks" => KnowInv
<1>1. Init => I
  BY KnowInvInit DEF Init
<1>2. I /\ [Next]_vars => I'
  <2> SUFFICES ASSUME I, [Next]_vars, on' = "tasks" PROVE KnowInv'
    OBVIOUS
  <2>1. KnowInv
    BY DEF Next, vars
  <2>2. MO!Next \/ UNCHANGED MO!vars
    BY DEF Next, vars, servers, tasksOnly, MO!vars
  <2> QED BY <2>1, <2>2, KnowInvStep
<1>3. I => TasksPromise
  BY DEF TasksPromise, KnowInv, PipeInv, TaskOver, SoleUser, TaskTold, MO!WorkerKnows
<1> QED BY <1>1, <1>2, <1>3, PTL DEF Spec

(* Packets come out at the right client, the hub's table holds what it has  *)
(* heard, and the routes lead into the tunnel (remember, lookup,            *)
(* subnetGateway), for any nodes, addresses, keys and packets.              *)
THEOREM VpnKeepsItsPromise == Spec => []VpnPromise
<1> DEFINE I == on = "vpn" => VpnInv /\ VpnRoutes
<1>1. Init => I
  BY VpnInvInit, RoutesInit DEF Init
<1>2. I /\ [Next]_vars => I'
  <2> SUFFICES ASSUME I, [Next]_vars, on' = "vpn" PROVE VpnInv' /\ VpnRoutes'
    OBVIOUS
  <2>1. VpnInv /\ VpnRoutes
    BY DEF Next, vars
  <2>2. CV!Next \/ UNCHANGED CV!vars
    BY DEF Next, vars, servers, vpnOnly, CV!vars
  <2> QED BY <2>1, <2>2, VpnParametersHold, VpnInvStep, RoutesStep
<1>3. I => VpnPromise
  BY VpnKeepsPromise DEF VpnPromise
<1> QED BY <1>1, <1>2, <1>3, PTL DEF Spec

LEMMA RoomsOfNetwork == Spec => [](on = "rooms" => RRP!AgreeInv)
<1> DEFINE I == on = "rooms" => RRP!AgreeInv
<1>1. Init => I
  BY RoomsStart DEF Init
<1>2. I /\ [Next]_vars => I'
  <2> SUFFICES ASSUME I, [Next]_vars, on' = "rooms" PROVE RRP!AgreeInv'
    OBVIOUS
  <2>1. RRP!AgreeInv
    BY DEF Next, vars
  <2>2. RR!Next \/ UNCHANGED RR!vars
    BY DEF Next, vars, servers, roomsOnly, RR!vars
  <2> QED BY <2>1, <2>2, RoomsGoOn
<1> QED BY <1>1, <1>2, PTL DEF Spec

(* No participant, room or channel is left over (Join, leave, JoinRoom),    *)
(* for any number of clients and rooms.                                     *)
THEOREM RoomsOfNetworkClean == Spec => []RoomsClean
<1>1. RRP!AgreeInv => RR!TypeOK
  BY DEF RRP!AgreeInv, RR!TypeOK, RRP!TypeOK, RR!Part, RRP!Part, RR!NoPart, RRP!NoPart, RR!Frame, RRP!Frame
<1>2. RRP!AgreeInv => RR!NothingLeftOver
  BY DEF RRP!AgreeInv, RRP!RoomsInv, RRP!Belongs, RRP!Held, RR!NothingLeftOver
<1>3. (on = "rooms" => RRP!AgreeInv) => RoomsClean
  BY <1>1, <1>2 DEF RoomsClean, RR!RoomsStayClean
<1> QED BY <1>3, RoomsOfNetwork, PTL

(* Participants that missed no frame agree on the head count and on the     *)
(* conversation (Join, Chat, broadcastLocked), for any number of clients,   *)
(* rooms and chats, and any capacity of the channels.                       *)
THEOREM RoomsOfNetworkAgree == Spec => []RoomsAgree
<1>1. RRP!AgreeInv => RR!CountsAgree /\ RR!SameConversation
  BY DEF RRP!AgreeInv, RR!CountsAgree, RR!SameConversation, RRP!CountsAgree, RRP!SameConversation,
     RR!Told, RRP!Told, RR!TellsOf, RRP!TellsOf, RR!Tells, RRP!Tells, RR!ChatsIn, RRP!ChatsIn,
     RR!Cardinality, RRP!Cardinality
<1>2. (on = "rooms" => RRP!AgreeInv) => RoomsAgree
  BY <1>1 DEF RoomsAgree, RR!RoomsAgree
<1> QED BY <1>2, RoomsOfNetwork, PTL
=============================================================================
