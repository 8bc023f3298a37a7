----------------------------- MODULE RelayStore -----------------------------
(***************************************************************************)
(* The event bus of relay: topics with a ring buffer of recent events, and *)
(* subscribers with a bounded channel.  Every operation on the store holds *)
(* its mutex; the goroutine that sends a subscriber its replay does not.   *)
(* An event is <<topic, offset>>: what else it carries is never looked at. *)
(***************************************************************************)
EXTENDS Naturals, Sequences, FiniteSets, SequencesExt

CONSTANTS
  Topics,
  Subs,        \* calls of the Subscribe RPC
  Requests,    \* what a call asks for: [topics |-> sequence, from |-> offset]
  BufferSize,  \* slots of a ring buffer
  ChanCap,     \* capacity of a subscriber's channel
  MaxEvents    \* bound: events published to a topic

ASSUME StoreAssumption ==
  /\ BufferSize \in Nat \ {0}
  /\ ChanCap \in Nat \ {0}
  /\ MaxEvents \in Nat
  /\ Requests \subseteq [topics : Seq(Topics), from : Nat]

VARIABLES
  ring,     \* topicState.buffer
  subs,     \* topicState.subs
  state,    \* the Subscribe call: not made, in its loop, returned
  req,      \* its request
  ch,       \* subscriber.ch
  replay,   \* what the replay goroutine of the subscriber still has to send
  crashed,  \* a goroutine has panicked, which ends the process
  since, seen, dropped  \* history: offsets at subscription, events sent to the
                        \* client, events Publish could not queue

vars == <<ring, subs, state, req, ch, replay, crashed, since, seen, dropped>>

Event == Topics \X Nat
NoEvent == <<>>
EmptyRequest == [topics |-> <<>>, from |-> 0]

Ring == [slots : [0..(BufferSize - 1) -> Event \cup {NoEvent}],
         head : 0..(BufferSize - 1), count : 0..BufferSize, nextID : Nat]

TypeOK ==
  /\ ring \in [Topics -> Ring]
  /\ subs \in [Topics -> SUBSET Subs]
  /\ state \in [Subs -> {"new", "open", "closed"}]
  /\ req \in [Subs -> Requests \cup {EmptyRequest}]
  /\ ch \in [Subs -> Seq(Event)]
  /\ \A s \in Subs : Len(ch[s]) <= ChanCap
  /\ replay \in [Subs -> Seq(Event)]
  /\ crashed \in BOOLEAN
  /\ since \in [Subs -> [Topics -> Nat]]
  /\ seen \in [Subs -> Seq(Event)]
  /\ dropped \in [Subs -> SUBSET Event]

----------------------------------------------------------------------------
(* The ring buffer. *)

EmptyRing ==
  [slots |-> [i \in 0..(BufferSize - 1) |-> NoEvent], head |-> 0, count |-> 0, nextID |-> 0]

\* Mutant: the slot after the head is overwritten.
RingAppendNext(r, ev) ==
  [slots |-> [r.slots EXCEPT ![(r.head + 1) % BufferSize] = ev],
   head |-> (r.head + 1) % BufferSize,
   count |-> IF r.count < BufferSize THEN r.count + 1 ELSE r.count,
   nextID |-> r.nextID + 1]

RingAppend(r, ev) ==
  [slots |-> [r.slots EXCEPT ![r.head] = ev],
   head |-> (r.head + 1) % BufferSize,
   count |-> IF r.count < BufferSize THEN r.count + 1 ELSE r.count,
   nextID |-> r.nextID + 1]

Oldest(r) == r.nextID - r.count
OldestIdx(r) == (r.head + BufferSize - r.count) % BufferSize

\* The events of offsets first..nextID-1, read from their slots.
Slots(r, first) ==
  [k \in 1..(r.nextID - first) |->
     r.slots[(OldestIdx(r) + (first + k - 1) - Oldest(r)) % BufferSize]]

\* Mutant: the oldest event is taken to be in the first slot.
ReplayFromSlotZero(r, from) ==
  IF r.count = 0 \/ from >= r.nextID THEN <<>>
  ELSE LET first == IF from < Oldest(r) THEN Oldest(r) ELSE from IN
       [k \in 1..(r.nextID - first) |-> r.slots[(first - Oldest(r) + k - 1) % BufferSize]]

Replay(r, from) ==
  IF r.count = 0 \/ from >= r.nextID THEN <<>>
  ELSE Slots(r, IF from < Oldest(r) THEN Oldest(r) ELSE from)

----------------------------------------------------------------------------

Init ==
  /\ ring = [t \in Topics |-> EmptyRing]
  /\ subs = [t \in Topics |-> {}]
  /\ state = [s \in Subs |-> "new"]
  /\ req = [s \in Subs |-> EmptyRequest]
  /\ ch = [s \in Subs |-> <<>>]
  /\ replay = [s \in Subs |-> <<>>]
  /\ crashed = FALSE
  /\ since = [s \in Subs |-> [t \in Topics |-> 0]]
  /\ seen = [s \in Subs |-> <<>>]
  /\ dropped = [s \in Subs |-> {}]

\* Mutant: one event too few.
HasRoomForTwo(s) == Len(ch[s]) + 1 < ChanCap

HasRoom(s) == Len(ch[s]) < ChanCap

\* Every subscriber of the topic is offered the event; one whose channel is
\* full does not get it.
Publish(t) ==
  LET ev == <<t, ring[t].nextID>>
      full == {s \in subs[t] : ~HasRoom(s)} IN
  /\ ~crashed
  /\ ring[t].nextID < MaxEvents
  /\ ring' = [ring EXCEPT ![t] = RingAppend(@, ev)]
  /\ ch' = [s \in Subs |-> IF s \in subs[t] \ full THEN Append(ch[s], ev) ELSE ch[s]]
  /\ dropped' = [s \in Subs |-> IF s \in full THEN dropped[s] \cup {ev} ELSE dropped[s]]
  /\ UNCHANGED <<subs, state, req, replay, crashed, since, seen>>

\* Offset 0 asks for no replay.
Backlog(q) ==
  IF q.from = 0 THEN <<>>
  ELSE FlattenSeq([k \in 1..Len(q.topics) |-> Replay(ring[q.topics[k]], q.from)])

Subscribe(s, q) ==
  /\ ~crashed
  /\ state[s] = "new"
  /\ state' = [state EXCEPT ![s] = "open"]
  /\ req' = [req EXCEPT ![s] = q]
  /\ subs' = [t \in Topics |-> IF t \in ToSet(q.topics) THEN subs[t] \cup {s} ELSE subs[t]]
  /\ replay' = [replay EXCEPT ![s] = Backlog(q)]
  /\ since' = [since EXCEPT ![s] = [t \in Topics |-> ring[t].nextID]]
  /\ UNCHANGED <<ring, ch, crashed, seen, dropped>>

\* The replay goroutine sends into the channel, and waits while it is full ...
SendReplay(s) ==
  /\ ~crashed
  /\ replay[s] # <<>>
  /\ state[s] = "open"
  /\ HasRoom(s)
  /\ ch' = [ch EXCEPT ![s] = Append(@, Head(replay[s]))]
  /\ replay' = [replay EXCEPT ![s] = Tail(@)]
  /\ UNCHANGED <<ring, subs, state, req, crashed, since, seen, dropped>>

\* ... also when the channel is closed under it: a send on a closed channel panics.
ReplayPanics(s) ==
  /\ ~crashed
  /\ replay[s] # <<>>
  /\ state[s] = "closed"
  /\ crashed' = TRUE
  /\ UNCHANGED <<ring, subs, state, req, ch, replay, since, seen, dropped>>

\* The RPC's loop sends an event to the client.
Deliver(s) ==
  /\ ~crashed
  /\ state[s] = "open"
  /\ ch[s] # <<>>
  /\ seen' = [seen EXCEPT ![s] = Append(@, Head(ch[s]))]
  /\ ch' = [ch EXCEPT ![s] = Tail(@)]
  /\ UNCHANGED <<ring, subs, state, req, replay, crashed, since, dropped>>

\* Mutant: only the topics before the last one are left.
UnregisterButLast(s) ==
  [t \in Topics |-> IF t \in ToSet(Front(req[s].topics)) THEN subs[t] \ {s} ELSE subs[t]]

Unregister(s) ==
  [t \in Topics |-> IF t \in ToSet(req[s].topics) THEN subs[t] \ {s} ELSE subs[t]]

\* The client has gone or cannot be written to: the RPC returns and its
\* deferred unsub leaves the topics and closes the channel.
Unsubscribe(s) ==
  /\ ~crashed
  /\ state[s] = "open"
  /\ state' = [state EXCEPT ![s] = "closed"]
  /\ subs' = Unregister(s)
  /\ UNCHANGED <<ring, req, ch, replay, crashed, since, seen, dropped>>

Next ==
  \/ \E t \in Topics : Publish(t)
  \/ \E s \in Subs :
       \/ \E q \in Requests : Subscribe(s, q)
       \/ SendReplay(s) \/ ReplayPanics(s) \/ Deliver(s) \/ Unsubscribe(s)

Spec == Init /\ [][Next]_vars

\* The client's connection takes what it is sent.  A sender blocked on a channel
\* queues for it: it gets a slot that is freed before a later Publish does.
FairSpec == Spec /\ \A s \in Subs : SF_vars(SendReplay(s)) /\ WF_vars(Deliver(s))

----------------------------------------------------------------------------
(* Properties. *)

\* Events first..last-1 of a topic, in order.
Stretch(t, first, last) == [k \in 1..(last - first) |-> <<t, first + k - 1>>]
Larger(a, b) == IF a > b THEN a ELSE b
Lesser(a, b) == IF a < b THEN a ELSE b

\* Before and after any number of wrap-arounds, the replay of a ring buffer
\* (append, replay) is the tail of its topic: the last BufferSize events, from
\* the requested offset on, in order.
ReplayIsTail ==
  \A t \in Topics, from \in 0..(MaxEvents + 1) :
    LET n == ring[t].nextID
        first == Larger(from, n - Lesser(n, BufferSize)) IN
    Replay(ring[t], from) = IF first >= n THEN <<>> ELSE Stretch(t, first, n)

Places(q, x) == {i \in 1..Len(q) : q[i] = x}
Count(q, x) == Cardinality(Places(q, x))
Listed(s, t) == Count(req[s].topics, t)

\* What went to a subscriber, in the order in which its client gets it.
Sent(s) == seen[s] \o ch[s]
Coming(s) == Sent(s) \o replay[s]

\* An event published before the subscription comes at most once per listing
\* of its topic, one published after it at most once.
NoneTwice ==
  \A s \in Subs : \A e \in ToSet(Coming(s)) :
    Count(Coming(s), e) <= IF e[2] < since[s][e[1]] THEN Listed(s, e[1]) ELSE 1

\* What a subscriber is owed: the events its replay starts with and all that
\* came after its subscription.
Owed(s) ==
  {<<t, n>> : t \in ToSet(req[s].topics), n \in 0..MaxEvents} \cap
  {e \in Topics \X (0..MaxEvents) :
     /\ e[2] < ring[e[1]].nextID
     /\ \/ e[2] >= since[s][e[1]]
        \/ req[s].from > 0 /\ e[2] >= req[s].from /\ e[2] + BufferSize >= since[s][e[1]]}

\* All an open subscriber is owed was sent, is queued, is to be replayed, or was
\* dropped at a full channel.
NoneMissing ==
  \A s \in Subs : state[s] = "open" =>
    ToSet(Coming(s)) \cup dropped[s] = Owed(s)

\* The events of a set that a sequence has are in the order of their offsets.
Rising(q, es) ==
  \A i, j \in 1..Len(q) : i < j /\ q[i] \in es /\ q[j] \in es => q[i][2] < q[j][2]
Live(s, t) == {e \in Event : e[1] = t /\ e[2] >= since[s][t]}
Old(s, t) == {e \in Event : e[1] = t /\ e[2] < since[s][t]}

\* Live events of a topic are in order, and so are replayed ones; the two may mix.
EachPartRises ==
  \A s \in Subs, t \in Topics :
    /\ Rising(Sent(s), Live(s, t))
    /\ Listed(s, t) = 1 => Rising(Coming(s), Old(s, t))

\* The seam between the replay and the live events, where Subscribe holds the
\* lock over both and the goroutine sends without it (Subscribe, Publish): no
\* event disappears there or comes twice, and each part stays in order.
SeamIsTight == NoneMissing /\ NoneTwice /\ EachPartRises

\* Publish never sends on a closed channel: a topic holds open subscribers only.
TopicsHoldOpen == \A t \in Topics : \A s \in subs[t] : state[s] = "open"

\* Subscribing with a replay and unsubscribing, as TestReplayOnSubscribe does,
\* leaves the server running.
ServerSurvives == ~crashed

\* A client that stays connected is sent its whole replay.
ReplayEnds ==
  \A s \in Subs : replay[s] # <<>> ~> replay[s] = <<>> \/ state[s] = "closed" \/ crashed

=============================================================================
