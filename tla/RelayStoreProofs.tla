-------------------------- MODULE RelayStoreProofs --------------------------
(***************************************************************************)
(* Proofs about RelayStore: the ring buffers, for any number of slots and  *)
(* of wrap-arounds, the sets of subscribers that Publish sends to, and the *)
(* seam between a subscriber's replay and its live events.                 *)
(***************************************************************************)
EXTENDS RelayStore, FiniteSetTheorems, FunctionTheorems, SequenceTheorems, WellFoundedInduction, TLAPS

\* The slot that was written d appends before the next one at h.
Back(h, d) == IF d <= h THEN h - d ELSE h - d + BufferSize

\* A ring holds the last events of its topic, counted back from its head.
RingHolds(t) ==
  LET r == ring[t] IN
  /\ r.count = Lesser(r.nextID, BufferSize)
  /\ \A d \in 1..r.count : r.slots[Back(r.head, d)] = <<t, r.nextID - d>>

RingInv == ring \in [Topics -> Ring] /\ \A t \in Topics : RingHolds(t)

\* A registered subscriber is open, and unsub will meet it in this topic.
Registered(t, s) == s \in Subs /\ state[s] = "open" /\ t \in ToSet(req[s].topics)
SubsInv ==
  /\ subs \in [Topics -> SUBSET Subs]
  /\ state \in [Subs -> {"new", "open", "closed"}]
  /\ req \in [Subs -> Requests \cup {EmptyRequest}]
  /\ \A t \in Topics : \A s \in subs[t] : Registered(t, s)

----------------------------------------------------------------------------
(* The index arithmetic: below twice the size, the remainder is linear.     *)
Wrap(x) == x % BufferSize

LEMMA Remainder ==
  ASSUME BufferSize \in Nat \ {0}, NEW x \in 0..(2 * BufferSize - 1)
  PROVE  Wrap(x) = IF x < BufferSize THEN x ELSE x - BufferSize
<1>1. CASE x < BufferSize
  BY <1>1, SMT DEF Wrap
<1>2. CASE x >= BufferSize
  <2>1. x - BufferSize \in 0..(BufferSize - 1) /\ x = 1 * BufferSize + (x - BufferSize)
    BY <1>2, SMT
  <2> QED BY <2>1, <1>2, SMT DEF Wrap
<1> QED BY <1>1, <1>2, SMT

\* append writes the slot at the head and moves it on; what was there d appends
\* ago is then d + 1 appends ago.
LEMMA HeadMoves ==
  ASSUME BufferSize \in Nat \ {0}, NEW h \in 0..(BufferSize - 1), NEW h1, h1 = Wrap(h + 1)
  PROVE  /\ h1 \in 0..(BufferSize - 1)
         /\ Back(h1, 1) = h
         /\ \A d \in 2..BufferSize : /\ Back(h1, d) = Back(h, d - 1)
                                     /\ Back(h, d - 1) \in (0..(BufferSize - 1)) \ {h}
<1>1. h + 1 \in 0..(2 * BufferSize - 1)
  BY SMT
<1>2. h1 = IF h + 1 < BufferSize THEN h + 1 ELSE h + 1 - BufferSize
  BY <1>1, Remainder, SMT
<1> QED BY <1>2, SMT DEF Back

LEMMA AppendKeepsRing ==
  ASSUME BufferSize \in Nat \ {0}, NEW t \in Topics, NEW r \in Ring,
         r.count = Lesser(r.nextID, BufferSize),
         \A d \in 1..r.count : r.slots[Back(r.head, d)] = <<t, r.nextID - d>>,
         NEW q, q = RingAppend(r, <<t, r.nextID>>)
  PROVE  /\ q \in Ring
         /\ q.count = Lesser(q.nextID, BufferSize)
         /\ \A d \in 1..q.count : q.slots[Back(q.head, d)] = <<t, q.nextID - d>>
<1> DEFINE ev == <<t, r.nextID>>
<1>1. /\ r.slots \in [0..(BufferSize - 1) -> Event \cup {NoEvent}]
      /\ r.head \in 0..(BufferSize - 1) /\ r.count \in 0..BufferSize /\ r.nextID \in Nat
  BY DEF Ring
<1>2. /\ q.slots = [r.slots EXCEPT ![r.head] = ev]
      /\ q.head = Wrap(r.head + 1)
  BY DEF RingAppend, Wrap
<1>0. /\ q.count = IF r.count < BufferSize THEN r.count + 1 ELSE r.count
      /\ q.nextID = r.nextID + 1
  BY DEF RingAppend
<1>3. /\ q.head \in 0..(BufferSize - 1)
      /\ Back(q.head, 1) = r.head
      /\ \A d \in 2..BufferSize : /\ Back(q.head, d) = Back(r.head, d - 1)
                                  /\ Back(r.head, d - 1) \in (0..(BufferSize - 1)) \ {r.head}
  BY <1>1, <1>2, HeadMoves, Zenon
<1>4. q.count = Lesser(q.nextID, BufferSize) /\ q.count \in 0..BufferSize /\ q.nextID \in Nat
  BY <1>0, <1>1, SMT DEF Lesser
<1>5. ev \in Event
  BY <1>1 DEF Event
<1>6. q.slots \in [0..(BufferSize - 1) -> Event \cup {NoEvent}]
  BY <1>1, <1>2, <1>5
<1>7. q \in Ring
  <2>1. q = [slots |-> q.slots, head |-> q.head, count |-> q.count, nextID |-> q.nextID]
    BY DEF RingAppend
  <2> QED BY <2>1, <1>3, <1>4, <1>6 DEF Ring
<1>8. ASSUME NEW d \in 1..q.count
      PROVE  q.slots[Back(q.head, d)] = <<t, q.nextID - d>>
  <2>1. CASE d = 1
    <3>1. q.slots[r.head] = ev
      BY <1>1, <1>2
    <3>2. q.nextID - 1 = r.nextID
      <4>1. r.nextID \in Nat /\ q.nextID = r.nextID + 1
        BY <1>0, <1>1
      <4> QED BY <4>1, SMT
    <3> QED BY <2>1, <1>3, <3>1, <3>2
  <2>2. CASE d > 1
    <3>1. d \in 2..BufferSize /\ d - 1 \in 1..r.count
      BY <2>2, <1>0, <1>1, <1>4, SMT
    <3>2. q.slots[Back(r.head, d - 1)] = r.slots[Back(r.head, d - 1)]
      BY <3>1, <1>1, <1>2, <1>3
    <3>3. r.slots[Back(r.head, d - 1)] = <<t, r.nextID - (d - 1)>>
      BY <3>1
    <3>4. r.nextID - (d - 1) = q.nextID - d
      BY <1>0, <1>1, <3>1, SMT
    <3> QED BY <3>1, <3>2, <3>3, <3>4, <1>3
  <2> QED BY <2>1, <2>2, <1>4, SMT
<1> QED BY <1>4, <1>7, <1>8

----------------------------------------------------------------------------
(* Every step keeps the rings.  Only Publish changes one.                   *)
LEMMA RingInvInit == Init => RingInv
<1> SUFFICES ASSUME Init PROVE RingInv
  OBVIOUS
<1>1. BufferSize \in Nat \ {0}
  BY StoreAssumption
<1>2. EmptyRing \in Ring
  BY <1>1, SMT DEF EmptyRing, Ring
<1>3. EmptyRing.count = 0 /\ EmptyRing.nextID = 0 /\ 1..0 = {}
  BY SMT DEF EmptyRing
<1>4. ring = [t \in Topics |-> EmptyRing]
  BY DEF Init
<1>5. Lesser(0, BufferSize) = 0
  BY <1>1, SMT DEF Lesser
<1> QED BY <1>2, <1>3, <1>4, <1>5 DEF RingInv, RingHolds

LEMMA RingInvStep == RingInv /\ [Next]_vars => RingInv'
<1> SUFFICES ASSUME RingInv, [Next]_vars PROVE RingInv'
  OBVIOUS
<1>1. ASSUME NEW t \in Topics, Publish(t) PROVE RingInv'
  <2>1. ring' = [ring EXCEPT ![t] = RingAppend(ring[t], <<t, ring[t].nextID>>)]
    BY <1>1 DEF Publish
  <2>2. ring \in [Topics -> Ring] /\ BufferSize \in Nat \ {0}
    BY StoreAssumption DEF RingInv
  <2>3. /\ ring'[t] \in Ring
        /\ ring'[t].count = Lesser(ring'[t].nextID, BufferSize)
        /\ \A d \in 1..ring'[t].count :
             ring'[t].slots[Back(ring'[t].head, d)] = <<t, ring'[t].nextID - d>>
    <3>1. ring[t] \in Ring /\ ring'[t] = RingAppend(ring[t], <<t, ring[t].nextID>>)
      BY <2>1, <2>2
    <3>2. /\ ring[t].count = Lesser(ring[t].nextID, BufferSize)
          /\ \A d \in 1..ring[t].count :
               ring[t].slots[Back(ring[t].head, d)] = <<t, ring[t].nextID - d>>
      BY DEF RingInv, RingHolds
    <3> QED BY <2>2, <3>1, <3>2, AppendKeepsRing
  <2>4. ASSUME NEW u \in Topics, u # t PROVE ring'[u] = ring[u]
    BY <2>1, <2>2, <2>4
  <2>5. ring' \in [Topics -> Ring]
    BY <2>1, <2>2, <2>3
  <2>6. ASSUME NEW u \in Topics PROVE RingHolds(u)'
    <3>1. CASE u = t
      BY <3>1, <2>3 DEF RingHolds, Back
    <3>2. CASE u # t
      BY <3>2, <2>4 DEF RingHolds, RingInv, Back
    <3> QED BY <3>1, <3>2
  <2> QED BY <2>5, <2>6 DEF RingInv
<1>2. CASE UNCHANGED ring
  BY <1>2 DEF RingInv, RingHolds, Back
<1>3. CASE \E t \in Topics : Publish(t)
  BY <1>1, <1>3
<1>4. CASE \E s \in Subs : \/ \E q \in Requests : Subscribe(s, q)
                           \/ SendReplay(s) \/ ReplayPanics(s) \/ Deliver(s) \/ Unsubscribe(s)
  BY <1>2, <1>4 DEF Subscribe, SendReplay, ReplayPanics, Deliver, Unsubscribe
<1> QED BY <1>2, <1>3, <1>4 DEF Next, vars

\* The slots that replay reads hold the events it means: counting from the
\* oldest slot forward meets what was written counting back from the head.
LEMMA SlotIndex ==
  ASSUME BufferSize \in Nat \ {0}, NEW h \in 0..(BufferSize - 1), NEW c \in 0..BufferSize,
         NEW n \in Nat, NEW e \in Nat, n - c <= e, e < n
  PROVE  /\ Wrap(Wrap(h + BufferSize - c) + e - (n - c)) = Back(h, n - e)
         /\ n - e \in 1..c
<1>1. h + BufferSize - c \in 0..(2 * BufferSize - 1)
  BY SMT
<1> DEFINE x == Wrap(h + BufferSize - c)
<1>2. x = IF h + BufferSize - c < BufferSize THEN h + BufferSize - c ELSE h - c
  BY <1>1, Remainder, SMT
<1> HIDE DEF x
<1> DEFINE y == x + e - (n - c)
<1>3. y \in 0..(2 * BufferSize - 1)
  BY <1>2, SMT
<1>4. Wrap(y) = IF y < BufferSize THEN y ELSE y - BufferSize
  <2> HIDE DEF y
  <2> QED BY <1>3, Remainder
<1>5. Wrap(y) = Back(h, n - e)
  BY <1>2, <1>4, SMT DEF Back
<1> QED BY <1>5, SMT DEF x

LEMMA RingGivesTail ==
  ASSUME RingInv, NEW t \in Topics, NEW from \in Nat
  PROVE  LET n == ring[t].nextID
             first == Larger(from, n - Lesser(n, BufferSize)) IN
         Replay(ring[t], from) = IF first >= n THEN <<>> ELSE Stretch(t, first, n)
<1> DEFINE r == ring[t]
           n == r.nextID
           first == Larger(from, n - Lesser(n, BufferSize))
           start == IF from < Oldest(r) THEN Oldest(r) ELSE from
<1>1. BufferSize \in Nat \ {0}
  BY StoreAssumption
<1>2. /\ r.head \in 0..(BufferSize - 1) /\ r.count \in 0..BufferSize /\ n \in Nat
      /\ r.count = Lesser(n, BufferSize)
      /\ \A d \in 1..r.count : r.slots[Back(r.head, d)] = <<t, n - d>>
  BY DEF RingInv, RingHolds, Ring
<1>3. (r.count = 0 \/ from >= n) <=> first >= n
  BY <1>1, <1>2, SMT DEF Larger, Lesser
<1>4. CASE first >= n
  BY <1>3, <1>4 DEF Replay
<1>5. CASE ~(first >= n)
  <2>1. Replay(r, from) = Slots(r, start)
    BY <1>3, <1>5 DEF Replay
  <2>2. start = first /\ first \in Nat /\ n - r.count <= first
    BY <1>1, <1>2, SMT DEF Larger, Lesser, Oldest
  <2>3. ASSUME NEW k \in 1..(n - first)
        PROVE  r.slots[(OldestIdx(r) + (first + k - 1) - Oldest(r)) % BufferSize] = <<t, first + k - 1>>
    <3> DEFINE e == first + k - 1
    <3>1. e \in Nat /\ n - r.count <= e /\ e < n
      BY <1>2, <2>2, SMT
    <3> HIDE DEF e
    <3>2. /\ (OldestIdx(r) + e - Oldest(r)) % BufferSize = Back(r.head, n - e)
          /\ n - e \in 1..r.count
      BY <1>1, <1>2, <3>1, SlotIndex, Zenon DEF OldestIdx, Oldest, Wrap
    <3>3. r.slots[Back(r.head, n - e)] = <<t, n - (n - e)>>
      BY <1>2, <3>2
    <3>4. n - (n - e) = e
      BY <1>2, <3>1, SMT
    <3> QED BY <3>2, <3>3, <3>4 DEF e
  <2>4. Slots(r, first) = Stretch(t, first, n)
    BY <2>3 DEF Slots, Stretch
  <2> QED BY <1>5, <2>1, <2>2, <2>4
<1> QED BY <1>4, <1>5

----------------------------------------------------------------------------
(* Every step keeps the registrations.                                      *)
LEMMA SubsInvInit == Init => SubsInv
<1> QED BY DEF Init, SubsInv

LEMMA SubsInvStep == SubsInv /\ [Next]_vars => SubsInv'
<1> SUFFICES ASSUME SubsInv, [Next]_vars PROVE SubsInv'
  OBVIOUS
<1> USE DEF SubsInv, Registered
<1>1. ASSUME NEW s \in Subs, NEW q \in Requests, Subscribe(s, q) PROVE SubsInv'
  <2>1. /\ state[s] = "new" /\ state' = [state EXCEPT ![s] = "open"]
        /\ req' = [req EXCEPT ![s] = q]
        /\ subs' = [t \in Topics |-> IF t \in ToSet(q.topics) THEN subs[t] \cup {s} ELSE subs[t]]
    BY <1>1 DEF Subscribe
  <2>2. ASSUME NEW t \in Topics, NEW u \in subs'[t] PROVE Registered(t, u)'
    <3>1. CASE u = s
      <4>1. s \notin subs[t]
        BY <2>1
      <4>2. t \in ToSet(q.topics)
        BY <2>1, <2>2, <3>1, <4>1
      <4> QED BY <2>1, <3>1, <4>2
    <3>2. CASE u # s
      BY <2>1, <2>2, <3>2
    <3> QED BY <3>1, <3>2
  <2> QED BY <2>1, <2>2
<1>2. ASSUME NEW s \in Subs, Unsubscribe(s) PROVE SubsInv'
  <2>1. /\ state[s] = "open" /\ state' = [state EXCEPT ![s] = "closed"] /\ UNCHANGED req
        /\ subs' = [t \in Topics |-> IF t \in ToSet(req[s].topics) THEN subs[t] \ {s} ELSE subs[t]]
    BY <1>2 DEF Unsubscribe, Unregister
  <2>2. ASSUME NEW t \in Topics, NEW u \in subs'[t] PROVE u # s /\ Registered(t, u)'
    BY <2>1, <2>2
  <2> QED BY <2>1, <2>2
<1>3. CASE UNCHANGED <<subs, state, req>>
  BY <1>3
<1>4. CASE \E t \in Topics : Publish(t)
  BY <1>3, <1>4 DEF Publish
<1>5. CASE \E s \in Subs : SendReplay(s) \/ ReplayPanics(s) \/ Deliver(s)
  BY <1>3, <1>5 DEF SendReplay, ReplayPanics, Deliver
<1> QED BY <1>1, <1>2, <1>3, <1>4, <1>5 DEF Next, vars

----------------------------------------------------------------------------
(* Sequences: how often something occurs, and in which order.               *)
LEMMA PlacesAreFinite ==
  ASSUME NEW S, NEW q \in Seq(S), NEW x
  PROVE  IsFiniteSet(Places(q, x)) /\ Count(q, x) \in Nat
<1>1. Len(q) \in Nat /\ IsFiniteSet(1..Len(q))
  BY LenProperties, FS_Interval
<1>2. Places(q, x) \in SUBSET (1..Len(q))
  BY DEF Places
<1>3. IsFiniteSet(Places(q, x))
  BY <1>1, <1>2, FS_Subset
<1> QED BY <1>3, FS_CardinalityType DEF Count

\* What is in a concatenation, and where.
LEMMA Concatenation ==
  ASSUME NEW S, NEW a \in Seq(S), NEW b \in Seq(S)
  PROVE  /\ a \o b \in Seq(S) /\ Len(a) \in Nat /\ Len(b) \in Nat /\ Len(a \o b) = Len(a) + Len(b)
         /\ \A i \in 1..Len(a) : (a \o b)[i] = a[i]
         /\ \A i \in 1..Len(b) : (a \o b)[Len(a) + i] = b[i]
         /\ ToSet(a \o b) = ToSet(a) \cup ToSet(b)
<1>1. /\ a \o b \in Seq(S) /\ Len(a \o b) = Len(a) + Len(b)
      /\ Len(a) \in Nat /\ Len(b) \in Nat
      /\ \A i \in 1..(Len(a) + Len(b)) : (a \o b)[i] = IF i <= Len(a) THEN a[i] ELSE b[i - Len(a)]
  BY ConcatProperties, LenProperties
<1>2. /\ \A i \in 1..Len(a) : (a \o b)[i] = a[i]
      /\ \A i \in 1..Len(b) : (a \o b)[Len(a) + i] = b[i]
  BY <1>1
<1>3. DOMAIN a = 1..Len(a) /\ DOMAIN b = 1..Len(b) /\ DOMAIN (a \o b) = 1..(Len(a) + Len(b))
  BY <1>1, LenProperties
<1>4. ASSUME NEW x \in ToSet(a \o b) PROVE x \in ToSet(a) \cup ToSet(b)
  <2>1. PICK i \in 1..(Len(a) + Len(b)) : (a \o b)[i] = x
    BY <1>3 DEF ToSet
  <2>2. CASE i <= Len(a)
    BY <1>1, <1>3, <2>1, <2>2 DEF ToSet
  <2>3. CASE ~(i <= Len(a))
    <3>1. i - Len(a) \in 1..Len(b)
      BY <1>1, <2>3
    <3> QED BY <1>1, <1>3, <2>1, <2>3, <3>1 DEF ToSet
  <2> QED BY <2>2, <2>3
<1>5. ASSUME NEW x \in ToSet(a) \cup ToSet(b) PROVE x \in ToSet(a \o b)
  <2>1. CASE x \in ToSet(a)
    <3>1. PICK i \in 1..Len(a) : a[i] = x
      BY <1>3, <2>1 DEF ToSet
    <3> QED BY <1>1, <1>2, <1>3, <3>1 DEF ToSet
  <2>2. CASE x \in ToSet(b)
    <3>1. PICK i \in 1..Len(b) : b[i] = x
      BY <1>3, <2>2 DEF ToSet
    <3>2. Len(a) + i \in 1..(Len(a) + Len(b))
      BY <1>1
    <3> QED BY <1>2, <1>3, <3>1, <3>2 DEF ToSet
  <2> QED BY <2>1, <2>2
<1> QED BY <1>1, <1>2, <1>4, <1>5

LEMMA CountConcatenation ==
  ASSUME NEW S, NEW a \in Seq(S), NEW b \in Seq(S), NEW x
  PROVE  Count(a \o b, x) = Count(a, x) + Count(b, x)
<1> DEFINE m == Len(a)
           A == Places(a, x)
           B == Places(b, x)
           C == Places(a \o b, x) \ A
           f == [i \in B |-> m + i]
<1>1. /\ m \in Nat /\ Len(b) \in Nat /\ Len(a \o b) = m + Len(b)
      /\ \A i \in 1..m : (a \o b)[i] = a[i]
      /\ \A i \in 1..Len(b) : (a \o b)[m + i] = b[i]
  BY Concatenation
<1>2. IsFiniteSet(A) /\ IsFiniteSet(B)
  BY PlacesAreFinite
<1>3. A \subseteq 1..m /\ B \subseteq 1..Len(b) /\ A \subseteq Places(a \o b, x)
  BY <1>1 DEF Places
<1>4. f \in Bijection(B, C)
  <2>1. ASSUME NEW i \in B PROVE m + i \in C
    <3>1. m + i \in 1..Len(a \o b) /\ m + i \notin 1..m /\ (a \o b)[m + i] = x
      BY <1>1, <1>3 DEF Places
    <3> QED BY <1>3, <3>1 DEF Places
  <2>2. ASSUME NEW j \in C PROVE \E i \in B : m + i = j
    <3>1. j \in 1..(m + Len(b)) /\ (a \o b)[j] = x /\ ~(j \in 1..m /\ a[j] = x)
      BY <1>1 DEF Places
    <3>2. j - m \in 1..Len(b)
      BY <1>1, <3>1
    <3>3. m + (j - m) = j /\ b[j - m] = x
      BY <1>1, <3>1, <3>2
    <3> QED BY <3>2, <3>3 DEF Places
  <2>3. f \in [B -> C]
    BY <2>1
  <2>4. \A i, j \in B : f[i] = f[j] => i = j
    BY <1>1, <1>3
  <2>5. \A j \in C : \E i \in B : f[i] = j
    BY <2>2
  <2> HIDE DEF f, B, C
  <2> QED BY <2>3, <2>4, <2>5, Fun_IsBij
<1>5. IsFiniteSet(C) /\ Cardinality(C) = Cardinality(B)
  <2>1. ExistsBijection(B, C)
    BY <1>4 DEF ExistsBijection
  <2> HIDE DEF B, C
  <2> QED BY <1>2, <2>1, FS_Bijection
<1>6. Places(a \o b, x) = A \cup C /\ A \cap C = {}
  BY <1>3
<1> HIDE DEF A, B, C
<1>7. Cardinality(A \cup C) = Cardinality(A) + Cardinality(C) - Cardinality({})
  BY <1>2, <1>5, <1>6, FS_Union
<1>8. Cardinality({}) = 0 /\ Cardinality(A) \in Nat /\ Cardinality(B) \in Nat
  BY <1>2, FS_EmptySet, FS_CardinalityType
<1> QED BY <1>5, <1>6, <1>7, <1>8 DEF Count, A, B

LEMMA CountOne ==
  ASSUME NEW S, NEW y \in S, NEW x
  PROVE  /\ <<y>> \in Seq(S) /\ ToSet(<<y>>) = {y}
         /\ Count(<<y>>, x) = IF x = y THEN 1 ELSE 0
<1>1. <<y>> \in Seq(S) /\ Len(<<y>>) = 1 /\ <<y>>[1] = y
  OBVIOUS
<1>2. ToSet(<<y>>) = {y}
  BY DEF ToSet
<1>3. Places(<<y>>, x) = IF x = y THEN {1} ELSE {}
  BY <1>1 DEF Places
<1>4. Cardinality({1}) = 1 /\ Cardinality({}) = 0
  BY FS_Singleton, FS_EmptySet
<1> QED BY <1>1, <1>2, <1>3, <1>4 DEF Count

\* An event that goes between two sequences.
LEMMA Inserted ==
  ASSUME NEW S, NEW a \in Seq(S), NEW b \in Seq(S), NEW y \in S
  PROVE  /\ Append(a, y) \o b \in Seq(S)
         /\ ToSet(Append(a, y) \o b) = ToSet(a \o b) \cup {y}
         /\ \A x : Count(Append(a, y) \o b, x) = Count(a \o b, x) + (IF x = y THEN 1 ELSE 0)
<1>1. <<y>> \in Seq(S) /\ Append(a, y) = a \o <<y>> /\ Append(a, y) \in Seq(S)
  BY AppendIsConcat, AppendProperties
<1>2. ToSet(<<y>>) = {y} /\ \A x : Count(<<y>>, x) = IF x = y THEN 1 ELSE 0
  BY CountOne
<1>3. /\ Append(a, y) \o b \in Seq(S)
      /\ ToSet(Append(a, y) \o b) = ToSet(a \o b) \cup {y}
  <2>1. ASSUME NEW c \in Seq(S) PROVE c \o b \in Seq(S) /\ ToSet(c \o b) = ToSet(c) \cup ToSet(b)
    BY Concatenation
  <2>2. ToSet(a \o <<y>>) = ToSet(a) \cup ToSet(<<y>>)
    BY <1>1, Concatenation
  <2>3. ToSet(a \o b) = ToSet(a) \cup ToSet(b)
    BY Concatenation
  <2> QED BY <1>1, <1>2, <2>1, <2>2, <2>3
<1>4. ASSUME NEW x PROVE Count(Append(a, y) \o b, x) = Count(a \o b, x) + (IF x = y THEN 1 ELSE 0)
  <2>1. Count(Append(a, y) \o b, x) = Count(Append(a, y), x) + Count(b, x)
    BY <1>1, CountConcatenation
  <2>2. Count(a \o <<y>>, x) = Count(a, x) + Count(<<y>>, x)
    BY <1>1, CountConcatenation
  <2>3. Count(a \o b, x) = Count(a, x) + Count(b, x)
    BY CountConcatenation
  <2>4. Count(a, x) \in Nat /\ Count(b, x) \in Nat
    BY PlacesAreFinite
  <2>5. Count(Append(a, y), x) = Count(a, x) + (IF x = y THEN 1 ELSE 0)
    BY <1>1, <1>2, <2>2
  <2> QED BY <2>1, <2>3, <2>4, <2>5
<1> QED BY <1>3, <1>4

\* It does not disturb the order of others ...
LEMMA RisingInserted ==
  ASSUME NEW a \in Seq(Event), NEW b \in Seq(Event), NEW y \in Event, NEW es, y \notin es,
         Rising(a \o b, es)
  PROVE  Rising(Append(a, y) \o b, es)
<1> DEFINE m == Len(a)
           q == Append(a, y) \o b
           Before(i) == IF i <= m THEN i ELSE i - 1
<1>1. /\ m \in Nat /\ Len(b) \in Nat /\ Len(a \o b) = m + Len(b)
      /\ \A i \in 1..m : (a \o b)[i] = a[i]
      /\ \A i \in 1..Len(b) : (a \o b)[m + i] = b[i]
  BY Concatenation
<1>2. /\ Append(a, y) \in Seq(Event) /\ Len(Append(a, y)) = m + 1
      /\ \A i \in 1..m : Append(a, y)[i] = a[i]
      /\ Append(a, y)[m + 1] = y
  BY AppendProperties
<1>3. /\ Len(q) = m + 1 + Len(b)
      /\ \A i \in 1..(m + 1) : q[i] = Append(a, y)[i]
      /\ \A i \in 1..Len(b) : q[m + 1 + i] = b[i]
  BY <1>2, Concatenation
<1> HIDE DEF q
<1>4. ASSUME NEW i \in 1..Len(q), q[i] \in es
      PROVE  i # m + 1 /\ Before(i) \in 1..Len(a \o b) /\ q[i] = (a \o b)[Before(i)]
  <2>1. i # m + 1
    BY <1>1, <1>2, <1>3, <1>4
  <2>2. CASE i <= m
    BY <1>1, <1>2, <1>3, <2>2
  <2>3. CASE i > m + 1
    <3>1. i - (m + 1) \in 1..Len(b) /\ m + 1 + (i - (m + 1)) = i /\ m + (i - (m + 1)) = i - 1
      BY <1>1, <1>3, <2>3
    <3>2. q[i] = b[i - (m + 1)] /\ (a \o b)[i - 1] = b[i - (m + 1)]
      BY <1>1, <1>3, <3>1
    <3> QED BY <1>1, <1>3, <2>3, <3>2
  <2> QED BY <1>1, <1>3, <2>1, <2>2, <2>3
<1>5. ASSUME NEW i \in 1..Len(q), NEW j \in 1..Len(q), i < j, q[i] \in es, q[j] \in es
      PROVE  q[i][2] < q[j][2]
  <2>1. Before(i) < Before(j)
    BY <1>1, <1>3, <1>4, <1>5
  <2> QED BY <1>4, <1>5, <2>1 DEF Rising
<1> QED BY <1>5 DEF Rising, q

\* ... nor at the end, unless it is of a lower offset than one before it.
LEMMA RisingAppended ==
  ASSUME NEW a \in Seq(Event), NEW y \in Event, NEW es, Rising(a, es),
         y \in es => \A e \in ToSet(a) \cap es : e[2] < y[2]
  PROVE  Rising(Append(a, y), es)
<1>1. /\ Len(a) \in Nat /\ Len(Append(a, y)) = Len(a) + 1
      /\ \A i \in 1..Len(a) : Append(a, y)[i] = a[i]
      /\ Append(a, y)[Len(a) + 1] = y
  BY AppendProperties, LenProperties
<1>2. \A i \in 1..Len(a) : a[i] \in ToSet(a)
  BY LenProperties DEF ToSet
<1> QED BY <1>1, <1>2 DEF Rising

LEMMA CountNone ==
  ASSUME NEW S, NEW q \in Seq(S), NEW x, x \notin ToSet(q)
  PROVE  Count(q, x) = 0
<1>1. Places(q, x) = {}
  BY LenProperties DEF Places, ToSet
<1> QED BY <1>1, FS_EmptySet DEF Count

\* Only one of two sequences has events of the set.
LEMMA RisingConcatenation ==
  ASSUME NEW a \in Seq(Event), NEW b \in Seq(Event), NEW es, Rising(a, es), Rising(b, es),
         ToSet(a) \cap es = {} \/ ToSet(b) \cap es = {}
  PROVE  Rising(a \o b, es)
<1> DEFINE m == Len(a)
<1>1. PICK q : q = a \o b
  OBVIOUS
<1>2. /\ m \in Nat /\ Len(b) \in Nat /\ Len(q) = m + Len(b)
      /\ \A i \in 1..m : q[i] = a[i]
      /\ \A i \in 1..Len(b) : q[m + i] = b[i]
  BY <1>1, Concatenation
<1>3. ASSUME NEW i \in 1..Len(q), ~(i <= m) PROVE i - m \in 1..Len(b) /\ q[i] = b[i - m]
  <2>1. i - m \in 1..Len(b) /\ m + (i - m) = i
    BY <1>2, <1>3
  <2> QED BY <1>2, <2>1
<1>4. (\A i \in 1..m : a[i] \in ToSet(a)) /\ \A i \in 1..Len(b) : b[i] \in ToSet(b)
  BY LenProperties DEF ToSet
<1>5. CASE ToSet(a) \cap es = {}
  <2>1. ASSUME NEW i \in 1..Len(q), NEW j \in 1..Len(q), i < j, q[i] \in es, q[j] \in es
        PROVE  q[i][2] < q[j][2]
    <3>1. ~(i <= m) /\ ~(j <= m)
      BY <1>2, <1>4, <1>5, <2>1
    <3>2. i - m \in 1..Len(b) /\ j - m \in 1..Len(b) /\ i - m < j - m
      BY <1>2, <1>3, <2>1, <3>1
    <3> QED BY <1>3, <2>1, <3>1, <3>2 DEF Rising
  <2> QED BY <1>1, <2>1 DEF Rising
<1>6. CASE ToSet(b) \cap es = {}
  <2>1. ASSUME NEW i \in 1..Len(q), NEW j \in 1..Len(q), i < j, q[i] \in es, q[j] \in es
        PROVE  q[i][2] < q[j][2]
    <3>1. i <= m /\ j <= m
      BY <1>3, <1>4, <1>6, <2>1
    <3>2. i \in 1..m /\ j \in 1..m
      BY <1>2, <3>1
    <3> QED BY <1>2, <2>1, <3>2 DEF Rising
  <2> QED BY <1>1, <2>1 DEF Rising
<1> QED BY <1>5, <1>6

----------------------------------------------------------------------------
(* Induction, from the well-foundedness of the natural numbers.             *)
LEMMA LeastElement ==
  ASSUME NEW T, T \subseteq Nat, T # {}
  PROVE  \E m \in T : \A k \in T : m <= k
<1>1. PICK R : IsWellFoundedOn(R, Nat) /\ \A m, k \in Nat : k < m => <<k, m>> \in R
  <2>1. IsWellFoundedOn(OpToRel(<, Nat), Nat)
    BY NatLessThanWellFounded
  <2>2. \A m, k \in Nat : k < m => <<k, m>> \in OpToRel(<, Nat)
    BY DEF OpToRel
  <2> QED BY <2>1, <2>2
<1>2. PICK m \in T : \A k \in T : ~ (<<k, m>> \in R)
  BY <1>1, WFMin
<1>3. ASSUME NEW k \in T PROVE m <= k
  <2>1. m \in Nat /\ k \in Nat
    OBVIOUS
  <2>2. ~ (k < m)
    BY <1>1, <1>2, <2>1
  <2> QED BY <2>1, <2>2
<1> QED BY <1>2, <1>3

LEMMA Induction ==
  ASSUME NEW T, 0 \in T, \A n \in Nat : n \in T => n + 1 \in T
  PROVE  \A n \in Nat : n \in T
<1> SUFFICES ASSUME NEW n \in Nat, n \notin T PROVE FALSE
  OBVIOUS
<1> DEFINE U == {k \in Nat : k \notin T}
<1>1. U \subseteq Nat /\ U # {}
  OBVIOUS
<1> HIDE DEF U
<1>2. PICK m \in U : \A k \in U : m <= k
  BY <1>1, LeastElement
<1> USE DEF U
<1>3. m # 0 /\ m - 1 \in Nat
  BY <1>2
<1>4. m - 1 \in T
  BY <1>2, <1>3
<1> QED BY <1>2, <1>3, <1>4

\* The recursive function inside FlattenSeq exists: every prefix of it does.
LEMMA FlattenPrefix ==
  ASSUME NEW S, NEW seqs \in Seq(Seq(S))
  PROVE  \E f \in [1..Len(seqs) -> Seq(S)] :
           \A i \in 1..Len(seqs) : f[i] = IF i = 1 THEN seqs[i] ELSE f[i - 1] \o seqs[i]
<1> DEFINE n == Len(seqs)
           Is(f, m) == \A i \in 1..m : f[i] = IF i = 1 THEN seqs[i] ELSE f[i - 1] \o seqs[i]
           Has(m) == \E f \in [1..m -> Seq(S)] : Is(f, m)
           T == {m \in Nat : m <= n => Has(m)}
<1>1. n \in Nat /\ \A i \in 1..n : seqs[i] \in Seq(S)
  BY LenProperties
<1>2. 0 \in T
  <2>1. Is([i \in 1..0 |-> <<>>], 0) /\ [i \in 1..0 |-> <<>>] \in [1..0 -> Seq(S)]
    OBVIOUS
  <2> QED BY <2>1
<1>3. ASSUME NEW m \in Nat, m \in T PROVE m + 1 \in T
  <2> SUFFICES ASSUME m + 1 <= n PROVE Has(m + 1)
    <3> HIDE DEF Has
    <3> QED OBVIOUS
  <2>0. Has(m)
    <3> HIDE DEF Has
    <3> QED BY <1>1, <1>3
  <2>1. PICK f \in [1..m -> Seq(S)] : Is(f, m)
    BY <2>0
  <2>2. PICK last \in Seq(S) : last = IF m = 0 THEN seqs[1] ELSE f[m] \o seqs[m + 1]
    <3>1. CASE m = 0
      BY <1>1, <3>1
    <3>2. CASE m # 0
      <4>1. f[m] \in Seq(S) /\ seqs[m + 1] \in Seq(S)
        BY <1>1, <3>2
      <4> QED BY <3>2, <4>1, ConcatProperties
    <3> QED BY <3>1, <3>2
  <2> DEFINE g == [i \in 1..(m + 1) |-> IF i = m + 1 THEN last ELSE f[i]]
  <2>3. g \in [1..(m + 1) -> Seq(S)]
    OBVIOUS
  <2>4. ASSUME NEW i \in 1..(m + 1) PROVE g[i] = IF i = 1 THEN seqs[i] ELSE g[i - 1] \o seqs[i]
    <3>1. CASE i = m + 1
      <4>1. g[i] = last /\ (m # 0 => g[m] = f[m])
        BY <3>1
      <4> QED BY <2>2, <3>1, <4>1
    <3>2. CASE i # m + 1
      <4>1. i \in 1..m /\ g[i] = f[i] /\ (i # 1 => g[i - 1] = f[i - 1])
        BY <3>2
      <4> QED BY <2>1, <4>1
    <3> QED BY <3>1, <3>2
  <2> HIDE DEF g
  <2> QED BY <2>3, <2>4
<1> HIDE DEF T
<1>4. n \in T
  BY <1>1, <1>2, <1>3, Induction
<1> QED BY <1>1, <1>4 DEF T

\* A flattened sequence is the last of its growing prefixes.
LEMMA Flattening ==
  ASSUME NEW S, NEW seqs \in Seq(Seq(S))
  PROVE  \E g \in [0..Len(seqs) -> Seq(S)] :
           /\ g[0] = <<>>
           /\ \A i \in 1..Len(seqs) : g[i] = g[i - 1] \o seqs[i]
           /\ FlattenSeq(seqs) = g[Len(seqs)]
<1> DEFINE n == Len(seqs)
           Body(f) == [i \in 1..n |-> IF i = 1 THEN seqs[i] ELSE f[i - 1] \o seqs[i]]
<1>1. n \in Nat /\ \A i \in 1..n : seqs[i] \in Seq(S)
  BY LenProperties
<1>2. CASE n = 0
  <2>1. FlattenSeq(seqs) = <<>>
    BY <1>2, LenProperties, EmptySeq DEF FlattenSeq
  <2> DEFINE g == [i \in 0..0 |-> <<>>]
  <2>2. g \in [0..n -> Seq(S)] /\ g[0] = <<>> /\ 1..n = {}
    BY <1>2, EmptySeq
  <2> HIDE DEF g
  <2> QED BY <1>2, <2>1, <2>2
<1>3. CASE n # 0
  <2>1. PICK f : f = CHOOSE h : h = Body(h)
    OBVIOUS
  <2>2. \E h : h = Body(h)
    <3>1. PICK h \in [1..n -> Seq(S)] :
            \A i \in 1..n : h[i] = IF i = 1 THEN seqs[i] ELSE h[i - 1] \o seqs[i]
      BY FlattenPrefix
    <3> QED BY <3>1
  <2>3. f = Body(f)
    BY <2>1, <2>2
  <2>4. \A i \in 1..n : f[i] = IF i = 1 THEN seqs[i] ELSE f[i - 1] \o seqs[i]
    BY <2>3
  <2>5. FlattenSeq(seqs) = f[n]
    BY <1>1, <1>3, <2>1 DEF FlattenSeq
  <2> HIDE DEF Body
  <2> DEFINE T == {m \in Nat : m \in 1..n => f[m] \in Seq(S)}
  <2>6. 0 \in T
    OBVIOUS
  <2>7. ASSUME NEW m \in Nat, m \in T PROVE m + 1 \in T
    <3> SUFFICES ASSUME m + 1 \in 1..n PROVE f[m + 1] \in Seq(S)
      OBVIOUS
    <3>1. CASE m = 0
      BY <1>1, <2>4, <3>1
    <3>2. CASE m # 0
      <4>1. f[m] \in Seq(S) /\ seqs[m + 1] \in Seq(S)
        BY <1>1, <2>7, <3>2
      <4>2. f[m + 1] = f[m] \o seqs[m + 1]
        <5>1. m + 1 # 1 /\ (m + 1) - 1 = m
          BY <3>2
        <5> QED BY <2>4, <5>1
      <4> QED BY <4>1, <4>2, ConcatProperties
    <3> QED BY <3>1, <3>2
  <2>8. \A m \in Nat : m \in T
    <3> HIDE DEF T
    <3> QED BY <2>6, <2>7, Induction
  <2>9. \A i \in 1..n : f[i] \in Seq(S)
    BY <2>8
  <2> DEFINE g == [i \in 0..n |-> IF i = 0 THEN <<>> ELSE f[i]]
  <2>10. g \in [0..n -> Seq(S)] /\ g[0] = <<>> /\ g[n] = f[n]
    BY <1>1, <1>3, <2>9, EmptySeq
  <2>11. ASSUME NEW i \in 1..n PROVE g[i] = g[i - 1] \o seqs[i]
    <3>1. CASE i = 1
      <4>1. g[1] = seqs[1] /\ g[0] = <<>> /\ seqs[1] \in Seq(S)
        BY <1>1, <2>4, <3>1
      <4>2. <<>> \o seqs[1] = seqs[1]
        BY <4>1, ConcatEmptySeq
      <4>3. 1 - 1 = 0
        OBVIOUS
      <4> HIDE DEF g
      <4> QED BY <3>1, <4>1, <4>2, <4>3
    <3>2. CASE i # 1
      <4>1. g[i] = f[i] /\ g[i - 1] = f[i - 1]
        BY <1>1, <3>2
      <4> QED BY <2>4, <3>2, <4>1
    <3> QED BY <3>1, <3>2
  <2> HIDE DEF g
  <2> QED BY <2>5, <2>10, <2>11
<1> QED BY <1>1, <1>2, <1>3

----------------------------------------------------------------------------
(* The backlog of a subscription: the replays of its topics, one after the  *)
(* other.                                                                   *)

\* Events of a topic.
Of(t) == {e \in Event : e[1] = t}

\* A stretch has each of its events once, and in order.
LEMMA StretchRises ==
  ASSUME NEW t \in Topics, NEW first \in Nat, NEW n \in Nat, first <= n,
         NEW q, q = Stretch(t, first, n)
  PROVE  /\ q \in Seq(Event)
         /\ ToSet(q) = {<<t, k>> : k \in first..(n - 1)}
         /\ \A e : Count(q, e) <= 1
         /\ \A es : Rising(q, es)
<1>1. n - first \in Nat /\ \A k \in 1..(n - first) : first + k - 1 \in Nat
  OBVIOUS
<1>2. q = [k \in 1..(n - first) |-> <<t, first + k - 1>>]
  BY DEF Stretch
<1>3. \A k \in 1..(n - first) : q[k] \in Event
  BY <1>1, <1>2 DEF Event
<1>4. q \in Seq(Event)
  <2>1. q \in [1..(n - first) -> Event]
    BY <1>2, <1>3
  <2> QED BY <1>1, <2>1, SeqDef
<1>5. Len(q) = n - first /\ DOMAIN q = 1..(n - first)
  BY <1>1, <1>2, <1>4, LenProperties
<1>6. ToSet(q) = {<<t, k>> : k \in first..(n - 1)}
  <2>1. ASSUME NEW e \in ToSet(q) PROVE e \in {<<t, k>> : k \in first..(n - 1)}
    <3>1. PICK i \in 1..(n - first) : e = q[i]
      BY <1>5 DEF ToSet
    <3>2. first + i - 1 \in first..(n - 1)
      OBVIOUS
    <3> QED BY <1>2, <3>1, <3>2
  <2>2. ASSUME NEW k \in first..(n - 1) PROVE <<t, k>> \in ToSet(q)
    <3>1. k - first + 1 \in 1..(n - first) /\ first + (k - first + 1) - 1 = k
      OBVIOUS
    <3>2. q[k - first + 1] = <<t, k>>
      BY <1>2, <3>1
    <3> QED BY <1>5, <3>1, <3>2 DEF ToSet
  <2> QED BY <2>1, <2>2
<1>7. ASSUME NEW e PROVE Count(q, e) <= 1
  <2>1. ASSUME NEW i \in Places(q, e), NEW j \in Places(q, e) PROVE i = j
    <3>1. i \in 1..(n - first) /\ j \in 1..(n - first) /\ q[i] = q[j]
      BY <1>5, <2>1 DEF Places
    <3>2. <<t, first + i - 1>> = <<t, first + j - 1>>
      BY <1>2, <3>1
    <3> QED BY <3>1, <3>2
  <2>2. CASE Places(q, e) = {}
    BY <2>2, FS_EmptySet DEF Count
  <2>3. CASE Places(q, e) # {}
    <3>1. PICK i : Places(q, e) = {i}
      BY <2>1, <2>3
    <3>2. Cardinality({i}) = 1
      BY FS_Singleton
    <3> QED BY <3>1, <3>2 DEF Count
  <2> QED BY <2>2, <2>3
<1>8. ASSUME NEW es PROVE Rising(q, es)
  BY <1>2, <1>5 DEF Rising
<1> QED BY <1>4, <1>6, <1>7, <1>8

\* What an intact ring replays from an offset on.
LEMMA ReplayGives ==
  ASSUME RingInv, NEW t \in Topics, NEW from \in Nat, NEW q, q = Replay(ring[t], from)
  PROVE  /\ q \in Seq(Event)
         /\ ToSet(q) = {e \in Of(t) : /\ e[2] < ring[t].nextID /\ e[2] >= from
                                      /\ e[2] + BufferSize >= ring[t].nextID}
         /\ \A e : Count(q, e) <= 1
         /\ \A es : Rising(q, es)
<1> DEFINE n == ring[t].nextID
           first == Larger(from, n - Lesser(n, BufferSize))
<1>1. BufferSize \in Nat \ {0} /\ n \in Nat
  BY StoreAssumption DEF RingInv, Ring
<1>2. q = IF first >= n THEN <<>> ELSE Stretch(t, first, n)
  BY RingGivesTail
<1>3. first \in Nat /\ first >= from /\ \A k \in Nat : k >= from /\ k + BufferSize >= n <=> k >= first
  BY <1>1 DEF Larger, Lesser
<1>4. CASE first >= n
  <2>1. q = Stretch(t, n, n)
    <3>1. 1..(n - n) = {}
      BY <1>1
    <3> QED BY <1>2, <1>4, <3>1 DEF Stretch
  <2>2. /\ q \in Seq(Event) /\ (\A e : Count(q, e) <= 1) /\ \A es : Rising(q, es)
        /\ ToSet(q) = {<<t, k>> : k \in n..(n - 1)}
    <3> HIDE DEF n
    <3>1. n <= n
      BY <1>1
    <3> QED BY <1>1, <2>1, <3>1, StretchRises
  <2>3. ~ \E e \in Of(t) : e[2] < n /\ e[2] >= from /\ e[2] + BufferSize >= n
    BY <1>1, <1>3, <1>4 DEF Of, Event
  <2>4. n..(n - 1) = {}
    BY <1>1
  <2> QED BY <2>2, <2>3, <2>4
<1>5. CASE ~(first >= n)
  <2>1. q = Stretch(t, first, n) /\ first <= n
    BY <1>1, <1>2, <1>3, <1>5
  <2>2. /\ q \in Seq(Event) /\ (\A e : Count(q, e) <= 1) /\ \A es : Rising(q, es)
        /\ ToSet(q) = {<<t, k>> : k \in first..(n - 1)}
    BY <1>1, <1>3, <2>1, StretchRises
  <2>3. ASSUME NEW e
        PROVE  e \in {<<t, k>> : k \in first..(n - 1)} <=>
               e \in Of(t) /\ e[2] < n /\ e[2] >= from /\ e[2] + BufferSize >= n
    <3>1. ASSUME NEW k \in first..(n - 1), e = <<t, k>>
          PROVE  e \in Of(t) /\ e[2] < n /\ e[2] >= from /\ e[2] + BufferSize >= n
      <4>1. k \in Nat /\ k < n /\ k >= first
        BY <1>1, <1>3
      <4> QED BY <1>3, <3>1, <4>1 DEF Of, Event
    <3>2. ASSUME e \in Of(t), e[2] < n, e[2] >= from, e[2] + BufferSize >= n
          PROVE  e \in {<<t, k>> : k \in first..(n - 1)}
      <4>1. e = <<t, e[2]>> /\ e[2] \in Nat
        BY <3>2 DEF Of, Event
      <4>2. e[2] \in first..(n - 1)
        BY <1>1, <1>3, <3>2, <4>1
      <4> QED BY <4>1, <4>2
    <3> QED BY <3>1, <3>2
  <2> QED BY <2>2, <2>3
<1> QED BY <1>4, <1>5

\* Parts put together one after the other, the k-th of events of topics[k].
LEMMA PartsTogether ==
  ASSUME NEW topics \in Seq(Topics), NEW parts \in Seq(Seq(Event)), Len(parts) = Len(topics),
         \A k \in 1..Len(topics) :
           /\ ToSet(parts[k]) \subseteq Of(topics[k])
           /\ \A e : Count(parts[k], e) <= 1
           /\ \A es : Rising(parts[k], es),
         NEW q, q = FlattenSeq(parts)
  PROVE  /\ q \in Seq(Event)
         /\ ToSet(q) = UNION {ToSet(parts[k]) : k \in 1..Len(topics)}
         /\ \A e \in Event : Count(q, e) <= Count(topics, e[1])
         /\ \A t \in Topics : Count(topics, t) = 1 => Rising(q, Of(t))
<1> DEFINE n == Len(topics)
<1>1. n \in Nat /\ \A k \in 1..n : topics[k] \in Topics /\ parts[k] \in Seq(Event)
  BY LenProperties
<1>2. PICK g \in [0..n -> Seq(Event)] :
        g[0] = <<>> /\ (\A k \in 1..n : g[k] = g[k - 1] \o parts[k]) /\ q = g[n]
  <2>1. \E g \in [0..Len(parts) -> Seq(Event)] :
          /\ g[0] = <<>>
          /\ \A k \in 1..Len(parts) : g[k] = g[k - 1] \o parts[k]
          /\ FlattenSeq(parts) = g[Len(parts)]
    BY Flattening
  <2> QED BY <2>1
<1> DEFINE Upto(m, t) == {k \in 1..m : topics[k] = t}
           All(m) == ToSet(g[m]) = UNION {ToSet(parts[k]) : k \in 1..m}
           Counted(m) == \A e \in Event : Count(g[m], e) <= Cardinality(Upto(m, e[1]))
           Ordered(m) == \A t \in Topics : Cardinality(Upto(m, t)) <= 1 => Rising(g[m], Of(t))
           T == {m \in Nat : m <= n => All(m) /\ Counted(m) /\ Ordered(m)}
<1>3. \A m \in Nat, t \in Topics : IsFiniteSet(Upto(m, t)) /\ Cardinality(Upto(m, t)) \in Nat
  <2> SUFFICES ASSUME NEW m \in Nat, NEW t \in Topics
               PROVE  IsFiniteSet(Upto(m, t)) /\ Cardinality(Upto(m, t)) \in Nat
    OBVIOUS
  <2>1. IsFiniteSet(1..m)
    BY FS_Interval
  <2>2. IsFiniteSet(Upto(m, t))
    <3>1. Upto(m, t) \in SUBSET (1..m)
      OBVIOUS
    <3> QED BY <2>1, <3>1, FS_Subset
  <2> QED BY <2>2, FS_CardinalityType
<1>4. 0 \in T
  <2>1. g[0] = <<>> /\ Len(<<>>) = 0 /\ 1..0 = {} /\ <<>> \in Seq(Event) /\ ToSet(<<>>) = {}
    BY <1>2 DEF ToSet
  <2>2. All(0)
    BY <2>1
  <2>3. Counted(0)
    <3>1. \A e : Count(<<>>, e) = 0
      BY <2>1, CountNone
    <3>2. \A e : Upto(0, e[1]) = {}
      BY <2>1
    <3> QED BY <2>1, <3>1, <3>2, FS_EmptySet
  <2>4. Ordered(0)
    BY <2>1 DEF Rising
  <2> QED BY <2>2, <2>3, <2>4
<1>5. ASSUME NEW m \in Nat, m \in T PROVE m + 1 \in T
  <2> SUFFICES ASSUME m + 1 <= n PROVE All(m + 1) /\ Counted(m + 1) /\ Ordered(m + 1)
    <3> HIDE DEF All, Counted, Ordered
    <3> QED OBVIOUS
  <2>0. All(m) /\ Counted(m) /\ Ordered(m)
    <3> HIDE DEF All, Counted, Ordered
    <3> QED BY <1>1, <1>5
  <2>1. PICK a, b, u : a = g[m] /\ b = parts[m + 1] /\ u = topics[m + 1]
    OBVIOUS
  <2>2. /\ a \in Seq(Event) /\ b \in Seq(Event) /\ u \in Topics /\ g[m + 1] = a \o b
    <3>1. m \in 0..n /\ m + 1 \in 1..n /\ (m + 1) - 1 = m
      BY <1>1
    <3> QED BY <1>1, <1>2, <2>1, <3>1
  <2>3. ToSet(b) \subseteq Of(u) /\ (\A e : Count(b, e) <= 1) /\ \A es : Rising(b, es)
    <3>1. m + 1 \in 1..n
      BY <1>1
    <3> QED BY <2>1, <3>1
  <2>4. 1..(m + 1) = (1..m) \cup {m + 1}
    OBVIOUS
  <2>5. \A t \in Topics : Upto(m + 1, t) = IF t = u THEN Upto(m, t) \cup {m + 1} ELSE Upto(m, t)
    BY <2>1, <2>4
  <2>6. Cardinality(Upto(m + 1, u)) = Cardinality(Upto(m, u)) + 1
    <3>1. m + 1 \notin Upto(m, u)
      OBVIOUS
    <3>2. Upto(m + 1, u) = Upto(m, u) \cup {m + 1}
      BY <2>2, <2>5
    <3> HIDE DEF Upto
    <3>3. IsFiniteSet(Upto(m, u))
      BY <1>3, <2>2
    <3> QED BY <3>1, <3>2, <3>3, FS_AddElement
  <2>7. All(m + 1)
    <3>1. ToSet(a \o b) = ToSet(a) \cup ToSet(b)
      BY <2>2, Concatenation
    <3> QED BY <2>0, <2>1, <2>2, <2>4, <3>1
  <2>8. Counted(m + 1)
    <3> SUFFICES ASSUME NEW e \in Event PROVE Count(g[m + 1], e) <= Cardinality(Upto(m + 1, e[1]))
      OBVIOUS
    <3>1. Count(g[m + 1], e) = Count(a, e) + Count(b, e) /\ Count(a, e) \in Nat /\ Count(b, e) \in Nat
      BY <2>2, CountConcatenation, PlacesAreFinite
    <3>2. Count(a, e) <= Cardinality(Upto(m, e[1])) /\ e[1] \in Topics
      BY <2>0, <2>1 DEF Event
    <3>3. PICK c \in Nat : c = Cardinality(Upto(m, e[1]))
      BY <1>3, <3>2
    <3>4. CASE e[1] = u
      <4>1. Cardinality(Upto(m + 1, e[1])) = c + 1 /\ Count(b, e) <= 1 /\ Count(a, e) <= c
        BY <2>3, <2>6, <3>2, <3>3, <3>4
      <4> HIDE DEF Upto
      <4> QED BY <3>1, <4>1
    <3>5. CASE e[1] # u
      <4>1. Count(b, e) = 0
        BY <2>2, <2>3, <3>5, CountNone DEF Of
      <4>2. Upto(m + 1, e[1]) = Upto(m, e[1])
        BY <2>5, <3>2, <3>5
      <4> HIDE DEF Upto
      <4> QED BY <3>1, <3>2, <3>3, <4>1, <4>2
    <3> QED BY <3>4, <3>5
  <2>9. Ordered(m + 1)
    <3> SUFFICES ASSUME NEW t \in Topics, Cardinality(Upto(m + 1, t)) <= 1
                 PROVE  Rising(g[m + 1], Of(t))
      OBVIOUS
    <3>1. CASE t = u
      <4>1. Cardinality(Upto(m, t)) = 0 /\ Upto(m, t) = {}
        <5>1. PICK c \in Nat : c = Cardinality(Upto(m, t))
          BY <1>3
        <5>2. c = 0
          BY <2>6, <3>1, <5>1
        <5> QED BY <1>3, <5>1, <5>2, FS_EmptySet
      <4>2. ToSet(a) \cap Of(t) = {}
        <5> SUFFICES ASSUME NEW e \in ToSet(a), e \in Of(t) PROVE FALSE
          OBVIOUS
        <5>1. PICK k \in 1..m : e \in ToSet(parts[k])
          BY <2>0, <2>1
        <5>2. k \in 1..n
          BY <1>1
        <5>3. topics[k] = t
          BY <5>1, <5>2 DEF Of
        <5> QED BY <4>1, <5>3
      <4>3. Rising(a, Of(t))
        <5>1. Cardinality(Upto(m, t)) <= 1
          BY <4>1
        <5> QED BY <2>0, <2>1, <5>1
      <4> QED BY <2>2, <2>3, <4>2, <4>3, RisingConcatenation
    <3>2. CASE t # u
      <4>1. Rising(a, Of(t))
        BY <2>0, <2>1, <2>5, <3>2
      <4>2. ToSet(b) \cap Of(t) = {}
        BY <2>3, <3>2 DEF Of
      <4> QED BY <2>2, <2>3, <4>1, <4>2, RisingConcatenation
    <3> QED BY <3>1, <3>2
  <2> QED BY <2>7, <2>8, <2>9
<1>6. n \in T
  <2> HIDE DEF T
  <2> QED BY <1>1, <1>4, <1>5, Induction
<1>7. All(n) /\ Counted(n) /\ Ordered(n)
  <2> HIDE DEF All, Counted, Ordered
  <2> QED BY <1>1, <1>6
<1>8. \A t : Upto(n, t) = Places(topics, t)
  BY DEF Places
<1>9. \A t \in Topics : Count(topics, t) = Cardinality(Upto(n, t))
  BY <1>8 DEF Count
<1>10. q \in Seq(Event)
  BY <1>1, <1>2
<1>11. \A e \in Event : Count(q, e) <= Count(topics, e[1])
  BY <1>2, <1>7, <1>9 DEF Event
<1>12. ASSUME NEW t \in Topics, Count(topics, t) = 1 PROVE Rising(q, Of(t))
  <2>1. Cardinality(Upto(n, t)) <= 1
    BY <1>9, <1>12
  <2> QED BY <1>2, <1>7, <2>1
<1> QED BY <1>2, <1>7, <1>10, <1>11, <1>12

----------------------------------------------------------------------------
(* The seam between a subscriber's replay and its live events.              *)

\* What is known of a subscriber at the seam: its replay is of events older than
\* its subscription, nothing it gets is still to be published, and a topic it
\* listens to has it.  NothingLost, AtMostOnce and InOrder are its part of the
\* three promises.
NothingLost(s) == ToSet(Coming(s)) \cup dropped[s] = Owed(s)
AtMostOnce(s) ==
  \A e \in ToSet(Coming(s)) :
    Count(Coming(s), e) <= IF e[2] < since[s][e[1]] THEN Listed(s, e[1]) ELSE 1
InOrder(s) ==
  \A t \in Topics : /\ Rising(Sent(s), Live(s, t))
                    /\ Listed(s, t) = 1 => Rising(Coming(s), Old(s, t))

AtTheSeam(s) ==
  /\ state[s] = "new" => ch[s] = <<>> /\ seen[s] = <<>> /\ replay[s] = <<>> /\ dropped[s] = {}
  /\ state[s] = "open" => \A t \in ToSet(req[s].topics) : s \in subs[t]
  /\ \A t \in Topics : since[s][t] <= ring[t].nextID
  /\ \A e \in ToSet(replay[s]) : e[2] < since[s][e[1]]
  /\ \A e \in ToSet(Coming(s)) : e[2] < ring[e[1]].nextID
  /\ state[s] = "open" => NothingLost(s)
  /\ AtMostOnce(s)
  /\ InOrder(s)

SeamTypes ==
  /\ ch \in [Subs -> Seq(Event)]
  /\ replay \in [Subs -> Seq(Event)]
  /\ seen \in [Subs -> Seq(Event)]
  /\ since \in [Subs -> [Topics -> Nat]]
  /\ dropped \in [Subs -> SUBSET Event]
  /\ \A t \in Topics : ring[t].nextID <= MaxEvents

SeamInv == RingInv /\ SubsInv /\ SeamTypes /\ \A s \in Subs : AtTheSeam(s)

\* A sequence is its head and its tail.
LEMMA HeadAndTail ==
  ASSUME NEW S, NEW b \in Seq(S), b # <<>>
  PROVE  \E h \in S, c \in Seq(S) : h = Head(b) /\ c = Tail(b) /\ b = <<h>> \o c
<1>1. PICK h \in S, c \in Seq(S) :
        /\ h = Head(b) /\ c = Tail(b)
        /\ Len(c) = Len(b) - 1 /\ \A i \in 1..Len(c) : c[i] = b[i + 1]
  <2>1. /\ Head(b) \in S /\ Tail(b) \in Seq(S) /\ Len(Tail(b)) = Len(b) - 1
        /\ \A i \in 1..Len(Tail(b)) : Tail(b)[i] = b[i + 1]
    BY HeadTailProperties
  <2>2. PICK h, c : h = Head(b) /\ c = Tail(b)
    OBVIOUS
  <2> QED BY <2>1, <2>2
<1>2. <<h>> \in Seq(S) /\ Len(<<h>>) = 1 /\ <<h>>[1] = h
  BY CountOne
<1>3. PICK d : d = <<h>> \o c
  OBVIOUS
<1>4. /\ d \in Seq(S) /\ Len(d) = 1 + Len(c) /\ d[1] = h
      /\ \A i \in 1..Len(c) : d[1 + i] = c[i]
  BY <1>2, <1>3, Concatenation
<1>5. Len(b) \in Nat /\ Len(b) # 0 /\ b[1] = h
  BY <1>1, LenProperties
<1>6. Len(d) = Len(b)
  BY <1>1, <1>4, <1>5
<1>7. ASSUME NEW i \in 1..Len(b) PROVE d[i] = b[i]
  <2>1. CASE i = 1
    BY <1>4, <1>5, <2>1
  <2>2. CASE i # 1
    <3>1. i - 1 \in 1..Len(c) /\ 1 + (i - 1) = i /\ (i - 1) + 1 = i
      BY <1>1, <1>5, <2>2
    <3> QED BY <1>1, <1>4, <3>1
  <2> QED BY <2>1, <2>2
<1>8. d = b
  BY <1>4, <1>6, <1>7, SeqEqual
<1> QED BY <1>1, <1>3, <1>8

\* The first of the second of two sequences goes to the end of the first.
LEMMA MovesOver ==
  ASSUME NEW S, NEW a \in Seq(S), NEW h \in S, NEW c \in Seq(S)
  PROVE  /\ Append(a, h) \o c = a \o (<<h>> \o c)
         /\ Append(a, h) \in Seq(S)
         /\ ToSet(<<h>> \o c) = {h} \cup ToSet(c)
<1>1. <<h>> \in Seq(S) /\ ToSet(<<h>>) = {h}
  BY CountOne
<1>2. Append(a, h) = a \o <<h>> /\ Append(a, h) \in Seq(S)
  BY AppendIsConcat, AppendProperties
<1>3. (a \o <<h>>) \o c = a \o (<<h>> \o c)
  BY <1>1, ConcatAssociative
<1>4. \A d \in Seq(S) : ToSet(d \o c) = ToSet(d) \cup ToSet(c)
  BY Concatenation
<1> QED BY <1>1, <1>2, <1>3, <1>4

LEMMA AppendAfter ==
  ASSUME NEW S, NEW a \in Seq(S), NEW b \in Seq(S), NEW y \in S
  PROVE  a \o Append(b, y) = Append(a \o b, y)
<1>1. <<y>> \in Seq(S) /\ a \o b \in Seq(S) /\ Append(b, y) = b \o <<y>>
  BY AppendIsConcat, ConcatProperties, CountOne
<1>2. Append(a \o b, y) = (a \o b) \o <<y>>
  BY <1>1, AppendIsConcat
<1> QED BY <1>1, <1>2, ConcatAssociative

\* What a request is owed, as Owed says it and without the bound on events.
OwedTo(r, from, q) ==
  {<<t, n>> : t \in ToSet(q.topics), n \in 0..MaxEvents} \cap
  {e \in Topics \X (0..MaxEvents) :
     /\ e[2] < r[e[1]].nextID
     /\ \/ e[2] >= from[e[1]]
        \/ q.from > 0 /\ e[2] >= q.from /\ e[2] + BufferSize >= from[e[1]]}

LEMMA OwedIs ==
  ASSUME NEW r, \A t \in Topics : r[t].nextID \in 0..MaxEvents,
         NEW from, \A t \in Topics : from[t] \in Nat, NEW q,
         ToSet(q.topics) \subseteq Topics
  PROVE  OwedTo(r, from, q)
         = {e \in Event :
              /\ e[1] \in ToSet(q.topics)
              /\ e[2] < r[e[1]].nextID
              /\ \/ e[2] >= from[e[1]]
                 \/ q.from > 0 /\ e[2] >= q.from /\ e[2] + BufferSize >= from[e[1]]}
<1>1. MaxEvents \in Nat
  BY StoreAssumption
<1>2. ASSUME NEW e \in Event, e[1] \in ToSet(q.topics), e[2] < r[e[1]].nextID
      PROVE  e = <<e[1], e[2]>> /\ e[2] \in 0..MaxEvents /\ e \in Topics \X (0..MaxEvents)
  BY <1>1, <1>2 DEF Event
<1>3. Topics \X (0..MaxEvents) \subseteq Event
  BY <1>1 DEF Event
<1>4. \A t, n : <<t, n>>[1] = t
  OBVIOUS
<1> QED BY <1>2, <1>3, <1>4 DEF OwedTo

\* A subscriber that a step leaves alone stays as it is.
LEMMA SeamFrame ==
  ASSUME NEW s \in Subs, AtTheSeam(s), UNCHANGED ring,
         state'[s] = state[s], req'[s] = req[s], ch'[s] = ch[s], seen'[s] = seen[s],
         replay'[s] = replay[s], since'[s] = since[s], dropped'[s] = dropped[s],
         \A t \in Topics : s \in subs[t] => s \in subs'[t],
         ToSet(req[s].topics) \subseteq Topics
  PROVE  AtTheSeam(s)'
<1>1. Sent(s)' = Sent(s) /\ Coming(s)' = Coming(s) /\ Owed(s)' = Owed(s)
  BY DEF Sent, Coming, Owed
<1>2. /\ \A t : Live(s, t)' = Live(s, t) /\ Old(s, t)' = Old(s, t)
      /\ \A t : Listed(s, t)' = Listed(s, t)
  BY DEF Live, Old, Listed
<1>3. NothingLost(s)' <=> NothingLost(s)
  BY <1>1 DEF NothingLost
<1>4. AtMostOnce(s)'
  BY <1>1, <1>2 DEF AtTheSeam, AtMostOnce
<1>5. InOrder(s)'
  BY <1>1, <1>2 DEF AtTheSeam, InOrder
<1> QED BY <1>1, <1>3, <1>4, <1>5 DEF AtTheSeam

LEMMA RequestTypes ==
  ASSUME NEW q \in Requests \cup {EmptyRequest}
  PROVE  q.topics \in Seq(Topics) /\ q.from \in Nat /\ ToSet(q.topics) \subseteq Topics
<1>1. q.topics \in Seq(Topics) /\ q.from \in Nat
  <2>1. <<>> \in Seq(Topics) /\ EmptyRequest.topics = <<>> /\ EmptyRequest.from \in Nat
    BY EmptySeq DEF EmptyRequest
  <2>2. CASE q \in Requests
    <3>1. q \in [topics : Seq(Topics), from : Nat]
      BY <2>2, StoreAssumption
    <3> QED BY <3>1
  <2>3. CASE q = EmptyRequest
    BY <2>1, <2>3, Zenon
  <2> QED BY <2>2, <2>3
<1>2. \A i \in 1..Len(q.topics) : q.topics[i] \in Topics
  BY <1>1, LenProperties
<1>3. DOMAIN q.topics = 1..Len(q.topics)
  BY <1>1, LenProperties
<1> QED BY <1>1, <1>2, <1>3 DEF ToSet

LEMMA SeamStatesTypes ==
  ASSUME SeamTypes, NEW s \in Subs
  PROVE  /\ seen[s] \in Seq(Event) /\ ch[s] \in Seq(Event) /\ replay[s] \in Seq(Event)
         /\ Sent(s) \in Seq(Event) /\ Coming(s) \in Seq(Event)
<1>1. seen[s] \in Seq(Event) /\ ch[s] \in Seq(Event) /\ replay[s] \in Seq(Event)
  BY DEF SeamTypes
<1>2. Sent(s) \in Seq(Event)
  BY <1>1, ConcatProperties DEF Sent
<1> QED BY <1>1, <1>2, ConcatProperties DEF Coming

\* The goroutine and the loop only move events along.
LEMMA SeamSendReplay ==
  ASSUME SeamInv, NEW s \in Subs, SendReplay(s)
  PROVE  SeamTypes' /\ \A u \in Subs : AtTheSeam(u)'
<1>1. /\ replay[s] # <<>> /\ ch' = [ch EXCEPT ![s] = Append(@, Head(replay[s]))]
      /\ replay' = [replay EXCEPT ![s] = Tail(@)]
      /\ UNCHANGED <<ring, subs, state, req, crashed, since, seen, dropped>>
  BY DEF SendReplay
<1>2. SeamTypes /\ SubsInv /\ \A u \in Subs : AtTheSeam(u)
  BY DEF SeamInv
<1>3. /\ seen[s] \in Seq(Event) /\ ch[s] \in Seq(Event) /\ replay[s] \in Seq(Event)
      /\ Sent(s) \in Seq(Event) /\ Coming(s) \in Seq(Event)
  BY <1>2, SeamStatesTypes
<1>4. PICK h \in Event, rest \in Seq(Event) :
        h = Head(replay[s]) /\ rest = Tail(replay[s]) /\ replay[s] = <<h>> \o rest
  <2>1. replay[s] # <<>>
    BY <1>1
  <2> QED BY <1>3, <2>1, HeadAndTail
<1>5. /\ Append(Sent(s), h) \o rest = Coming(s) /\ h \in Event /\ rest \in Seq(Event)
      /\ h \in ToSet(replay[s]) /\ ToSet(rest) \subseteq ToSet(replay[s])
  <2>1. h \in Event /\ rest \in Seq(Event)
    BY <1>4
  <2>2. ASSUME NEW a \in Seq(Event), NEW x \in Event, NEW c \in Seq(Event)
        PROVE  /\ Append(a, x) \o c = a \o (<<x>> \o c)
               /\ ToSet(<<x>> \o c) = {x} \cup ToSet(c)
    BY MovesOver
  <2>3. /\ Append(Sent(s), h) \o rest = Sent(s) \o (<<h>> \o rest)
        /\ ToSet(<<h>> \o rest) = {h} \cup ToSet(rest)
    BY <1>3, <2>1, <2>2
  <2> QED BY <1>4, <2>3 DEF Coming
<1>6. Append(ch[s], h) \in Seq(Event)
  BY <1>3, <1>5, AppendProperties
<1>7. SeamTypes'
  BY <1>1, <1>2, <1>4, <1>5, <1>6 DEF SeamTypes
<1>8. ch'[s] = Append(ch[s], h) /\ replay'[s] = rest
  BY <1>1, <1>2, <1>4 DEF SeamTypes
<1>9. Sent(s)' = Append(Sent(s), h)
  <2>1. \A a, b \in Seq(Event), y \in Event : a \o Append(b, y) = Append(a \o b, y)
    BY AppendAfter
  <2>2. seen'[s] = seen[s]
    BY <1>1
  <2>3. seen[s] \o Append(ch[s], h) = Append(seen[s] \o ch[s], h)
    BY <1>3, <1>5, <2>1
  <2> QED BY <1>8, <2>2, <2>3, Zenon DEF Sent
<1>10. Coming(s)' = Coming(s)
  BY <1>5, <1>8, <1>9 DEF Coming
<1>11. /\ \A t : Live(s, t)' = Live(s, t) /\ Old(s, t)' = Old(s, t)
       /\ \A t : Listed(s, t)' = Listed(s, t)
       /\ Owed(s)' = Owed(s)
  BY <1>1 DEF Live, Old, Listed, Owed
<1>12. AtTheSeam(s)
  BY <1>2
<1>13. InOrder(s)'
  <2> SUFFICES ASSUME NEW t \in Topics
               PROVE  /\ Rising(Append(Sent(s), h), Live(s, t))
                      /\ Listed(s, t) = 1 => Rising(Coming(s), Old(s, t))
    BY <1>9, <1>10, <1>11 DEF InOrder
  <2>1. Rising(Sent(s), Live(s, t)) /\ (Listed(s, t) = 1 => Rising(Coming(s), Old(s, t)))
    BY <1>12 DEF AtTheSeam, InOrder
  <2>2. h \notin Live(s, t)
    <3>1. h[2] < since[s][h[1]] /\ h[1] \in Topics /\ h[2] \in Nat /\ since[s][h[1]] \in Nat
      BY <1>2, <1>5, <1>12 DEF AtTheSeam, SeamTypes, Event
    <3> QED BY <3>1 DEF Live
  <2> QED BY <1>3, <1>5, <2>1, <2>2, RisingAppended
<1>14. AtMostOnce(s)'
  BY <1>1, <1>10, <1>11, <1>12 DEF AtTheSeam, AtMostOnce
<1>15. NothingLost(s)' <=> NothingLost(s)
  BY <1>1, <1>10, <1>11 DEF NothingLost
<1>16. AtTheSeam(s)'
  <2>1. state[s] # "new"
    BY DEF SendReplay
  <2> QED BY <1>1, <1>5, <1>8, <1>10, <1>12, <1>13, <1>14, <1>15, <2>1 DEF AtTheSeam
<1>17. ASSUME NEW u \in Subs, u # s PROVE AtTheSeam(u)'
  <2>1. ch'[u] = ch[u] /\ replay'[u] = replay[u]
    BY <1>1, <1>17
  <2>2. ToSet(req[u].topics) \subseteq Topics
    BY <1>2, RequestTypes DEF SubsInv
  <2> QED BY <1>1, <1>2, <2>1, <2>2, SeamFrame
<1> QED BY <1>7, <1>16, <1>17

LEMMA SeamDeliver ==
  ASSUME SeamInv, NEW s \in Subs, Deliver(s)
  PROVE  SeamTypes' /\ \A u \in Subs : AtTheSeam(u)'
<1>1. /\ ch[s] # <<>> /\ seen' = [seen EXCEPT ![s] = Append(@, Head(ch[s]))]
      /\ ch' = [ch EXCEPT ![s] = Tail(@)]
      /\ UNCHANGED <<ring, subs, state, req, replay, crashed, since, dropped>>
  BY DEF Deliver
<1>2. SeamTypes /\ SubsInv /\ \A u \in Subs : AtTheSeam(u)
  BY DEF SeamInv
<1>3. seen[s] \in Seq(Event) /\ ch[s] \in Seq(Event)
  BY <1>2, SeamStatesTypes
<1>4. PICK h \in Event, rest \in Seq(Event) :
        h = Head(ch[s]) /\ rest = Tail(ch[s]) /\ ch[s] = <<h>> \o rest
  <2>1. ch[s] # <<>>
    BY <1>1
  <2> QED BY <1>3, <2>1, HeadAndTail
<1>5. Append(seen[s], h) \o rest = Sent(s) /\ Append(seen[s], h) \in Seq(Event) /\ rest \in Seq(Event)
  <2>1. h \in Event /\ rest \in Seq(Event)
    BY <1>4
  <2>2. ASSUME NEW a \in Seq(Event), NEW x \in Event, NEW c \in Seq(Event)
        PROVE  /\ Append(a, x) \o c = a \o (<<x>> \o c)
               /\ Append(a, x) \in Seq(Event)
    BY MovesOver
  <2>3. /\ Append(seen[s], h) \o rest = seen[s] \o (<<h>> \o rest)
        /\ Append(seen[s], h) \in Seq(Event)
    BY <1>3, <2>1, <2>2
  <2> QED BY <1>4, <2>3 DEF Sent
<1>6. SeamTypes'
  BY <1>1, <1>2, <1>4, <1>5 DEF SeamTypes
<1>7. seen'[s] = Append(seen[s], h) /\ ch'[s] = rest
  BY <1>1, <1>2, <1>4 DEF SeamTypes
<1>8. Sent(s)' = Sent(s)
  BY <1>5, <1>7 DEF Sent
<1>9. Coming(s)' = Coming(s)
  BY <1>1, <1>8 DEF Coming
<1>10. /\ \A t : Live(s, t)' = Live(s, t) /\ Old(s, t)' = Old(s, t)
       /\ \A t : Listed(s, t)' = Listed(s, t)
       /\ Owed(s)' = Owed(s)
  BY <1>1 DEF Live, Old, Listed, Owed
<1>11. AtTheSeam(s) /\ state[s] = "open"
  BY <1>2 DEF Deliver
<1>12. AtMostOnce(s)' /\ InOrder(s)' /\ NothingLost(s)'
  BY <1>1, <1>8, <1>9, <1>10, <1>11 DEF AtTheSeam, AtMostOnce, InOrder, NothingLost
<1>13. AtTheSeam(s)'
  BY <1>1, <1>9, <1>11, <1>12 DEF AtTheSeam
<1>14. ASSUME NEW u \in Subs, u # s PROVE AtTheSeam(u)'
  <2>1. ch'[u] = ch[u] /\ seen'[u] = seen[u]
    BY <1>1, <1>14
  <2>2. ToSet(req[u].topics) \subseteq Topics
    BY <1>2, RequestTypes DEF SubsInv
  <2> QED BY <1>1, <1>2, <2>1, <2>2, SeamFrame
<1> QED BY <1>6, <1>13, <1>14

\* A subscriber that has left is owed nothing more.
LEMMA SeamUnsubscribe ==
  ASSUME SeamInv, NEW s \in Subs, Unsubscribe(s)
  PROVE  SeamTypes' /\ \A u \in Subs : AtTheSeam(u)'
<1>1. /\ state' = [state EXCEPT ![s] = "closed"]
      /\ subs' = [t \in Topics |-> IF t \in ToSet(req[s].topics) THEN subs[t] \ {s} ELSE subs[t]]
      /\ UNCHANGED <<ring, req, ch, replay, crashed, since, seen, dropped>>
  BY DEF Unsubscribe, Unregister
<1>2. SeamTypes /\ SubsInv /\ \A u \in Subs : AtTheSeam(u)
  BY DEF SeamInv
<1>3. SeamTypes'
  BY <1>1, <1>2 DEF SeamTypes
<1>4. state'[s] = "closed"
  BY <1>1, <1>2 DEF SubsInv
<1>5. Sent(s)' = Sent(s) /\ Coming(s)' = Coming(s)
  BY <1>1 DEF Sent, Coming
<1>6. /\ \A t : Live(s, t)' = Live(s, t) /\ Old(s, t)' = Old(s, t)
      /\ \A t : Listed(s, t)' = Listed(s, t)
  BY <1>1 DEF Live, Old, Listed
<1>7. AtTheSeam(s)
  BY <1>2
<1>8. AtMostOnce(s)' /\ InOrder(s)'
  BY <1>1, <1>5, <1>6, <1>7 DEF AtTheSeam, AtMostOnce, InOrder
<1>9. AtTheSeam(s)'
  BY <1>1, <1>4, <1>5, <1>7, <1>8 DEF AtTheSeam
<1>10. ASSUME NEW u \in Subs, u # s PROVE AtTheSeam(u)'
  <2>1. state'[u] = state[u] /\ \A t \in Topics : u \in subs[t] => u \in subs'[t]
    BY <1>1, <1>2, <1>10 DEF SubsInv
  <2>2. ToSet(req[u].topics) \subseteq Topics
    BY <1>2, RequestTypes DEF SubsInv
  <2> QED BY <1>1, <1>2, <2>1, <2>2, SeamFrame
<1> QED BY <1>3, <1>9, <1>10

\* Every registered subscriber is offered the event: it is sent, or dropped.
LEMMA SeamPublish ==
  ASSUME SeamInv, NEW t \in Topics, Publish(t)
  PROVE  SeamTypes' /\ \A u \in Subs : AtTheSeam(u)'
<1>1. PICK n : n = ring[t].nextID
  OBVIOUS
<1>2. PICK ev : ev = <<t, n>>
  OBVIOUS
<1>3. PICK full : full = {s \in subs[t] : ~HasRoom(s)}
  OBVIOUS
<1>4. /\ n < MaxEvents
      /\ ring' = [ring EXCEPT ![t] = RingAppend(ring[t], ev)]
      /\ ch' = [s \in Subs |-> IF s \in subs[t] \ full THEN Append(ch[s], ev) ELSE ch[s]]
      /\ dropped' = [s \in Subs |-> IF s \in full THEN dropped[s] \cup {ev} ELSE dropped[s]]
      /\ UNCHANGED <<subs, state, req, replay, crashed, since, seen>>
  BY <1>1, <1>2, <1>3 DEF Publish
<1>5. SeamTypes /\ SubsInv /\ RingInv /\ \A u \in Subs : AtTheSeam(u)
  BY DEF SeamInv
<1>6. n \in Nat /\ ev \in Event /\ ev[1] = t /\ ev[2] = n /\ MaxEvents \in Nat
  BY <1>1, <1>2, <1>5, StoreAssumption DEF RingInv, Ring, Event
<1>7. /\ ring'[t].nextID = n + 1
      /\ \A v \in Topics : v # t => ring'[v] = ring[v]
      /\ \A v \in Topics : ring[v].nextID \in 0..MaxEvents /\ ring'[v].nextID \in 0..MaxEvents
      /\ \A v \in Topics : ring[v].nextID <= ring'[v].nextID
  <2>1. ring \in [Topics -> Ring] /\ \A v \in Topics : ring[v].nextID \in 0..MaxEvents
    BY <1>5, <1>6 DEF RingInv, SeamTypes, Ring
  <2>2. ring'[t] = RingAppend(ring[t], ev) /\ \A v \in Topics : v # t => ring'[v] = ring[v]
    BY <1>4, <2>1
  <2>3. ring'[t].nextID = n + 1
    BY <1>1, <2>2 DEF RingAppend
  <2> QED BY <1>1, <1>4, <1>6, <2>1, <2>2, <2>3
<1>8. SeamTypes'
  <2>1. ch' \in [Subs -> Seq(Event)]
    <3> SUFFICES ASSUME NEW s \in Subs PROVE ch'[s] \in Seq(Event)
      BY <1>4
    <3>1. ch[s] \in Seq(Event)
      BY <1>5 DEF SeamTypes
    <3>2. Append(ch[s], ev) \in Seq(Event)
      BY <1>6, <3>1, AppendProperties
    <3> QED BY <1>4, <3>1, <3>2
  <2>2. dropped' \in [Subs -> SUBSET Event]
    BY <1>4, <1>5, <1>6 DEF SeamTypes
  <2> QED BY <1>4, <1>5, <1>7, <2>1, <2>2 DEF SeamTypes
<1>9. ASSUME NEW s \in Subs PROVE AtTheSeam(s)'
  <2>1. /\ seen[s] \in Seq(Event) /\ ch[s] \in Seq(Event) /\ replay[s] \in Seq(Event)
        /\ Sent(s) \in Seq(Event) /\ Coming(s) \in Seq(Event)
    BY <1>5, SeamStatesTypes
  <2>2. AtTheSeam(s)
    BY <1>5
  <2>3. /\ \A v : Live(s, v)' = Live(s, v) /\ Old(s, v)' = Old(s, v)
        /\ \A v : Listed(s, v)' = Listed(s, v)
    BY <1>4 DEF Live, Old, Listed
  <2>4. since[s] \in [Topics -> Nat] /\ since[s][t] <= n /\ \A v \in Topics : since[s][v] <= ring'[v].nextID
    <3>1. since[s] \in [Topics -> Nat] /\ \A v \in Topics : since[s][v] <= ring[v].nextID
      BY <1>5, <2>2 DEF AtTheSeam, SeamTypes
    <3>2. ASSUME NEW v \in Topics PROVE since[s][v] <= ring'[v].nextID
      <4>1. since[s][v] \in Nat /\ ring[v].nextID \in Nat /\ ring'[v].nextID \in Nat
        BY <1>7, <3>1
      <4> QED BY <1>7, <3>1, <4>1
    <3> QED BY <1>1, <3>1, <3>2
  <2>5. ASSUME NEW e \in ToSet(Coming(s)) \cup {ev} PROVE e \in Event /\ e[2] < ring'[e[1]].nextID
    <3>1. CASE e = ev
      BY <1>6, <1>7, <3>1
    <3>2. CASE e \in ToSet(Coming(s))
      <4>1. e \in Event
        BY <2>1, <3>2, LenProperties DEF ToSet
      <4>2. e[1] \in Topics /\ e[2] \in Nat /\ e[2] < ring[e[1]].nextID
        BY <2>2, <3>2, <4>1 DEF AtTheSeam, Event
      <4>3. ring[e[1]].nextID \in Nat /\ ring'[e[1]].nextID \in Nat /\ ring[e[1]].nextID <= ring'[e[1]].nextID
        BY <1>7, <4>2
      <4> QED BY <4>1, <4>2, <4>3
    <3> QED BY <3>1, <3>2
  <2>6. ev \notin ToSet(Coming(s))
    <3>1. ASSUME ev \in ToSet(Coming(s)) PROVE n < n
      BY <1>1, <1>6, <2>2, <3>1 DEF AtTheSeam
    <3> QED BY <1>6, <3>1
  <2>7. state[s] = "open" => (s \in subs[t] <=> t \in ToSet(req[s].topics))
    BY <1>5, <2>2 DEF SubsInv, Registered, AtTheSeam
  <2>8. s \in subs[t] => state[s] = "open"
    BY <1>5 DEF SubsInv, Registered
  <2>9. Owed(s)' = IF t \in ToSet(req[s].topics) THEN Owed(s) \cup {ev} ELSE Owed(s)
    <3>1. req[s] \in Requests \cup {EmptyRequest}
      BY <1>5 DEF SubsInv
    <3> DEFINE Due(e) == \/ e[2] >= since[s][e[1]]
                         \/ req[s].from > 0 /\ e[2] >= req[s].from /\ e[2] + BufferSize >= since[s][e[1]]
               Named == {<<v, k>> : v \in ToSet(req[s].topics), k \in 0..MaxEvents}
               Space == Topics \X (0..MaxEvents)
               All == Named \cap Space
    <3>2. Owed(s) = {e \in All : e[2] < ring[e[1]].nextID /\ Due(e)}
      <4>1. Owed(s) = Named \cap {e \in Space : e[2] < ring[e[1]].nextID /\ Due(e)}
        BY DEF Owed
      <4> HIDE DEF Named, Space, Due
      <4> QED BY <4>1
    <3>3. Owed(s)' = {e \in All : e[2] < ring'[e[1]].nextID /\ Due(e)}
      <4>1. since' = since /\ req' = req
        BY <1>4
      <4>2. Owed(s)' = Named \cap {e \in Space : e[2] < ring'[e[1]].nextID /\ Due(e)}
        BY <4>1 DEF Owed
      <4> HIDE DEF Named, Space, Due
      <4> QED BY <4>2
    <3>4. ev \in All <=> t \in ToSet(req[s].topics)
      BY <1>2, <1>4, <1>6
    <3>5. Due(ev)
      <4>1. since[s][ev[1]] \in Nat /\ since[s][ev[1]] <= n /\ ev[2] = n
        BY <1>6, <2>4
      <4>2. ev[2] >= since[s][ev[1]]
        BY <1>6, <4>1
      <4> QED BY <4>2, Zenon
    <3>6. ASSUME NEW e \in All PROVE e[2] < ring'[e[1]].nextID <=> e[2] < ring[e[1]].nextID \/ e = ev
      <4>1. e[1] \in Topics /\ e[2] \in Nat /\ e = <<e[1], e[2]>>
        BY <1>6
      <4>2. CASE e[1] = t
        BY <1>1, <1>2, <1>6, <1>7, <4>1, <4>2
      <4>3. CASE e[1] # t
        BY <1>6, <1>7, <4>1, <4>3
      <4> QED BY <4>2, <4>3
    <3> HIDE DEF All, Due
    <3>7. ev[2] < ring'[ev[1]].nextID
      BY <1>6, <1>7
    <3> QED BY <3>2, <3>3, <3>4, <3>5, <3>6, <3>7
  <2>10. CASE s \in subs[t] \ full
    <3>1. ch'[s] = Append(ch[s], ev) /\ dropped'[s] = dropped[s]
      BY <1>3, <1>4, <2>10
    <3>2. \A a, b \in Seq(Event), y \in Event : a \o Append(b, y) = Append(a \o b, y)
      BY AppendAfter
    <3>3. Sent(s)' = Append(Sent(s), ev)
      <4>1. seen'[s] = seen[s]
        BY <1>4
      <4>2. seen[s] \o Append(ch[s], ev) = Append(seen[s] \o ch[s], ev)
        BY <1>6, <2>1, <3>2
      <4> QED BY <3>1, <4>1, <4>2, Zenon DEF Sent
    <3>4. PICK a \in Seq(Event), b \in Seq(Event), c \in {Append(Sent(s), ev) \o replay[s]} :
            a = Sent(s) /\ b = replay[s] /\ c = Append(a, ev) \o b /\ Coming(s) = a \o b
      BY <2>1 DEF Coming
    <3>5. Coming(s)' = c
      BY <1>4, <3>3, <3>4 DEF Coming
    <3>6. /\ ToSet(c) = ToSet(a \o b) \cup {ev}
          /\ \A x : Count(c, x) = Count(a \o b, x) + (IF x = ev THEN 1 ELSE 0)
      BY <1>6, <3>4, Inserted
    <3>7. NothingLost(s)'
      <4>1. ToSet(Coming(s)) \cup dropped[s] = Owed(s)
        BY <2>2, <2>8, <2>10 DEF AtTheSeam, NothingLost
      <4> QED BY <2>7, <2>8, <2>9, <2>10, <3>1, <3>4, <3>5, <3>6, <4>1 DEF NothingLost
    <3>8. AtMostOnce(s)'
      <4> SUFFICES ASSUME NEW e \in ToSet(c)
                   PROVE  Count(c, e) <= IF e[2] < since[s][e[1]] THEN Listed(s, e[1]) ELSE 1
        BY <1>4, <2>3, <3>5 DEF AtMostOnce
      <4>1. CASE e = ev
        <5>1. Count(a \o b, ev) = 0
          BY <2>1, <2>6, <3>4, CountNone
        <5>2. ~(ev[2] < since[s][ev[1]])
          BY <1>6, <2>4
        <5> QED BY <3>6, <4>1, <5>1, <5>2
      <4>2. CASE e # ev
        <5>1. e \in ToSet(Coming(s)) /\ Count(c, e) = Count(Coming(s), e) + 0
          BY <3>4, <3>6, <4>2
        <5>2. Count(Coming(s), e) \in Nat
          BY <2>1, PlacesAreFinite
        <5>3. Count(c, e) = Count(Coming(s), e)
          BY <5>1, <5>2
        <5> QED BY <2>2, <5>1, <5>3 DEF AtTheSeam, AtMostOnce
      <4> QED BY <4>1, <4>2
    <3>9. InOrder(s)'
      <4> SUFFICES ASSUME NEW v \in Topics
                   PROVE  /\ Rising(Append(a, ev), Live(s, v))
                          /\ Listed(s, v) = 1 => Rising(c, Old(s, v))
        BY <2>3, <3>3, <3>4, <3>5 DEF InOrder
      <4>1. Rising(a, Live(s, v)) /\ (Listed(s, v) = 1 => Rising(a \o b, Old(s, v)))
        BY <2>2, <3>4 DEF AtTheSeam, InOrder
      <4>2. ASSUME ev \in Live(s, v), NEW e \in ToSet(a) \cap Live(s, v) PROVE e[2] < ev[2]
        <5>1. e \in ToSet(Coming(s)) /\ e[1] = t
          <6>1. ToSet(a \o b) = ToSet(a) \cup ToSet(b)
            BY Concatenation
          <6> QED BY <1>6, <3>4, <4>2, <6>1 DEF Live
        <5>2. e[2] < ring[e[1]].nextID
          BY <2>2, <5>1 DEF AtTheSeam
        <5> QED BY <1>1, <1>6, <5>1, <5>2
      <4>3. Rising(Append(a, ev), Live(s, v))
        BY <1>6, <4>1, <4>2, RisingAppended
      <4>4. ev \notin Old(s, v)
        BY <1>6, <2>4 DEF Old
      <4>5. Listed(s, v) = 1 => Rising(c, Old(s, v))
        BY <1>6, <3>4, <4>1, <4>4, RisingInserted
      <4> QED BY <4>3, <4>5
    <3>10. \A e \in ToSet(Coming(s))' : e[2] < ring'[e[1]].nextID
      BY <2>5, <3>4, <3>5, <3>6
    <3> QED BY <1>4, <2>2, <2>4, <2>8, <2>10, <3>7, <3>8, <3>9, <3>10 DEF AtTheSeam
  <2>11. CASE ~(s \in subs[t] \ full)
    <3>1. ch'[s] = ch[s]
      BY <1>4, <2>11
    <3>2. Sent(s)' = Sent(s) /\ Coming(s)' = Coming(s)
      BY <1>4, <3>1 DEF Sent, Coming
    <3>3. AtMostOnce(s)' /\ InOrder(s)'
      BY <1>4, <2>2, <2>3, <3>2 DEF AtTheSeam, AtMostOnce, InOrder
    <3>4. dropped'[s] = IF s \in subs[t] THEN dropped[s] \cup {ev} ELSE dropped[s]
      BY <1>3, <1>4, <2>11
    <3>5. state[s] = "open" => NothingLost(s)'
      BY <2>2, <2>7, <2>9, <3>2, <3>4 DEF AtTheSeam, NothingLost
    <3>6. \A e \in ToSet(Coming(s))' : e[2] < ring'[e[1]].nextID
      BY <2>5, <3>2
    <3>7. state[s] = "new" => dropped'[s] = dropped[s]
      BY <2>8, <3>4
    <3> QED BY <1>4, <2>2, <2>4, <3>1, <3>3, <3>5, <3>6, <3>7 DEF AtTheSeam
  <2> QED BY <2>10, <2>11
<1> QED BY <1>8, <1>9

\* A subscription starts with the backlog of its topics, and with nothing live.
LEMMA SeamSubscribe ==
  ASSUME SeamInv, NEW s \in Subs, NEW q \in Requests, Subscribe(s, q)
  PROVE  SeamTypes' /\ \A u \in Subs : AtTheSeam(u)'
<1>1. /\ state[s] = "new"
      /\ state' = [state EXCEPT ![s] = "open"]
      /\ req' = [req EXCEPT ![s] = q]
      /\ subs' = [t \in Topics |-> IF t \in ToSet(q.topics) THEN subs[t] \cup {s} ELSE subs[t]]
      /\ replay' = [replay EXCEPT ![s] = Backlog(q)]
      /\ since' = [since EXCEPT ![s] = [t \in Topics |-> ring[t].nextID]]
      /\ UNCHANGED <<ring, ch, crashed, seen, dropped>>
  BY DEF Subscribe
<1>2. SeamTypes /\ SubsInv /\ RingInv /\ \A u \in Subs : AtTheSeam(u)
  BY DEF SeamInv
<1>3. PICK b, next : b = Backlog(q) /\ next = [t \in Topics |-> ring[t].nextID]
  OBVIOUS
<1>4. q.topics \in Seq(Topics) /\ q.from \in Nat /\ ToSet(q.topics) \subseteq Topics
  BY RequestTypes
<1>5. next \in [Topics -> 0..MaxEvents] /\ \A t \in Topics : next[t] = ring[t].nextID
  BY <1>2, <1>3, StoreAssumption DEF RingInv, Ring, SeamTypes
<1>6. /\ b \in Seq(Event)
      /\ ToSet(b) = {e \in Event : /\ e[1] \in ToSet(q.topics) /\ e[2] < next[e[1]]
                                   /\ q.from > 0 /\ e[2] >= q.from /\ e[2] + BufferSize >= next[e[1]]}
      /\ \A e \in Event : Count(b, e) <= Count(q.topics, e[1])
      /\ \A t \in Topics : Count(q.topics, t) = 1 => Rising(b, Of(t))
  <2>1. CASE q.from = 0
    <3>1. b = <<>> /\ <<>> \in Seq(Event) /\ ToSet(<<>>) = {} /\ Len(<<>>) = 0
      BY <1>3, <2>1 DEF Backlog, ToSet
    <3>2. \A e : Count(<<>>, e) = 0
      BY <3>1, CountNone
    <3>3. \A es : Rising(<<>>, es)
      BY <3>1 DEF Rising
    <3>4. \A t : Count(q.topics, t) \in Nat
      BY <1>4, PlacesAreFinite
    <3> QED BY <1>4, <2>1, <3>1, <3>2, <3>3, <3>4
  <2>2. CASE q.from # 0
    <3>1. PICK n \in Nat : n = Len(q.topics) /\ DOMAIN q.topics = 1..n
      BY <1>4, LenProperties
    <3>2. PICK parts : parts = [k \in 1..n |-> Replay(ring[q.topics[k]], q.from)]
      OBVIOUS
    <3>3. \A k \in 1..n : q.topics[k] \in Topics
      BY <1>4, <3>1, LenProperties
    <3>4. ASSUME NEW k \in 1..n
          PROVE  /\ parts[k] \in Seq(Event)
                 /\ ToSet(parts[k]) = {e \in Of(q.topics[k]) :
                       /\ e[2] < next[q.topics[k]] /\ e[2] >= q.from
                       /\ e[2] + BufferSize >= next[q.topics[k]]}
                 /\ \A e : Count(parts[k], e) <= 1
                 /\ \A es : Rising(parts[k], es)
      <4>1. PICK t \in Topics : t = q.topics[k]
        BY <3>3
      <4>2. parts[k] = Replay(ring[t], q.from) /\ next[t] = ring[t].nextID
        BY <1>5, <3>2, <4>1
      <4>3. /\ parts[k] \in Seq(Event)
            /\ ToSet(parts[k]) = {e \in Of(t) : /\ e[2] < ring[t].nextID /\ e[2] >= q.from
                                                /\ e[2] + BufferSize >= ring[t].nextID}
            /\ \A e : Count(parts[k], e) <= 1
            /\ \A es : Rising(parts[k], es)
        BY <1>2, <1>4, <4>2, ReplayGives
      <4> QED BY <4>1, <4>2, <4>3
    <3>5. parts \in Seq(Seq(Event)) /\ Len(parts) = n
      <4>1. parts \in [1..n -> Seq(Event)]
        BY <3>2, <3>4
      <4>2. parts \in Seq(Seq(Event))
        BY <4>1, SeqDef
      <4>3. DOMAIN parts = 1..n
        BY <3>2
      <4>4. DOMAIN parts = 1..Len(parts) /\ Len(parts) \in Nat
        BY <4>2, LenProperties
      <4> QED BY <4>2, <4>3, <4>4
    <3>6. b = FlattenSeq(parts)
      BY <1>3, <2>2, <3>1, <3>2 DEF Backlog
    <3>7. /\ b \in Seq(Event)
          /\ ToSet(b) = UNION {ToSet(parts[k]) : k \in 1..n}
          /\ \A e \in Event : Count(b, e) <= Count(q.topics, e[1])
          /\ \A t \in Topics : Count(q.topics, t) = 1 => Rising(b, Of(t))
      <4>1. \A k \in 1..n : ToSet(parts[k]) \subseteq Of(q.topics[k])
        BY <3>4
      <4> QED BY <1>4, <3>1, <3>4, <3>5, <3>6, <4>1, PartsTogether
    <3>8. ASSUME NEW e
          PROVE  e \in ToSet(b) <=>
                 /\ e \in Event /\ e[1] \in ToSet(q.topics) /\ e[2] < next[e[1]]
                 /\ q.from > 0 /\ e[2] >= q.from /\ e[2] + BufferSize >= next[e[1]]
      <4>1. e \in ToSet(b) <=> \E k \in 1..n : e \in ToSet(parts[k])
        BY <3>7
      <4>2. \A k \in 1..n : e \in ToSet(parts[k]) <=>
              /\ e \in Event /\ e[1] = q.topics[k] /\ e[2] < next[e[1]]
              /\ e[2] >= q.from /\ e[2] + BufferSize >= next[e[1]]
        BY <3>4 DEF Of
      <4>3. e[1] \in ToSet(q.topics) <=> \E k \in 1..n : e[1] = q.topics[k]
        BY <3>1 DEF ToSet
      <4>4. q.from > 0
        BY <1>4, <2>2
      <4> QED BY <4>1, <4>2, <4>3, <4>4
    <3> QED BY <3>7, <3>8
  <2> QED BY <2>1, <2>2
<1>7. SeamTypes'
  <2>1. next \in [Topics -> Nat]
    BY <1>5
  <2>2. since' \in [Subs -> [Topics -> Nat]]
    BY <1>1, <1>2, <1>3, <2>1 DEF SeamTypes
  <2>3. replay' \in [Subs -> Seq(Event)]
    BY <1>1, <1>2, <1>3, <1>6 DEF SeamTypes
  <2> QED BY <1>1, <1>2, <2>2, <2>3 DEF SeamTypes
<1>8. /\ state'[s] = "open" /\ req'[s] = q /\ replay'[s] = b /\ since'[s] = next
      /\ ch'[s] = <<>> /\ seen'[s] = <<>> /\ dropped'[s] = {}
      /\ \A t \in ToSet(q.topics) : s \in subs'[t]
  <2>1. ch[s] = <<>> /\ seen[s] = <<>> /\ dropped[s] = {}
    BY <1>1, <1>2 DEF AtTheSeam
  <2> QED BY <1>1, <1>2, <1>3, <1>4, <2>1 DEF SeamTypes, SubsInv
<1>9. Sent(s)' = <<>> /\ Coming(s)' = b
  <2>1. <<>> \o <<>> = <<>> /\ <<>> \o b = b
    BY <1>6, ConcatEmptySeq, EmptySeq
  <2> QED BY <1>8, <2>1 DEF Sent, Coming
<1>10. NothingLost(s)'
  <2>1. Owed(s)' = {e \in Event :
              /\ e[1] \in ToSet(q.topics)
              /\ e[2] < next[e[1]]
              /\ \/ e[2] >= next[e[1]]
                 \/ q.from > 0 /\ e[2] >= q.from /\ e[2] + BufferSize >= next[e[1]]}
    <3>1. Owed(s)' = OwedTo(ring', since'[s], req'[s])
      BY DEF Owed, OwedTo
    <3>2. Owed(s)' = OwedTo(ring, next, q)
      BY <1>1, <1>8, <3>1
    <3>3. \A t \in Topics : next[t] \in Nat /\ ring[t].nextID = next[t] /\ next[t] \in 0..MaxEvents
      BY <1>5
    <3>4. OwedTo(ring, next, q) = {e \in Event :
              /\ e[1] \in ToSet(q.topics)
              /\ e[2] < ring[e[1]].nextID
              /\ \/ e[2] >= next[e[1]]
                 \/ q.from > 0 /\ e[2] >= q.from /\ e[2] + BufferSize >= next[e[1]]}
      BY <1>4, <3>3, OwedIs
    <3>5. \A e \in Event : ring[e[1]].nextID = next[e[1]]
      BY <3>3 DEF Event
    <3> QED BY <3>2, <3>4, <3>5
  <2>2. \A e \in Event : e[2] \in Nat /\ e[1] \in Topics
    BY DEF Event
  <2>3. \A t \in Topics : next[t] \in Nat
    BY <1>5
  <2>4. Owed(s)' = ToSet(b)
    BY <1>4, <1>6, <2>1, <2>2, <2>3
  <2> QED BY <1>8, <1>9, <2>4 DEF NothingLost
<1>11. \A e \in ToSet(b) : e \in Event /\ e[2] < next[e[1]] /\ e[1] \in Topics
  BY <1>4, <1>6
<1>12. AtMostOnce(s)'
  <2>1. \A t : Listed(s, t)' = Count(q.topics, t)
    BY <1>8 DEF Listed
  <2> QED BY <1>6, <1>8, <1>9, <1>11, <2>1 DEF AtMostOnce
<1>13. InOrder(s)'
  <2> SUFFICES ASSUME NEW t \in Topics
               PROVE  /\ Rising(Sent(s), Live(s, t))'
                      /\ (Listed(s, t) = 1)' => Rising(Coming(s), Old(s, t))'
    BY DEF InOrder
  <2>1. Rising(Sent(s), Live(s, t))'
    <3>1. Len(<<>>) = 0
      OBVIOUS
    <3> QED BY <1>9, <3>1 DEF Rising
  <2>2. ASSUME (Listed(s, t) = 1)' PROVE Rising(Coming(s), Old(s, t))'
    <3>1. Rising(b, Of(t))
      BY <1>6, <1>8, <2>2 DEF Listed
    <3>2. Old(s, t)' \subseteq Of(t)
      BY DEF Old, Of
    <3> QED BY <1>9, <3>1, <3>2 DEF Rising
  <2> QED BY <2>1, <2>2
<1>14. AtTheSeam(s)'
  <2>1. \A t \in Topics : since'[s][t] <= ring'[t].nextID
    BY <1>1, <1>5, <1>8
  <2>2. \A e \in ToSet(Coming(s))' : e[2] < ring'[e[1]].nextID
    BY <1>1, <1>5, <1>9, <1>11
  <2>3. \A e \in ToSet(replay'[s]) : e[2] < since'[s][e[1]]
    BY <1>8, <1>11
  <2> QED BY <1>8, <1>10, <1>12, <1>13, <2>1, <2>2, <2>3 DEF AtTheSeam
<1>15. ASSUME NEW u \in Subs, u # s PROVE AtTheSeam(u)'
  <2>1. /\ state'[u] = state[u] /\ req'[u] = req[u] /\ replay'[u] = replay[u] /\ since'[u] = since[u]
        /\ \A t \in Topics : u \in subs[t] => u \in subs'[t]
    BY <1>1, <1>2, <1>15 DEF SubsInv
  <2>2. ToSet(req[u].topics) \subseteq Topics
    BY <1>2, RequestTypes DEF SubsInv
  <2> QED BY <1>1, <1>2, <2>1, <2>2, SeamFrame
<1> QED BY <1>7, <1>14, <1>15

LEMMA SeamInvInit == Init => SeamInv
<1> SUFFICES ASSUME Init PROVE SeamInv
  OBVIOUS
<1>1. RingInv /\ SubsInv
  BY RingInvInit, SubsInvInit
<1>2. /\ ring = [t \in Topics |-> EmptyRing] /\ EmptyRing.nextID = 0
      /\ state = [s \in Subs |-> "new"]
      /\ ch = [s \in Subs |-> <<>>]
      /\ replay = [s \in Subs |-> <<>>]
      /\ since = [s \in Subs |-> [t \in Topics |-> 0]]
      /\ seen = [s \in Subs |-> <<>>]
      /\ dropped = [s \in Subs |-> {}]
  BY DEF Init, EmptyRing
<1>3. SeamTypes
  <2>1. <<>> \in Seq(Event)
    BY EmptySeq
  <2> QED BY <1>2, <2>1, StoreAssumption DEF SeamTypes
<1>4. ASSUME NEW s \in Subs PROVE AtTheSeam(s)
  <2>1. ch[s] = <<>> /\ seen[s] = <<>> /\ replay[s] = <<>> /\ state[s] = "new" /\ dropped[s] = {}
    BY <1>2
  <2>2. <<>> \o <<>> = <<>> /\ ToSet(<<>>) = {} /\ Len(<<>>) = 0
    BY EmptySeq, ConcatEmptySeq DEF ToSet
  <2>3. Sent(s) = <<>> /\ Coming(s) = <<>>
    BY <2>1, <2>2 DEF Sent, Coming
  <2>4. AtMostOnce(s) /\ InOrder(s)
    BY <2>2, <2>3 DEF AtMostOnce, InOrder, Rising
  <2> QED BY <1>2, <2>1, <2>2, <2>3, <2>4 DEF AtTheSeam
<1> QED BY <1>1, <1>3, <1>4 DEF SeamInv

LEMMA SeamInvStep == SeamInv /\ [Next]_vars => SeamInv'
<1> SUFFICES ASSUME SeamInv, [Next]_vars PROVE SeamInv'
  OBVIOUS
<1>1. RingInv' /\ SubsInv'
  BY RingInvStep, SubsInvStep DEF SeamInv
<1>2. CASE \E t \in Topics : Publish(t)
  BY <1>1, <1>2, SeamPublish DEF SeamInv
<1>3. CASE \E s \in Subs : \E q \in Requests : Subscribe(s, q)
  BY <1>1, <1>3, SeamSubscribe DEF SeamInv
<1>4. CASE \E s \in Subs : SendReplay(s) \/ Deliver(s) \/ Unsubscribe(s)
  BY <1>1, <1>4, SeamSendReplay, SeamDeliver, SeamUnsubscribe DEF SeamInv
<1>5. CASE UNCHANGED <<ring, subs, state, req, ch, replay, since, seen, dropped>>
  <2>1. SeamTypes /\ SubsInv /\ \A s \in Subs : AtTheSeam(s)
    BY DEF SeamInv
  <2>2. SeamTypes'
    BY <1>5, <2>1 DEF SeamTypes
  <2>3. ASSUME NEW s \in Subs PROVE AtTheSeam(s)'
    <3>1. ToSet(req[s].topics) \subseteq Topics
      BY <2>1, RequestTypes DEF SubsInv
    <3> QED BY <1>5, <2>1, <3>1, SeamFrame
  <2> QED BY <1>1, <2>2, <2>3 DEF SeamInv
<1>6. CASE \E s \in Subs : ReplayPanics(s)
  BY <1>5, <1>6 DEF ReplayPanics
<1> QED BY <1>2, <1>3, <1>4, <1>5, <1>6 DEF Next, vars

----------------------------------------------------------------------------
(* Before and after any number of wrap-arounds a replay is the tail of its  *)
(* topic (append, replay), for any number of slots, topics and subscribers. *)
THEOREM ReplaysAreTails == Spec => []ReplayIsTail
<1>1. Init => RingInv
  BY RingInvInit
<1>2. RingInv /\ [Next]_vars => RingInv'
  BY RingInvStep
<1>3. RingInv => ReplayIsTail
  <2>1. 0..(MaxEvents + 1) \subseteq Nat
    BY StoreAssumption
  <2> QED BY <2>1, RingGivesTail DEF ReplayIsTail
<1> QED BY <1>1, <1>2, <1>3, PTL DEF Spec

(* Publish never sends on a closed channel (Publish, Subscribe, unsub),     *)
(* whichever topics a request lists, how often it lists them, and whichever *)
(* calls race.                                                              *)
THEOREM TopicsOnlyHoldOpen == Spec => []TopicsHoldOpen
<1>1. Init => SubsInv
  BY SubsInvInit
<1>2. SubsInv /\ [Next]_vars => SubsInv'
  BY SubsInvStep
<1>3. SubsInv => TopicsHoldOpen
  BY DEF SubsInv, Registered, TopicsHoldOpen
<1> QED BY <1>1, <1>2, <1>3, PTL DEF Spec

(* No channel ever holds more than its capacity, and the rest of the state  *)
(* has its type.                                                            *)
THEOREM StoreTypes == Spec => []TypeOK
<1> DEFINE Bounded == crashed \in BOOLEAN /\ \A s \in Subs : Len(ch[s]) <= ChanCap
<1>1. Init => SeamInv /\ Bounded
  <2>1. Len(<<>>) = 0 /\ 0 <= ChanCap
    BY StoreAssumption
  <2> QED BY <2>1, SeamInvInit DEF Init
<1>2. SeamInv /\ Bounded /\ [Next]_vars => SeamInv' /\ Bounded'
  <2> SUFFICES ASSUME SeamInv, Bounded, [Next]_vars PROVE Bounded'
    BY SeamInvStep
  <2>1. ASSUME NEW s \in Subs
        PROVE  /\ ch[s] \in Seq(Event) /\ Len(ch[s]) \in Nat /\ ChanCap \in Nat
               /\ replay[s] \in Seq(Event)
    BY LenProperties, StoreAssumption DEF SeamInv, SeamTypes
  <2>2. ASSUME NEW s \in Subs, NEW e \in Event, HasRoom(s) PROVE Len(Append(ch[s], e)) <= ChanCap
    BY <2>1, <2>2, AppendProperties DEF HasRoom
  <2>3. ASSUME NEW t \in Topics, Publish(t) PROVE Bounded'
    <3>1. PICK ev : ev = <<t, ring[t].nextID>>
      OBVIOUS
    <3>2. ev \in Event
      BY <3>1 DEF SeamInv, RingInv, Ring, Event
    <3>3. /\ ch' = [s \in Subs |-> IF s \in subs[t] \ {u \in subs[t] : ~HasRoom(u)}
                                     THEN Append(ch[s], ev) ELSE ch[s]]
          /\ crashed' = crashed
      BY <2>3, <3>1 DEF Publish
    <3>4. ASSUME NEW s \in Subs PROVE Len(ch'[s]) <= ChanCap
      <4>1. CASE s \in subs[t] /\ HasRoom(s)
        BY <2>2, <3>2, <3>3, <4>1
      <4>2. CASE ~(s \in subs[t] /\ HasRoom(s))
        BY <3>3, <4>2
      <4> QED BY <4>1, <4>2
    <3> QED BY <3>3, <3>4
  <2>4. ASSUME NEW s \in Subs, SendReplay(s) PROVE Bounded'
    <3>1. PICK h \in Event : h = Head(replay[s])
      BY <2>1, <2>4, HeadTailProperties DEF SendReplay
    <3>2. HasRoom(s) /\ ch' = [ch EXCEPT ![s] = Append(ch[s], h)] /\ crashed' = crashed
      BY <2>4, <3>1 DEF SendReplay
    <3>3. ch \in [Subs -> Seq(Event)]
      BY DEF SeamInv, SeamTypes
    <3>4. ASSUME NEW u \in Subs PROVE Len(ch'[u]) <= ChanCap
      BY <2>2, <3>1, <3>2, <3>3
    <3> QED BY <3>2, <3>4
  <2>5. ASSUME NEW s \in Subs, Deliver(s) PROVE Bounded'
    <3>1. ch[s] # <<>> /\ ch' = [ch EXCEPT ![s] = Tail(ch[s])] /\ crashed' = crashed
      BY <2>5 DEF Deliver
    <3>2. ch \in [Subs -> Seq(Event)]
      BY DEF SeamInv, SeamTypes
    <3>3. Len(Tail(ch[s])) = Len(ch[s]) - 1
      BY <2>1, <3>1, HeadTailProperties
    <3>4. ASSUME NEW u \in Subs PROVE Len(ch'[u]) <= ChanCap
      BY <2>1, <3>1, <3>2, <3>3
    <3> QED BY <3>1, <3>4
  <2>6. CASE \E s \in Subs : ReplayPanics(s)
    BY <2>6 DEF ReplayPanics
  <2>7. CASE \E s \in Subs : (\E q \in Requests : Subscribe(s, q)) \/ Unsubscribe(s)
    BY <2>7 DEF Subscribe, Unsubscribe
  <2>8. CASE UNCHANGED vars
    BY <2>8 DEF vars
  <2> QED BY <2>3, <2>4, <2>5, <2>6, <2>7, <2>8 DEF Next
<1>3. SeamInv /\ Bounded => TypeOK
  <2> SUFFICES ASSUME SeamInv, Bounded PROVE TypeOK
    OBVIOUS
  <2> QED BY DEF SeamInv, RingInv, SubsInv, SeamTypes, TypeOK
<1> QED BY <1>1, <1>2, <1>3, PTL DEF Spec

(* The seam between the replay and the live events is tight (Subscribe,     *)
(* Publish, the goroutine and the RPC's loop): whatever calls race, however *)
(* often a request lists a topic and however many events wrap a ring, no    *)
(* event an open subscriber is owed is lost other than at a full channel,   *)
(* none comes twice, and both parts are in the order of their offsets.      *)
THEOREM SeamHolds == Spec => []SeamIsTight
<1>1. Init => SeamInv
  BY SeamInvInit
<1>2. SeamInv /\ [Next]_vars => SeamInv'
  BY SeamInvStep
<1>3. SeamInv => SeamIsTight
  <2> SUFFICES ASSUME SeamInv PROVE SeamIsTight
    OBVIOUS
  <2>1. NoneMissing
    BY DEF SeamInv, AtTheSeam, NothingLost, NoneMissing
  <2>2. NoneTwice
    BY DEF SeamInv, AtTheSeam, AtMostOnce, NoneTwice
  <2>3. EachPartRises
    BY DEF SeamInv, AtTheSeam, InOrder, EachPartRises
  <2> QED BY <2>1, <2>2, <2>3 DEF SeamIsTight
<1> QED BY <1>1, <1>2, <1>3, PTL DEF Spec
=============================================================================
