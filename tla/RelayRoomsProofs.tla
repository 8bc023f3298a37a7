-------------------------- MODULE RelayRoomsProofs --------------------------
(***************************************************************************)
(* Proofs about RelayRooms: a handler that ends takes its participant with *)
(* it, and participants that missed no frame agree on the head count and   *)
(* on the conversation, for any number of streams, rooms and joins.        *)
(***************************************************************************)
EXTENDS RelayRooms, FiniteSetTheorems, TLAPS

Types ==
  /\ members \in [Rooms -> SUBSET Part]
  /\ present \subseteq Rooms
  /\ open \subseteq Part
  /\ handler \in [Streams -> {"on", "done"}]
  /\ room \in [Streams -> Rooms]
  /\ mine \in [Streams -> Part \cup {NoPart}]
  /\ home \in [Part -> Rooms]
  /\ joined \in [Streams -> Nat]

\* What a handler remembers: the last participant it created, and where.
Remembers(s) == mine[s] # NoPart => mine[s][1] = s /\ home[mine[s]] = room[s]

\* A member was created before, for this room and no other.
Belongs(r, p) == p \in open /\ home[p] = r /\ p[2] <= joined[p[1]]

\* Outside the room without a name, a member is the one its handler will remove.
Held(p) == handler[p[1]] = "on" /\ mine[p[1]] = p

RoomsInv ==
  /\ Types
  /\ \A s \in Streams : Remembers(s)
  /\ \A r \in Rooms : IsFiniteSet(members[r]) /\ (r \in present <=> members[r] # {})
  /\ \A r \in Rooms : \A p \in members[r] : Belongs(r, p)
  /\ \A r \in Rooms \ {NoName} : \A p \in members[r] : Held(p)

\* The rooms' map holds the room without a name like any other, and the number
\* of joins is bounded.
Parameters == NoName \in Rooms /\ MaxJoins \in Nat

LEMMA RoomsInvInit == Parameters /\ Init => RoomsInv
<1> SUFFICES ASSUME Parameters, Init PROVE RoomsInv
  OBVIOUS
<1>1. Types
  BY DEF Parameters, Init, Types
<1>2. \A r \in Rooms : members[r] = {} /\ IsFiniteSet({})
  BY FS_EmptySet DEF Init
<1>3. \A s \in Streams : Remembers(s)
  BY DEF Init, Remembers
<1>4. present = {}
  BY DEF Init
<1> QED BY <1>1, <1>2, <1>3, <1>4 DEF RoomsInv

----------------------------------------------------------------------------
(* Join: the participant is new, so nothing known of another changes; and a *)
(* handler that may join has no member in a room with a name.               *)
LEMMA JoinKeeps ==
  ASSUME Parameters, RoomsInv, NEW s \in Streams, NEW r \in Rooms, Join(s, r)
  PROVE  RoomsInv'
<1> DEFINE p == <<s, joined[s] + 1>>
<1>1. p \in Part /\ p # NoPart /\ p[1] = s /\ p[2] = joined[s] + 1
  BY DEF Join, RoomsInv, Types, Part, Parameters, NoPart
<1>2. /\ handler[s] = "on" /\ room[s] = NoName
      /\ joined' = [joined EXCEPT ![s] = @ + 1]
      /\ room' = [room EXCEPT ![s] = r]
      /\ mine' = [mine EXCEPT ![s] = p]
      /\ members' = [members EXCEPT ![r] = @ \cup {p}]
      /\ present' = present \cup {r}
      /\ open' = open \cup {p}
      /\ home' = [home EXCEPT ![p] = r]
      /\ handler' = handler
  BY DEF Join, MayJoin
<1> HIDE DEF p
<1>3. Types'
  BY <1>1, <1>2 DEF RoomsInv, Types
<1>4. ASSUME NEW u \in Rooms, NEW q \in members[u]
      PROVE  q \in Part /\ q # p /\ Belongs(u, q)' /\ (u # NoName => q[1] # s)
  <2>1. q \in Part /\ q[1] \in Streams /\ Belongs(u, q)
    BY DEF RoomsInv, Types, Part
  <2>2. q # p
    BY <1>1, <2>1 DEF Belongs, RoomsInv, Types
  <2>3. q[2] <= joined'[q[1]]
    BY <1>2, <2>1 DEF Belongs, RoomsInv, Types, Part
  <2>4. u # NoName => q[1] # s
    BY <1>2, <2>1 DEF Belongs, RoomsInv, Held, Remembers, Types, Part, NoPart
  <2> QED BY <1>2, <2>1, <2>2, <2>3, <2>4 DEF Belongs
<1>5. ASSUME NEW u \in Streams PROVE Remembers(u)'
  <2>1. CASE u = s
    BY <1>1, <1>2, <1>3, <2>1 DEF Remembers, RoomsInv, Types
  <2>2. CASE u # s
    <3>1. mine'[u] = mine[u] /\ room'[u] = room[u]
      BY <1>2, <2>2 DEF RoomsInv, Types
    <3>2. mine[u] # NoPart => mine[u] # p
      BY <1>1, <2>2 DEF RoomsInv, Remembers
    <3> QED BY <1>2, <3>1, <3>2 DEF RoomsInv, Types, Remembers
  <2> QED BY <2>1, <2>2
<1>6. ASSUME NEW u \in Rooms PROVE IsFiniteSet(members'[u]) /\ (u \in present' <=> members'[u] # {})
  <2>1. IsFiniteSet(members[u]) /\ IsFiniteSet(members[u] \cup {p})
    BY FS_AddElement DEF RoomsInv
  <2> QED BY <1>2, <2>1 DEF RoomsInv, Types
<1>7. ASSUME NEW u \in Rooms, NEW q \in members'[u]
      PROVE  Belongs(u, q)' /\ (u # NoName => Held(q)')
  <2>1. CASE q \in members[u]
    <3>1. q \in Part /\ q[1] \in Streams
      BY <2>1, <1>4 DEF Part
    <3> QED BY <1>2, <1>4, <2>1, <3>1 DEF RoomsInv, Held, Types
  <2>2. CASE q \notin members[u]
    <3>1. u = r /\ q = p
      BY <1>2, <2>2 DEF RoomsInv, Types
    <3> QED BY <1>1, <1>2, <3>1 DEF Belongs, Held, RoomsInv, Types
  <2> QED BY <2>1, <2>2
<1> QED BY <1>3, <1>5, <1>6, <1>7 DEF RoomsInv

(* Leave: the last participant of the handler leaves the only room it is in. *)
LEMMA LeaveKeeps ==
  ASSUME RoomsInv, NEW s \in Streams, Leave(s)
  PROVE  RoomsInv'
<1> DEFINE p == mine[s]
           r == home[p]
<1>1. /\ handler' = [handler EXCEPT ![s] = "done"]
      /\ room' = room /\ mine' = mine /\ joined' = joined /\ home' = home
  BY DEF Leave
<1>2. CASE p = NoPart
  <2>1. members' = members /\ present' = present /\ open' = open
    BY <1>2 DEF Leave
  <2>2. ASSUME NEW u \in Rooms \ {NoName}, NEW q \in members[u] PROVE Held(q)'
    BY <1>1, <1>2 DEF RoomsInv, Held, Types, Part, NoPart
  <2> QED BY <1>1, <2>1, <2>2 DEF RoomsInv, Types, Remembers, Belongs
<1>3. CASE p # NoPart
  <2>1. /\ p \in Part /\ p[1] = s /\ r \in Rooms
        /\ IsFiniteSet(members[r])
    BY <1>3 DEF RoomsInv, Types, Remembers
  <2>2. /\ members' = [members EXCEPT ![r] = members[r] \ {p}]
        /\ present' = IF Cardinality(members[r] \ {p}) = 0 THEN present \ {r} ELSE present
        /\ open' = open \ {p}
    BY <1>3 DEF Leave, CountAfter, Remaining
  <2>3. /\ IsFiniteSet(members[r] \ {p})
        /\ Cardinality(members[r] \ {p}) = 0 <=> members[r] \ {p} = {}
    BY <2>1, FS_Subset, FS_EmptySet
  <2> HIDE DEF p, r
  <2>4. Types'
    BY <1>1, <2>1, <2>2 DEF RoomsInv, Types
  <2>5. ASSUME NEW u \in Rooms PROVE IsFiniteSet(members'[u]) /\ (u \in present' <=> members'[u] # {})
    BY <2>1, <2>2, <2>3 DEF RoomsInv, Types
  <2>6. ASSUME NEW u \in Rooms, NEW q \in members'[u]
        PROVE  q \in members[u] /\ q # p /\ Belongs(u, q)'
    <3>1. q \in members[u] /\ Belongs(u, q)
      BY <2>1, <2>2 DEF RoomsInv, Types
    <3>2. q # p
      BY <2>1, <2>2, <3>1 DEF RoomsInv, Types, Belongs, r
    <3> QED BY <1>1, <2>2, <3>1, <3>2 DEF Belongs
  <2>7. ASSUME NEW u \in Rooms \ {NoName}, NEW q \in members'[u] PROVE Held(q)'
    <3>1. q # p /\ Held(q) /\ q \in Part
      BY <2>6, <2>7 DEF RoomsInv, Types
    <3>2. q[1] # s
      BY <3>1 DEF Held, p
    <3> QED BY <1>1, <3>1, <3>2 DEF Held, RoomsInv, Types, Part
  <2> QED BY <1>1, <2>4, <2>5, <2>6, <2>7 DEF RoomsInv, Remembers
<1> QED BY <1>2, <1>3

LEMMA RoomsInvStep == Parameters /\ RoomsInv /\ [Next]_vars => RoomsInv'
<1> SUFFICES ASSUME Parameters, RoomsInv, [Next]_vars PROVE RoomsInv'
  OBVIOUS
<1>1. CASE \E s \in Streams : \E r \in Rooms : Join(s, r)
  BY <1>1, JoinKeeps
<1>2. CASE \E s \in Streams : Leave(s)
  BY <1>2, LeaveKeeps
<1>3. CASE UNCHANGED <<members, present, handler, room, mine, joined, open, home>>
  BY <1>3 DEF RoomsInv, Types, Remembers, Belongs, Held
<1>4. CASE \E s \in Streams : Chat(s)
  BY <1>3, <1>4 DEF Chat
<1>5. CASE \E p \in Part : Forward(p)
  BY <1>3, <1>5 DEF Forward
<1> QED BY <1>1, <1>2, <1>3, <1>4, <1>5 DEF Next, vars

----------------------------------------------------------------------------
(* No frame is sent on a closed channel, the map holds no empty room, and a *)
(* handler that has returned is in no room with a name (Join, leave,        *)
(* JoinRoom), for any number of clients and rooms.                          *)
THEOREM NobodyStays ==
  ASSUME Parameters
  PROVE  Spec => []NothingLeftOver
<1>1. Init => RoomsInv
  BY RoomsInvInit
<1>2. RoomsInv /\ [Next]_vars => RoomsInv'
  BY RoomsInvStep
<1>3. RoomsInv => NothingLeftOver
  BY DEF RoomsInv, NothingLeftOver, Belongs, Held
<1> QED BY <1>1, <1>2, <1>3, PTL DEF Spec

----------------------------------------------------------------------------
(* What participants are told.                                              *)

LEMMA InAppend ==
  ASSUME NEW q \in Seq(Frame), NEW f \in Frame
  PROVE  /\ Append(q, f) \in Seq(Frame) /\ Len(Append(q, f)) = Len(q) + 1 /\ Len(q) \in Nat
         /\ \A k \in 1..Len(q) : Append(q, f)[k] = q[k]
         /\ Append(q, f)[Len(q) + 1] = f
OBVIOUS

LEMMA ChatsInAppend ==
  ASSUME NEW q \in Seq(Frame), NEW f \in Frame
  PROVE  ChatsIn(Append(q, f)) =
           IF f.kind = "chat" THEN ChatsIn(q) \cup {Len(q) + 1} ELSE ChatsIn(q)
<1>1. 1..(Len(q) + 1) = (1..Len(q)) \cup {Len(q) + 1} /\ Len(q) + 1 \notin 1..Len(q)
  OBVIOUS
<1> QED BY <1>1, InAppend DEF ChatsIn

\* A join or leave is the last there is, and a chat leaves the last one what it was.
LEMMA TellsOfAppend ==
  ASSUME NEW q \in Seq(Frame), NEW f \in Frame, NEW n,
         IF f.kind = "chat" THEN TellsOf(q, n) ELSE f.n = n
  PROVE  TellsOf(Append(q, f), n)
<1> PICK t : t = Append(q, f)
  OBVIOUS
<1> PICK m : m = Len(q)
  OBVIOUS
<1>1. m \in Nat /\ Len(t) = m + 1 /\ t[m + 1] = f /\ \A k \in 1..m : t[k] = q[k]
  BY InAppend
<1>2. ChatsIn(t) = IF f.kind = "chat" THEN ChatsIn(q) \cup {m + 1} ELSE ChatsIn(q)
  BY ChatsInAppend
<1>3. ChatsIn(q) \subseteq 1..m
  BY DEF ChatsIn
<1> SUFFICES ASSUME NEW k \in 1..(m + 1), k \notin ChatsIn(t),
                    \A j \in (k + 1)..(m + 1) : j \in ChatsIn(t)
             PROVE  t[k].n = n
  BY <1>1 DEF TellsOf
<1>4. CASE f.kind = "chat"
  <2>1. k \in 1..m /\ k \notin ChatsIn(q)
    BY <1>1, <1>2, <1>4
  <2>2. \A j \in (k + 1)..m : j \in ChatsIn(q)
    BY <1>1, <1>2, <1>4
  <2>3. q[k].n = n
    BY <1>4, <2>1, <2>2 DEF TellsOf
  <2> QED BY <1>1, <2>1, <2>3
<1>5. CASE f.kind # "chat"
  <2>1. m + 1 \notin ChatsIn(t)
    BY <1>1, <1>2, <1>3, <1>5
  <2>2. k = m + 1
    BY <1>1, <2>1
  <2> QED BY <1>1, <1>5, <2>2
<1> QED BY <1>4, <1>5

\* The chat with the next number goes on with the conversation, and a join or
\* leave does not disturb it.
LEMMA TellsAppend ==
  ASSUME NEW q \in Seq(Frame), NEW f \in Frame, NEW a \in Nat, NEW b \in Nat, a <= b, Tells(q, a, b),
         f.kind = "chat" => f.n = b
  PROVE  Tells(Append(q, f), a, IF f.kind = "chat" THEN b + 1 ELSE b)
<1> PICK t : t = Append(q, f)
  OBVIOUS
<1> PICK m : m = Len(q)
  OBVIOUS
<1>1. m \in Nat /\ Len(t) = m + 1 /\ t[m + 1] = f /\ \A k \in 1..m : t[k] = q[k]
  BY InAppend
<1>2. ChatsIn(t) = IF f.kind = "chat" THEN ChatsIn(q) \cup {m + 1} ELSE ChatsIn(q)
  BY ChatsInAppend
<1>3. ChatsIn(q) \subseteq 1..m
  BY DEF ChatsIn
<1>4. {q[k].n : k \in ChatsIn(q)} = a..(b - 1) /\ \A j, k \in ChatsIn(q) : j < k => q[j].n < q[k].n
  BY DEF Tells
<1>5. \A k \in ChatsIn(q) : t[k] = q[k]
  BY <1>1, <1>3
<1>6. CASE f.kind # "chat"
  <2>1. {t[k].n : k \in ChatsIn(t)} = {q[k].n : k \in ChatsIn(q)}
    BY <1>2, <1>5, <1>6
  <2> QED BY <1>2, <1>4, <1>5, <1>6, <2>1 DEF Tells
<1>7. CASE f.kind = "chat"
  <2>8. t[m + 1].n = b /\ \A k \in ChatsIn(q) : t[k].n = q[k].n
    BY <1>1, <1>5, <1>7
  <2>1. {t[k].n : k \in ChatsIn(t)} = {q[k].n : k \in ChatsIn(q)} \cup {b}
    <3>1. ChatsIn(t) = ChatsIn(q) \cup {m + 1}
      BY <1>2, <1>7
    <3>2. ASSUME NEW x \in {t[k].n : k \in ChatsIn(t)} PROVE x \in {q[k].n : k \in ChatsIn(q)} \cup {b}
      <4>1. PICK k \in ChatsIn(t) : x = t[k].n
        BY <3>2
      <4> QED BY <2>8, <3>1, <4>1
    <3>3. ASSUME NEW x \in {q[k].n : k \in ChatsIn(q)} PROVE x \in {t[k].n : k \in ChatsIn(t)}
      <4>1. PICK k \in ChatsIn(q) : x = q[k].n
        BY <3>3
      <4>2. k \in ChatsIn(t) /\ x = t[k].n
        BY <2>8, <3>1, <4>1
      <4> QED BY <4>2
    <3>4. b \in {t[k].n : k \in ChatsIn(t)}
      BY <2>8, <3>1
    <3> QED BY <3>2, <3>3, <3>4
  <2>2. (a..(b - 1)) \cup {b} = a..((b + 1) - 1)
    OBVIOUS
  <2>3. ASSUME NEW j \in ChatsIn(t), NEW k \in ChatsIn(t), j < k PROVE t[j].n < t[k].n
    <3>1. j \in ChatsIn(q)
      BY <1>1, <1>2, <1>3, <1>7, <2>3
    <3>2. CASE k \in ChatsIn(q)
      BY <1>4, <1>5, <2>3, <3>1, <3>2
    <3>3. CASE k = m + 1
      <4>1. q[j].n \in a..(b - 1)
        BY <1>4, <3>1
      <4>2. t[j].n = q[j].n /\ t[k].n = b
        BY <2>8, <3>1, <3>3
      <4> QED BY <4>1, <4>2
    <3> QED BY <1>2, <1>7, <3>2, <3>3
  <2> QED BY <1>4, <1>7, <2>1, <2>2, <2>3 DEF Tells
<1> QED BY <1>6, <1>7


----------------------------------------------------------------------------
(* Participants that missed no frame agree with the room.                   *)

AgreeInv ==
  /\ RoomsInv
  /\ TypeOK
  /\ \A p \in Part : p[2] > joined[p[1]] => send[p] = <<>> /\ seen[p] = <<>>
  /\ \A r \in Rooms : \A p \in members[r] : from[p] <= chats[r]
  /\ CountsAgree
  /\ SameConversation

Bounds == Parameters /\ SendCap \in Nat /\ MaxChats \in Nat

LEMMA AgreeInit == Bounds /\ Init => AgreeInv
<1> SUFFICES ASSUME Bounds, Init PROVE AgreeInv
  OBVIOUS
<1>1. TypeOK
  BY DEF Bounds, Parameters, Init, TypeOK
<1>2. \A r \in Rooms : members[r] = {}
  BY DEF Init
<1>3. \A p \in Part : send[p] = <<>> /\ seen[p] = <<>>
  BY DEF Init
<1> QED BY <1>1, <1>2, <1>3, RoomsInvInit DEF AgreeInv, Bounds, CountsAgree, SameConversation

\* What a broadcast does to the participants it is for, and to the others.
LEMMA BroadcastGives ==
  ASSUME Bounds, TypeOK, NEW ps \in SUBSET Part, NEW f \in Frame, Broadcast(ps, f)
  PROVE  /\ send' \in [Part -> Seq(Frame)] /\ lost' \subseteq Part
         /\ \A p \in Part : Len(send'[p]) <= SendCap
         /\ \A p \in Part \ ps : send'[p] = send[p]
         /\ \A p \in ps : p \notin lost' => p \notin lost /\ send'[p] = Append(send[p], f)
         /\ lost \subseteq lost'
<1>1. send \in [Part -> Seq(Frame)] /\ lost \subseteq Part /\ \A p \in Part : Len(send[p]) <= SendCap
  BY DEF TypeOK
<1>2. /\ send' = [p \in Part |-> IF p \in ps \ {x \in ps : Full(x)} THEN Append(send[p], f) ELSE send[p]]
      /\ lost' = lost \cup {x \in ps : Full(x)}
  BY DEF Broadcast
<1>3. \A p \in ps \ {x \in ps : Full(x)} :
        Append(send[p], f) \in Seq(Frame) /\ Len(Append(send[p], f)) <= SendCap
  BY <1>1 DEF Full, Bounds
<1> QED BY <1>1, <1>2, <1>3

LEMMA ToldMore ==
  ASSUME NEW q \in Seq(Frame), NEW t \in Seq(Frame), NEW f \in Frame
  PROVE  q \o Append(t, f) = Append(q \o t, f) /\ q \o t \in Seq(Frame)
OBVIOUS

LEMMA ToldInOrder ==
  ASSUME NEW q \in Seq(Frame), NEW t \in Seq(Frame), t # <<>>
  PROVE  Append(q, Head(t)) \o Tail(t) = q \o t
OBVIOUS

\* What a participant has been told, after a broadcast to its room.
LEMMA ToldBroadcast ==
  ASSUME Bounds, TypeOK, NEW ps \in SUBSET Part, NEW f \in Frame, Broadcast(ps, f), seen' = seen,
         NEW p \in Part
  PROVE  /\ Told(p) \in Seq(Frame)
         /\ p \notin ps => Told(p)' = Told(p)
         /\ p \in ps /\ p \notin lost' => p \notin lost /\ Told(p)' = Append(Told(p), f)
<1>1. seen[p] \in Seq(Frame) /\ send[p] \in Seq(Frame)
  BY DEF TypeOK
<1>2. seen[p] \o send[p] \in Seq(Frame) /\ seen[p] \o Append(send[p], f) = Append(seen[p] \o send[p], f)
  BY <1>1, ToldMore
<1>3. p \notin ps => send'[p] = send[p]
  BY BroadcastGives
<1>4. p \in ps /\ p \notin lost' => p \notin lost /\ send'[p] = Append(send[p], f)
  BY BroadcastGives
<1>5. Told(p) \in Seq(Frame) /\ Told(p)' = seen[p] \o send'[p]
  BY <1>2 DEF Told
<1> QED BY <1>2, <1>3, <1>4, <1>5 DEF Told

\* Broadcasts to a room whose count or conversation they are about.
LEMMA BroadcastAgrees ==
  ASSUME Bounds, AgreeInv, RoomsInv', NEW r \in Rooms, NEW ps \in SUBSET members[r], NEW f \in Frame,
         Broadcast(ps, f), seen' = seen,
         \A u \in Rooms \ {r} : members'[u] = members[u] /\ chats'[u] = chats[u],
         IF f.kind = "chat" THEN f.n = chats[r] /\ chats'[r] = chats[r] + 1 /\ members'[r] = members[r]
                            ELSE f.n = Cardinality(members'[r]) /\ chats'[r] = chats[r],
         \A u \in Rooms : \A p \in members[u] : from'[p] = from[p],
         \A p \in members'[r] : p \in ps \/ (p \notin members[r] /\ Told(p)' = <<>> /\ from'[p] = chats'[r])
  PROVE  /\ CountsAgree' /\ SameConversation'
         /\ \A u \in Rooms : \A p \in members'[u] : from'[p] <= chats'[u]
<1>0. TypeOK /\ RoomsInv /\ CountsAgree /\ SameConversation /\ members[r] \subseteq Part /\ ps \in SUBSET Part
  BY DEF AgreeInv, TypeOK
<1>1. ASSUME NEW u \in Rooms \ {r}, NEW p \in members'[u]
      PROVE  /\ p \in members[u] /\ p \in Part /\ p \notin ps /\ Told(p)' = Told(p)
             /\ p \notin lost' => p \notin lost
  <2>1. p \in members[u] /\ p \in Part
    BY <1>0, <1>1 DEF TypeOK
  <2>2. p \notin members[r]
    BY <1>0, <2>1 DEF RoomsInv, Belongs
  <2> QED BY <1>0, <2>1, <2>2, ToldBroadcast, BroadcastGives
<1>2. CountsAgree'
  <2>1. ASSUME NEW u \in Rooms \ {r}, NEW p \in members'[u], p \notin lost'
        PROVE  TellsOf(Told(p)', Cardinality(members'[u]))
    BY <1>0, <1>1, <2>1 DEF CountsAgree
  <2>2. ASSUME NEW p \in members'[r], p \notin lost'
        PROVE  TellsOf(Told(p)', Cardinality(members'[r]))
    <3>1. CASE p \in ps
      <4>1. p \notin lost /\ Told(p)' = Append(Told(p), f) /\ Told(p) \in Seq(Frame)
        BY <1>0, <2>2, <3>1, ToldBroadcast
      <4>2. TellsOf(Told(p), Cardinality(members[r]))
        BY <1>0, <3>1, <4>1 DEF CountsAgree
      <4> QED BY <4>1, <4>2, TellsOfAppend
    <3>2. CASE Told(p)' = <<>>
      BY <3>2 DEF TellsOf
    <3> QED BY <3>1, <3>2
  <2> QED BY <2>1, <2>2 DEF CountsAgree
<1>3. \A u \in Rooms : \A p \in members'[u] : from'[p] <= chats'[u]
  <2>1. ASSUME NEW u \in Rooms \ {r}, NEW p \in members'[u] PROVE from'[p] <= chats'[u]
    BY <1>1, <2>1 DEF AgreeInv
  <2>2. ASSUME NEW p \in members'[r] PROVE from'[p] <= chats'[r]
    <3>1. CASE p \in ps
      <4>1. from[p] <= chats[r] /\ from[p] \in Nat /\ chats[r] \in Nat /\ from'[p] = from[p]
        BY <1>0, <3>1 DEF AgreeInv, TypeOK, Bounds
      <4> QED BY <4>1
    <3>2. CASE from'[p] = chats'[r]
      <4>1. chats'[r] \in Nat
        BY <1>0 DEF TypeOK, Bounds
      <4> QED BY <3>2, <4>1
    <3> QED BY <3>1, <3>2, <2>2
  <2> QED BY <2>1, <2>2
<1>4. SameConversation'
  <2>1. ASSUME NEW u \in Rooms \ {r}, NEW p \in members'[u], p \notin lost'
        PROVE  Tells(Told(p)', from'[p], chats'[u])
    BY <1>0, <1>1, <2>1 DEF SameConversation
  <2>2. ASSUME NEW p \in members'[r], p \notin lost'
        PROVE  Tells(Told(p)', from'[p], chats'[r])
    <3>1. CASE p \in ps
      <4>1. p \notin lost /\ Told(p)' = Append(Told(p), f) /\ Told(p) \in Seq(Frame)
        BY <1>0, <2>2, <3>1, ToldBroadcast
      <4>2. Tells(Told(p), from[p], chats[r])
        BY <1>0, <3>1, <4>1 DEF SameConversation
      <4>3. from[p] <= chats[r] /\ from[p] \in Nat /\ chats[r] \in Nat /\ from'[p] = from[p]
        BY <1>0, <3>1 DEF AgreeInv, TypeOK, Bounds
      <4>4. chats'[r] = IF f.kind = "chat" THEN chats[r] + 1 ELSE chats[r]
        OBVIOUS
      <4> QED BY <4>1, <4>2, <4>3, <4>4, TellsAppend
    <3>2. CASE Told(p)' = <<>> /\ from'[p] = chats'[r]
      <4>1. chats'[r] \in Nat
        BY <1>0 DEF TypeOK, Bounds
      <4>2. ChatsIn(<<>>) = {} /\ chats'[r]..(chats'[r] - 1) = {}
        BY <4>1 DEF ChatsIn
      <4> QED BY <3>2, <4>2 DEF Tells
    <3> QED BY <2>2, <3>1, <3>2
  <2> QED BY <2>1, <2>2 DEF SameConversation
<1> QED BY <1>2, <1>3, <1>4


LEMMA JoinAgrees ==
  ASSUME Bounds, AgreeInv, NEW s \in Streams, NEW r \in Rooms, Join(s, r)
  PROVE  AgreeInv'
<1> PICK p : p = <<s, joined[s] + 1>>
  OBVIOUS
<1> DEFINE f == Presence("join", s, Cardinality(members[r]) + 1)
<1>1. RoomsInv /\ RoomsInv' /\ TypeOK /\ members[r] \in SUBSET Part
  BY JoinKeeps DEF AgreeInv, Bounds, TypeOK
<1>2. /\ joined[s] < MaxJoins /\ joined' = [joined EXCEPT ![s] = @ + 1]
      /\ members' = [members EXCEPT ![r] = @ \cup {p}]
      /\ Broadcast(members[r], f) /\ seen' = seen /\ chats' = chats
      /\ from' = [from EXCEPT ![p] = chats[r]]
  BY DEF Join
<1>3. p \in Part /\ p[1] = s /\ p[2] = joined[s] + 1 /\ joined[s] \in Nat
  BY <1>1, <1>2 DEF TypeOK, Part, Bounds, Parameters
<1>4. \A u \in Rooms : \A q \in members[u] : q # p /\ q \in Part /\ q[2] <= joined[q[1]]
  <2>1. \A u \in Rooms : \A q \in members[u] : q \in Part /\ q[2] <= joined[q[1]]
    BY <1>1 DEF RoomsInv, Belongs, TypeOK
  <2> QED BY <1>3, <2>1
<1>5. Cardinality(members[r]) \in Nat /\ Cardinality(members'[r]) = Cardinality(members[r]) + 1
  <2>1. members'[r] = members[r] \cup {p} /\ p \notin members[r] /\ IsFiniteSet(members[r])
    BY <1>1, <1>2, <1>4 DEF RoomsInv, TypeOK
  <2> QED BY <2>1, FS_AddElement, FS_CardinalityType
<1>6. f \in Frame /\ f.kind = "join" /\ f.n = Cardinality(members'[r])
  BY <1>5 DEF Presence, Frame
<1> HIDE DEF f
<1>7. /\ send' \in [Part -> Seq(Frame)] /\ lost' \subseteq Part
      /\ \A q \in Part : Len(send'[q]) <= SendCap
      /\ \A q \in Part \ members[r] : send'[q] = send[q]
  BY <1>1, <1>2, <1>6, BroadcastGives
<1>8. TypeOK'
  <2>1. joined' \in [Streams -> 0..MaxJoins]
    BY <1>1, <1>2, <1>3 DEF TypeOK, Bounds, Parameters
  <2>2. from' \in [Part -> Nat] /\ chats' \in [Rooms -> 0..MaxChats] /\ seen' \in [Part -> Seq(Frame)]
    BY <1>1, <1>2, <1>3 DEF TypeOK, Bounds
  <2> QED BY <1>1, <1>7, <2>1, <2>2 DEF TypeOK, RoomsInv, Types
<1>9. send'[p] = <<>> /\ seen'[p] = <<>>
  <2>1. send[p] = <<>> /\ seen[p] = <<>>
    BY <1>3 DEF AgreeInv
  <2> QED BY <1>2, <1>3, <1>4, <1>7, <2>1
<1>10. ASSUME NEW q \in Part, q[2] > joined'[q[1]] PROVE send'[q] = <<>> /\ seen'[q] = <<>>
  <2>1. q[2] > joined[q[1]] /\ q[2] \in Nat /\ q[1] \in Streams /\ joined[q[1]] \in Nat
    <3>1. q[2] \in Nat /\ q[1] \in Streams /\ joined \in [Streams -> Nat]
      BY <1>1, <1>10 DEF TypeOK, Part
    <3>2. joined'[q[1]] = IF q[1] = s THEN joined[s] + 1 ELSE joined[q[1]]
      BY <1>2, <3>1
    <3> QED BY <1>10, <3>1, <3>2
  <2>2. q \notin members[r]
    BY <1>4, <2>1
  <2> QED BY <1>2, <1>7, <2>1, <2>2 DEF AgreeInv
<1>11. Told(p)' = <<>> /\ from'[p] = chats'[r]
  <2>1. <<>> \o <<>> = <<>>
    OBVIOUS
  <2>2. Told(p)' = <<>>
    BY <1>9, <2>1 DEF Told
  <2> QED BY <1>1, <1>2, <1>3, <2>2 DEF TypeOK
<1>12. /\ CountsAgree' /\ SameConversation'
       /\ \A u \in Rooms : \A q \in members'[u] : from'[q] <= chats'[u]
  <2>1. \A u \in Rooms \ {r} : members'[u] = members[u] /\ chats'[u] = chats[u]
    BY <1>1, <1>2 DEF TypeOK
  <2>2. chats'[r] = chats[r]
    BY <1>2
  <2>3. \A u \in Rooms : \A q \in members[u] : from'[q] = from[q]
    BY <1>1, <1>2, <1>4 DEF TypeOK
  <2>4. \A q \in members'[r] : \/ q \in members[r]
                               \/ q \notin members[r] /\ Told(q)' = <<>> /\ from'[q] = chats'[r]
    <3>1. \A q \in members'[r] : q \in members[r] \/ q = p
      BY <1>1, <1>2 DEF TypeOK
    <3>2. p \notin members[r]
      BY <1>4
    <3> QED BY <1>11, <3>1, <3>2
  <2> QED BY <1>1, <1>2, <1>6, <2>1, <2>2, <2>3, <2>4, BroadcastAgrees
<1> QED BY <1>1, <1>8, <1>10, <1>12 DEF AgreeInv

LEMMA ChatAgrees ==
  ASSUME Bounds, AgreeInv, NEW s \in Streams, Chat(s)
  PROVE  AgreeInv'
<1> DEFINE r == room[s]
           f == [kind |-> "chat", who |-> s, n |-> chats[r]]
<1>1. RoomsInv /\ TypeOK /\ members[r] \in SUBSET Part /\ r \in Rooms /\ chats[r] \in Nat
  BY DEF AgreeInv, Bounds, TypeOK
<1>2. /\ chats[r] < MaxChats /\ chats' = [chats EXCEPT ![r] = @ + 1]
      /\ Broadcast(members[r], f)
      /\ UNCHANGED <<members, present, handler, room, mine, joined, open, seen, home, from>>
  BY DEF Chat, Audience
<1>3. f \in Frame /\ f.kind = "chat" /\ f.n = chats[r]
  BY <1>1 DEF Frame
<1> HIDE DEF r, f
<1>4. RoomsInv'
  BY <1>1, <1>2 DEF RoomsInv, Types, Remembers, Belongs, Held
<1>5. /\ send' \in [Part -> Seq(Frame)] /\ lost' \subseteq Part
      /\ \A q \in Part : Len(send'[q]) <= SendCap
      /\ \A q \in Part \ members[r] : send'[q] = send[q]
  BY <1>1, <1>2, <1>3, BroadcastGives
<1>6. TypeOK'
  <2>1. chats' \in [Rooms -> 0..MaxChats]
    BY <1>1, <1>2 DEF TypeOK, Bounds
  <2> QED BY <1>1, <1>2, <1>5, <2>1 DEF TypeOK
<1>7. ASSUME NEW q \in Part, q[2] > joined'[q[1]] PROVE send'[q] = <<>> /\ seen'[q] = <<>>
  <2>1. q[2] \in Nat /\ q[1] \in Streams /\ joined[q[1]] \in Nat
    BY <1>1 DEF TypeOK, Part
  <2>2. q \notin members[r]
    BY <1>1, <1>2, <1>7, <2>1 DEF RoomsInv, Belongs
  <2> QED BY <1>2, <1>5, <1>7, <2>2 DEF AgreeInv
<1>8. /\ CountsAgree' /\ SameConversation'
      /\ \A u \in Rooms : \A q \in members'[u] : from'[q] <= chats'[u]
  <2>1. \A u \in Rooms \ {r} : members'[u] = members[u] /\ chats'[u] = chats[u]
    BY <1>1, <1>2 DEF TypeOK
  <2>2. chats'[r] = chats[r] + 1 /\ members'[r] = members[r]
    BY <1>1, <1>2 DEF TypeOK
  <2> QED BY <1>1, <1>2, <1>3, <1>4, <2>1, <2>2, BroadcastAgrees
<1> QED BY <1>4, <1>6, <1>7, <1>8 DEF AgreeInv

LEMMA LeaveAgrees ==
  ASSUME Bounds, AgreeInv, NEW s \in Streams, Leave(s)
  PROVE  AgreeInv'
<1>1. RoomsInv /\ RoomsInv' /\ TypeOK
  BY LeaveKeeps DEF AgreeInv
<1>2. handler' = [handler EXCEPT ![s] = "done"] /\ UNCHANGED <<room, mine, joined, seen, home, from, chats>>
  BY DEF Leave
<1>3. CASE mine[s] = NoPart
  <2>1. UNCHANGED <<members, send, lost>>
    BY <1>3 DEF Leave
  <2>2. TypeOK'
    BY <1>1, <1>2, <2>1 DEF TypeOK, RoomsInv, Types
  <2> QED BY <1>1, <1>2, <2>1, <2>2 DEF AgreeInv, CountsAgree, SameConversation, Told
<1>4. CASE mine[s] # NoPart
  <2> PICK p : p = mine[s]
    OBVIOUS
  <2> PICK r : r = home[p]
    OBVIOUS
  <2> DEFINE ps == members[r] \ {p}
             f == Presence("leave", s, Cardinality(ps))
  <2>1. r \in Rooms /\ p \in Part
    BY <1>1, <1>4 DEF TypeOK
  <2>2. members' = [members EXCEPT ![r] = ps] /\ Broadcast(ps, f)
    BY <1>4 DEF Leave, CountAfter, Remaining
  <2>3. members'[r] = ps /\ ps \in SUBSET members[r] /\ ps \in SUBSET Part
    BY <1>1, <2>1, <2>2 DEF TypeOK
  <2>4. Cardinality(ps) \in Nat
    BY <1>1, <2>1, <2>3, FS_CardinalityType DEF RoomsInv
  <2>5. f \in Frame /\ f.kind = "leave" /\ f.n = Cardinality(members'[r])
    BY <2>3, <2>4 DEF Presence, Frame
  <2> HIDE DEF ps, f
  <2>6. /\ send' \in [Part -> Seq(Frame)] /\ lost' \subseteq Part
        /\ \A q \in Part : Len(send'[q]) <= SendCap
        /\ \A q \in Part \ ps : send'[q] = send[q]
    BY <1>1, <2>2, <2>3, <2>5, BroadcastGives
  <2>7. TypeOK'
    BY <1>1, <1>2, <2>6 DEF TypeOK, RoomsInv, Types
  <2>8. ASSUME NEW q \in Part, q[2] > joined'[q[1]] PROVE send'[q] = <<>> /\ seen'[q] = <<>>
    <3>1. q[2] \in Nat /\ q[1] \in Streams /\ joined[q[1]] \in Nat
      BY <1>1 DEF TypeOK, Part
    <3>2. q \notin ps
      BY <1>1, <1>2, <2>1, <2>3, <2>8, <3>1 DEF RoomsInv, Belongs
    <3> QED BY <1>2, <2>6, <2>8, <3>2 DEF AgreeInv
  <2>9. /\ CountsAgree' /\ SameConversation'
        /\ \A u \in Rooms : \A q \in members'[u] : from'[q] <= chats'[u]
    <3>1. \A u \in Rooms \ {r} : members'[u] = members[u] /\ chats'[u] = chats[u]
      BY <1>1, <1>2, <2>1, <2>2 DEF TypeOK
    <3> QED BY <1>1, <1>2, <2>1, <2>2, <2>3, <2>5, <3>1, BroadcastAgrees
  <2> QED BY <1>1, <2>7, <2>8, <2>9 DEF AgreeInv
<1> QED BY <1>3, <1>4

\* A frame on its way changes nothing of what a participant is told.
LEMMA ForwardAgrees ==
  ASSUME Bounds, AgreeInv, NEW p \in Part, Forward(p)
  PROVE  AgreeInv'
<1>1. RoomsInv /\ TypeOK /\ send[p] \in Seq(Frame) /\ seen[p] \in Seq(Frame)
  BY DEF AgreeInv, TypeOK
<1>2. /\ send[p] # <<>>
      /\ seen' = [seen EXCEPT ![p] = Append(@, Head(send[p]))]
      /\ send' = [send EXCEPT ![p] = Tail(@)]
      /\ UNCHANGED <<members, present, handler, room, mine, joined, open, lost, home, from, chats>>
  BY DEF Forward
<1>3. RoomsInv'
  BY <1>1, <1>2 DEF RoomsInv, Types, Remembers, Belongs, Held
<1>4. /\ Append(seen[p], Head(send[p])) \in Seq(Frame)
      /\ Tail(send[p]) \in Seq(Frame) /\ Len(Tail(send[p])) <= Len(send[p])
      /\ Len(send[p]) \in Nat /\ Len(Tail(send[p])) \in Nat
  BY <1>1, <1>2
<1>5. TypeOK'
  <2>1. send' \in [Part -> Seq(Frame)] /\ seen' \in [Part -> Seq(Frame)]
    BY <1>1, <1>2, <1>4 DEF TypeOK
  <2>2. ASSUME NEW q \in Part PROVE Len(send'[q]) <= SendCap
    <3>1. Len(send[q]) <= SendCap /\ send' = [send EXCEPT ![p] = Tail(send[p])]
      BY <1>1, <1>2 DEF TypeOK
    <3>2. CASE q = p
      BY <1>1, <1>4, <3>1, <3>2 DEF TypeOK, Bounds
    <3>3. CASE q # p
      BY <1>1, <3>1, <3>3 DEF TypeOK
    <3> QED BY <3>2, <3>3
  <2> QED BY <1>1, <1>2, <2>1, <2>2 DEF TypeOK
<1>6. \A q \in Part : Told(q)' = Told(q)
  <2>1. Told(p)' = Told(p)
    <3>1. seen'[p] = Append(seen[p], Head(send[p])) /\ send'[p] = Tail(send[p])
      BY <1>1, <1>2 DEF TypeOK
    <3> QED BY <1>1, <1>2, <3>1, ToldInOrder DEF Told
  <2>2. \A q \in Part \ {p} : seen'[q] = seen[q] /\ send'[q] = send[q]
    BY <1>1, <1>2 DEF TypeOK
  <2> QED BY <2>1, <2>2 DEF Told
<1>7. ASSUME NEW q \in Part, q[2] > joined'[q[1]] PROVE send'[q] = <<>> /\ seen'[q] = <<>>
  <2>1. q # p /\ send[q] = <<>> /\ seen[q] = <<>>
    BY <1>2, <1>7 DEF AgreeInv
  <2> QED BY <1>1, <1>2, <2>1 DEF TypeOK
<1>8. \A r \in Rooms : members[r] \subseteq Part
  BY <1>1 DEF TypeOK
<1>9. CountsAgree' /\ SameConversation'
  BY <1>2, <1>6, <1>8 DEF AgreeInv, CountsAgree, SameConversation
<1> QED BY <1>2, <1>3, <1>5, <1>7, <1>9 DEF AgreeInv

LEMMA AgreeStep == Bounds /\ AgreeInv /\ [Next]_vars => AgreeInv'
<1> SUFFICES ASSUME Bounds, AgreeInv, [Next]_vars PROVE AgreeInv'
  OBVIOUS
<1>1. CASE \E s \in Streams : \E r \in Rooms : Join(s, r)
  BY <1>1, JoinAgrees
<1>2. CASE \E s \in Streams : Chat(s)
  BY <1>2, ChatAgrees
<1>3. CASE \E s \in Streams : Leave(s)
  BY <1>3, LeaveAgrees
<1>4. CASE \E p \in Part : Forward(p)
  BY <1>4, ForwardAgrees
<1>5. CASE UNCHANGED vars
  BY <1>5, RoomsInvStep DEF vars, AgreeInv, Bounds, TypeOK, CountsAgree, SameConversation, Told
<1> QED BY <1>1, <1>2, <1>3, <1>4, <1>5 DEF Next

\* Rooms are of their type and leave nothing over: channels hold no more than
\* their capacity.
THEOREM RoomsAreClean ==
  ASSUME Bounds
  PROVE  Spec => []RoomsStayClean
<1>1. Init => AgreeInv
  BY AgreeInit
<1>2. AgreeInv /\ [Next]_vars => AgreeInv'
  BY AgreeStep
<1>3. AgreeInv => RoomsStayClean
  BY DEF AgreeInv, RoomsStayClean, RoomsInv, NothingLeftOver, Belongs, Held
<1> QED BY <1>1, <1>2, <1>3, PTL DEF Spec

\* Participants that missed no frame know how many they are, and see every chat
\* since they joined in one order (Join, leave, Broadcast), for any number of
\* clients, rooms, joins and chats, and any capacity of the channels.
THEOREM ParticipantsAgree ==
  ASSUME Bounds
  PROVE  Spec => []RoomsAgree
<1>1. Init => AgreeInv
  BY AgreeInit
<1>2. AgreeInv /\ [Next]_vars => AgreeInv'
  BY AgreeStep
<1>3. AgreeInv => RoomsAgree
  BY DEF AgreeInv, RoomsAgree
<1> QED BY <1>1, <1>2, <1>3, PTL DEF Spec
=============================================================================
