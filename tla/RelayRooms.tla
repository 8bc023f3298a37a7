----------------------------- MODULE RelayRooms -----------------------------
(***************************************************************************)
(* Chat rooms of relay: the RoomStore and the JoinRoom RPC, one handler    *)
(* per client stream.  A participant is <<stream, n>>: a handler that has  *)
(* joined the room with the empty name takes itself for not joined and     *)
(* can join again.                                                         *)
(***************************************************************************)
EXTENDS Naturals, Sequences, FiniteSets

CONSTANTS
  Streams,   \* JoinRoom calls
  Rooms,     \* room names
  NoName,    \* the empty room name, one of Rooms
  MaxJoins,  \* bound: participants a handler creates
  SendCap,   \* capacity of a participant's channel
  MaxChats   \* bound: chats broadcast in a room

Part == Streams \X (1..MaxJoins)
NoPart == <<>>

VARIABLES
  members,  \* RoomStore.rooms: the participants of each room
  present,  \* the rooms that are keys of the map
  handler,  \* the RPC: receiving or returned
  room,     \* its variable room
  mine,     \* the participant its leave function removes ...
  home,     \* ... from the room it was created for
  joined,   \* how often it has joined
  send,     \* roomParticipant.send
  open,     \* participants whose channel is open
  seen, lost, from, chats  \* history: frames forwarded, whether one was dropped,
                    \* chats in the room at the join and now

vars == <<members, present, handler, room, mine, home, joined, send, open,
          seen, lost, from, chats>>

Frame == [kind : {"join", "leave"}, who : Streams, n : Nat] \cup
         [kind : {"chat"}, who : Streams, n : Nat]

TypeOK ==
  /\ members \in [Rooms -> SUBSET Part]
  /\ present \subseteq Rooms
  /\ handler \in [Streams -> {"on", "done"}]
  /\ room \in [Streams -> Rooms]
  /\ mine \in [Streams -> Part \cup {NoPart}]
  /\ joined \in [Streams -> 0..MaxJoins]
  /\ send \in [Part -> Seq(Frame)]
  /\ \A p \in Part : Len(send[p]) <= SendCap
  /\ open \subseteq Part
  /\ seen \in [Part -> Seq(Frame)]
  /\ lost \subseteq Part
  /\ home \in [Part -> Rooms]
  /\ from \in [Part -> Nat]
  /\ chats \in [Rooms -> 0..MaxChats]

Init ==
  /\ members = [r \in Rooms |-> {}]
  /\ present = {}
  /\ handler = [s \in Streams |-> "on"]
  /\ room = [s \in Streams |-> NoName]
  /\ mine = [s \in Streams |-> NoPart]
  /\ joined = [s \in Streams |-> 0]
  /\ send = [p \in Part |-> <<>>]
  /\ open = {}
  /\ seen = [p \in Part |-> <<>>]
  /\ lost = {}
  /\ home = [p \in Part |-> NoName]
  /\ from = [p \in Part |-> 0]
  /\ chats = [r \in Rooms |-> 0]

Full(p) == Len(send[p]) >= SendCap

\* The frame goes to everyone in ps whose channel has room; the others miss it.
Broadcast(ps, f) ==
  LET full == {p \in ps : Full(p)} IN
  /\ send' = [p \in Part |-> IF p \in ps \ full THEN Append(send[p], f) ELSE send[p]]
  /\ lost' = lost \cup full

Presence(k, s, n) == [kind |-> k, who |-> s, n |-> n]

MayJoin(s) == room[s] = NoName

\* The joining participant is counted but not told.
Join(s, r) ==
  LET p == <<s, joined[s] + 1>> IN
  /\ handler[s] = "on"
  /\ MayJoin(s)
  /\ joined[s] < MaxJoins
  /\ joined' = [joined EXCEPT ![s] = @ + 1]
  /\ room' = [room EXCEPT ![s] = r]
  /\ mine' = [mine EXCEPT ![s] = p]
  /\ members' = [members EXCEPT ![r] = @ \cup {p}]
  /\ present' = present \cup {r}
  /\ open' = open \cup {p}
  /\ Broadcast(members[r], Presence("join", s, Cardinality(members[r]) + 1))
  /\ home' = [home EXCEPT ![p] = r]
  /\ from' = [from EXCEPT ![p] = chats[r]]
  /\ UNCHANGED <<handler, seen, chats>>

\* Mutant: everyone in the room but the sender.
AudienceWithoutSender(s, r) == members[r] \ {mine[s]}

Audience(s, r) == members[r]

\* A chat goes to the sender, too.  The history numbers the chats of a room.
Chat(s) ==
  LET r == room[s] IN
  /\ handler[s] = "on"
  /\ r # NoName
  /\ chats[r] < MaxChats
  /\ members[r] # {}
  /\ chats' = [chats EXCEPT ![r] = @ + 1]
  /\ Broadcast(Audience(s, r), [kind |-> "chat", who |-> s, n |-> chats[r]])
  /\ UNCHANGED <<members, present, handler, room, mine, joined, open, seen, home, from>>

\* Mutant: the room is counted before the participant is removed.
CountBefore(r, p) == Cardinality(members[r])

CountAfter(r, p) == Cardinality(members[r] \ {p})
Remaining(r, p) == members[r] \ {p}

\* The client sends RoomLeave, ends its side of the stream, or is gone; the
\* handler returns and its deferred leave runs.
Leave(s) ==
  LET p == mine[s]
      r == home[p]
      n == CountAfter(r, p) IN
  /\ handler[s] = "on"
  /\ handler' = [handler EXCEPT ![s] = "done"]
  /\ IF p = NoPart
     THEN UNCHANGED <<members, present, open, send, lost>>
     ELSE /\ members' = [members EXCEPT ![r] = Remaining(r, p)]
          /\ present' = IF n = 0 THEN present \ {r} ELSE present
          /\ open' = open \ {p}
          /\ Broadcast(Remaining(r, p), Presence("leave", s, n))
  /\ UNCHANGED <<room, mine, joined, seen, home, from, chats>>

\* The participant's goroutine sends a frame to the client.
Forward(p) ==
  /\ send[p] # <<>>
  /\ seen' = [seen EXCEPT ![p] = Append(@, Head(send[p]))]
  /\ send' = [send EXCEPT ![p] = Tail(@)]
  /\ UNCHANGED <<members, present, handler, room, mine, joined, open, lost, home, from, chats>>

Next ==
  \/ \E s \in Streams : (\E r \in Rooms : Join(s, r)) \/ Chat(s) \/ Leave(s)
  \/ \E p \in Part : Forward(p)

Spec == Init /\ [][Next]_vars

----------------------------------------------------------------------------
(* Properties. *)

\* Everything sent to a participant that was not dropped.
Told(p) == seen[p] \o send[p]
ChatsIn(q) == {k \in 1..Len(q) : q[k].kind = "chat"}

\* The last join or leave in q, if there is one, tells of n people.
TellsOf(q, n) ==
  \A k \in 1..Len(q) :
    k \notin ChatsIn(q) /\ (\A j \in (k + 1)..Len(q) : j \in ChatsIn(q)) => q[k].n = n

\* The chats in q are those from the one to the other number, in their order.
Tells(q, first, next) ==
  /\ {q[k].n : k \in ChatsIn(q)} = first..(next - 1)
  /\ \A j, k \in ChatsIn(q) : j < k => q[j].n < q[k].n

\* The number of people a participant is told of last ("(%d here)",
\* PrintPresence) is the number in the room, as long as it missed no frame:
\* joins and leaves are counted and queued under one lock.
CountsAgree ==
  \A r \in Rooms : \A p \in members[r] :
    p \notin lost => TellsOf(Told(p), Cardinality(members[r]))

\* Participants that missed no frame see the chats of their room since they
\* joined, all of them and in the same order.
SameConversation ==
  \A r \in Rooms : \A p \in members[r] :
    p \notin lost => Tells(Told(p), from[p], chats[r])

\* Nothing is left over: the members of a room have open channels, since
\* leave closes one only when no room holds the participant; the rooms of the
\* map are those with someone in them; and a handler that has returned leaves
\* no participant behind, except in the room without a name, which does not
\* count as joined (server.go:86).
NothingLeftOver ==
  /\ \A r \in Rooms : members[r] \subseteq open /\ (r \in present <=> members[r] # {})
  /\ \A r \in Rooms \ {NoName} : \A p \in members[r] : handler[p[1]] = "on" /\ mine[p[1]] = p

RoomsStayClean == TypeOK /\ NothingLeftOver

\* Participants agree with the room, and with each other (Join, Chat).
RoomsAgree == CountsAgree /\ SameConversation

=============================================================================
