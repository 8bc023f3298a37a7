-------------------------- MODULE CloakTunnelProofs --------------------------
(***************************************************************************)
(* Proofs about CloakTunnel, for a network that may lose, repeat and       *)
(* reorder every datagram but delivers an OPEN at most once (MaxOpens = 1):*)
(* the code has no defence against a second OPEN, as the model shows.      *)
(***************************************************************************)
EXTENDS CloakTunnel, TLAPS

Pushing(o) == loop[o[1]] # NoPush /\ loop[o[1]][1] = o

\* Lengths of the sequences of an object: chunks read, queued, written.
GotLen(o) == Len(got[o])
InboxLen(o) == Len(inbox[o])
SentLen(o) == Len(sent[o])

\* Chunks of o that are read, queued or being queued.
Taken(o) == GotLen(o) + InboxLen(o) + (IF Pushing(o) THEN 1 ELSE 0)

\* The writer of a stream is one chunk ahead of its confirmations at most, and
\* the receiver is between the two.
WriterInv(o) ==
  /\ acked[o] <= nextSeq[o]
  /\ nextSeq[o] <= acked[o] + 1
  /\ wr[o] \in {"off", "idle"} => acked[o] = nextSeq[o] /\ ~ackCh[o] /\ pending[o] = NoData
  /\ wr[o] = "waiting" => nextSeq[o] = acked[o] + 1
  /\ phase[o] \in {"none", "opening", "dialing"} => wr[o] = "off"
  /\ ackCh[o] => pending[o] = NoData /\ nextSeq[o] <= recvNext[PeerObj(o)]
  /\ acked[o] <= recvNext[PeerObj(o)]

\* A chunk on the wire is the one its sequence number stands for, and every
\* chunk before it is confirmed; an acknowledgement is for an accepted chunk.
WireInv(m) ==
  LET w == <<m.from, m.id, 1>> IN
  /\ m.type = "DATA" => /\ m.seq <= acked[w]
                        /\ m.seq < SentLen(w)
                        /\ m.body = sent[w][m.seq + 1]
  /\ m.type = "ACK" => m.seq < recvNext[w]

\* What an object holds is the beginning of what its peer wrote; while it is
\* registered nothing of what it accepted is missing.
Counts(o) ==
  /\ recvNext[o] <= SentLen(PeerObj(o))
  /\ Taken(o) <= recvNext[o]
  /\ tab[<<o[1], o[2]>>] = 1 => Taken(o) = recvNext[o] /\ ~closed[o]
  /\ phase[o] = "none" => recvNext[o] = 0 /\ ~closed[o] /\ tab[<<o[1], o[2]>>] = 0

Contents(o) ==
  LET w == PeerObj(o) IN
  /\ \A n \in 1..GotLen(o) : got[o][n] = sent[w][n]
  /\ \A n \in 1..InboxLen(o) : inbox[o][n] = sent[w][GotLen(o) + n]
  /\ Pushing(o) => loop[o[1]][2] = sent[w][GotLen(o) + InboxLen(o) + 1]

ReaderInv(o) == Counts(o) /\ Contents(o)

IInv ==
  /\ TypeOK
  /\ \A o \in Obj : WriterInv(o) /\ ReaderInv(o)
  /\ \A m \in net : WireInv(m)

----------------------------------------------------------------------------

USE TunnelAssumption

LEMMA Objects ==
  /\ \A i \in Streams : <<"client", i, 1>> \in Obj
  /\ \A i \in Streams, k \in 1..MaxOpens : <<"server", i, k>> \in Obj
  /\ \A o \in Obj : o[1] \in Side /\ o[2] \in Streams /\ o[3] \in 1..MaxOpens
BY DEF Obj, Side

LEMMA Slots == \A o \in Obj : <<o[1], o[2]>> \in Side \X Streams
BY Objects

LEMMA Lengths ==
  ASSUME TypeOK, NEW o \in Obj
  PROVE  /\ sent[o] \in Seq(Data) /\ got[o] \in Seq(Data) /\ inbox[o] \in Seq(Data)
         /\ SentLen(o) \in Nat /\ GotLen(o) \in Nat /\ InboxLen(o) \in Nat
         /\ recvNext[o] \in Nat
<1>1. sent[o] \in Seq(Data) /\ got[o] \in Seq(Data) /\ inbox[o] \in Seq(Data)
  BY DEF TypeOK, WriterType, ReaderType
<1>2. recvNext[o] \in Nat
  BY DEF TypeOK, ReaderType
<1> QED
  BY <1>1, <1>2 DEF SentLen, GotLen, InboxLen

LEMMA Sides == "client" \in Side /\ "server" \in Side /\ \A e \in Side : Other(e) \in Side
BY DEF Side, Other

LEMMA Datagrams ==
  /\ \A t \in Signal, e \in Side, i \in Streams, q \in Nat :
       Message(t, e, i, q, NoData) \in Datagram
  /\ \A e \in Side, i \in Streams, q \in Nat, d \in Data :
       Message("DATA", e, i, q, d) \in Datagram
  /\ \A m \in Datagram :
       /\ m.from \in Side /\ m.id \in Streams /\ m.seq \in Nat
       /\ m.type = "DATA" => m.body \in Data
BY DEF Message, Datagram, Signal

\* The signals that a stream object sends, which carry no sequence number.
LEMMA Signals ==
  ASSUME NEW o \in Obj, NEW e \in Side
  PROVE  \A t \in {"OPEN", "OPENACK", "OPENERR", "CLOSE"} :
           Message(t, e, o[2], 0, NoData) \in Datagram
<1>1. o[2] \in Streams /\ 0 \in Nat
  BY Objects
<1>2. {"OPEN", "OPENACK", "OPENERR", "CLOSE"} \subseteq Signal
  BY DEF Signal
<1> QED BY <1>1, <1>2, Datagrams

\* The object that an id is registered for is one.
LEMMA CurrentObj ==
  ASSUME TypeOK, NEW e \in Side, NEW i \in Streams, Registered(e, i)
  PROVE  Current(e, i) \in Obj /\ Current(e, i)[1] = e
BY DEF TypeOK, TableType, Registered, Current, Obj, Side

LEMMA InitType == Init => TypeOK
BY Objects DEF Init, TypeOK, TableType, WriterType, ReaderType, LoopType, Side

\* Removing a stream keeps the table and the closed flags well typed.
LEMMA RemoveType ==
  ASSUME TypeOK, NEW e \in Side, NEW i \in Streams, RemoveStream(e, i)
  PROVE  /\ tab' \in [Side \X Streams -> 0..MaxOpens]
         /\ \A j \in Streams : tab'[<<"client", j>>] <= 1
         /\ closed' \in [Obj -> BOOLEAN]
<1>1. Registered(e, i) => Current(e, i) \in Obj
  BY CurrentObj
<1>2. 0 \in 0..MaxOpens
  BY TunnelAssumption
<1> QED
  BY <1>1, <1>2 DEF TypeOK, TableType, RemoveStream

LEMMA NextType == TypeOK /\ [Next]_vars => TypeOK'
<1> SUFFICES ASSUME TypeOK, [Next]_vars PROVE TypeOK'
  OBVIOUS
<1> USE DEF TypeOK
<1>1. ASSUME NEW i \in Streams, Open(i) PROVE TypeOK'
  <2>1. net' \subseteq Datagram
    BY <1>1, Objects, Sides, Datagrams DEF Open, Signal
  <2>2. TableType'
    BY <1>1, Objects, Sides DEF Open, TableType
  <2>3. WriterType' /\ ReaderType' /\ LoopType'
    BY <1>1 DEF Open, WriterType, sendVars, ReaderType, recvVars, LoopType
  <2> QED
    BY <2>1, <2>2, <2>3
<1>2. ASSUME NEW i \in Streams, OpenOk(i) PROVE TypeOK'
  <2>1. TableType'
    BY <1>2, Objects DEF OpenOk, TableType, StartRelay
  <2>2. WriterType'
    BY <1>2, Objects DEF OpenOk, WriterType, StartRelay, sendVars
  <2>3. ReaderType'
    BY <1>2, Objects DEF OpenOk, ReaderType, StartRelay, recvVars
  <2>4. net' \subseteq Datagram /\ LoopType'
    BY <1>2 DEF OpenOk, LoopType
  <2> QED
    BY <2>1, <2>2, <2>3, <2>4
<1>3. ASSUME NEW i \in Streams, OpenFails(i) PROVE TypeOK'
  <2>1. TableType'
    BY <1>3, RemoveType, Objects, Sides DEF OpenFails, TableType
  <2>2. net' \subseteq Datagram /\ WriterType' /\ ReaderType' /\ LoopType'
    BY <1>3 DEF OpenFails, WriterType, sendVars, ReaderType, recvVars, LoopType
  <2> QED
    BY <2>1, <2>2
<1>4. ASSUME NEW m \in net, NEW k \in 1..MaxOpens, OnOpen(m, k) PROVE TypeOK'
  <2>1. TableType'
    BY <1>4, Objects, Sides, Datagrams DEF OnOpen, TableType, Arrives
  <2>2. net' \subseteq Datagram /\ WriterType' /\ ReaderType' /\ LoopType'
    BY <1>4 DEF OnOpen, WriterType, sendVars, ReaderType, recvVars, LoopType
  <2> QED
    BY <2>1, <2>2
<1>5. ASSUME NEW m \in net, OnOpenReply(m) PROVE TypeOK'
  <2>1. TableType'
    BY <1>5, Datagrams DEF OnOpenReply, TableType
  <2>2. net' \subseteq Datagram /\ WriterType' /\ ReaderType' /\ LoopType'
    BY <1>5 DEF OnOpenReply, WriterType, sendVars, ReaderType, recvVars, LoopType
  <2> QED
    BY <2>1, <2>2
<1>6. ASSUME NEW o \in Obj, DialOk(o) PROVE TypeOK'
  <2>1. net' \subseteq Datagram
    BY <1>6, Signals, Sides DEF DialOk
  <2>2. TableType'
    BY <1>6 DEF DialOk, TableType, StartRelay
  <2>3. WriterType'
    BY <1>6 DEF DialOk, WriterType, StartRelay, sendVars
  <2>4. ReaderType'
    BY <1>6 DEF DialOk, ReaderType, StartRelay, recvVars
  <2>5. LoopType'
    BY <1>6 DEF DialOk, LoopType
  <2> QED
    BY <2>1, <2>2, <2>3, <2>4, <2>5
<1>7. ASSUME NEW o \in Obj, DialErr(o) PROVE TypeOK'
  <2>1. net' \subseteq Datagram
    BY <1>7, Signals, Sides DEF DialErr
  <2>2. TableType'
    BY <1>7, RemoveType, Objects, Sides DEF DialErr, TableType
  <2>3. WriterType' /\ ReaderType' /\ LoopType'
    BY <1>7 DEF DialErr, WriterType, sendVars, ReaderType, recvVars, LoopType
  <2> QED
    BY <2>1, <2>2, <2>3
<1>8. ASSUME NEW o \in Obj, NEW d \in Data, Write(o, d) PROVE TypeOK'
  <2>1. net' \subseteq Datagram
    BY <1>8, Objects, Datagrams DEF Write, Signal, WriterType
  <2>2. WriterType'
    BY <1>8 DEF Write, WriterType
  <2>3. TableType' /\ ReaderType' /\ LoopType'
    BY <1>8 DEF Write, TableType, lifeVars, ReaderType, recvVars, LoopType
  <2> QED
    BY <2>1, <2>2, <2>3
<1>9. ASSUME NEW o \in Obj, Resend(o) PROVE TypeOK'
  <2>1. net' \subseteq Datagram
    BY <1>9, Objects, Datagrams DEF Resend, Signal, WriterType, CurrentData
  <2>2. TableType' /\ WriterType' /\ ReaderType' /\ LoopType'
    BY <1>9 DEF Resend, TableType, lifeVars, WriterType, sendVars, ReaderType, recvVars, LoopType
  <2> QED
    BY <2>1, <2>2
<1>10. ASSUME NEW o \in Obj, WriteAcked(o) PROVE TypeOK'
  <2>1. WriterType'
    BY <1>10 DEF WriteAcked, WriterType
  <2>2. net' \subseteq Datagram /\ TableType' /\ ReaderType' /\ LoopType'
    BY <1>10 DEF WriteAcked, TableType, lifeVars, ReaderType, recvVars, LoopType
  <2> QED
    BY <2>1, <2>2
<1>11. ASSUME NEW o \in Obj, WriteFails(o) PROVE TypeOK'
  <2>1. WriterType'
    BY <1>11 DEF WriteFails, WriterType, sendVars
  <2>2. net' \subseteq Datagram /\ TableType' /\ ReaderType' /\ LoopType'
    BY <1>11 DEF WriteFails, TableType, lifeVars, ReaderType, recvVars, LoopType
  <2> QED
    BY <2>1, <2>2
<1>12. ASSUME NEW o \in Obj, SourceEnds(o) PROVE TypeOK'
  <2>1. WriterType'
    BY <1>12 DEF SourceEnds, WriterType, sendVars
  <2>2. net' \subseteq Datagram /\ TableType' /\ ReaderType' /\ LoopType'
    BY <1>12 DEF SourceEnds, TableType, lifeVars, ReaderType, recvVars, LoopType
  <2> QED
    BY <2>1, <2>2
<1>13. ASSUME NEW m \in net, OnAck(m) PROVE TypeOK'
  <2>1. WriterType'
    BY <1>13 DEF OnAck, WriterType
  <2>2. net' \subseteq Datagram /\ TableType' /\ ReaderType' /\ LoopType'
    BY <1>13 DEF OnAck, TableType, lifeVars, ReaderType, recvVars, LoopType
  <2> QED
    BY <2>1, <2>2
<1>14. ASSUME NEW m \in net, OnData(m) PROVE TypeOK'
  <2> DEFINE e == Other(m.from)
  <2> DEFINE o == Current(e, m.id)
  <2>1. e \in Side /\ m.id \in Streams /\ m.seq \in Nat
    BY Sides, Datagrams
  <2>2. o \in Obj /\ o[1] = e /\ o[2] = m.id
    BY <1>14, <2>1, CurrentObj DEF OnData, Current
  <2>3. net' \subseteq Datagram
    BY <1>14, <2>1, <2>2, Datagrams DEF OnData, AckOf, Signal
  <2>4. TableType' /\ WriterType'
    BY <1>14 DEF OnData, TableType, lifeVars, WriterType, sendVars
  <2>5. ReaderType'
    BY <1>14, <2>2 DEF OnData, ReaderType
  <2>6. Expected(o, m) => m.body \in Data
    BY <1>14, Datagrams DEF OnData, Arrives
  <2>7. LoopType'
    BY <1>14, <2>1, <2>2, <2>6 DEF OnData, LoopType
  <2> QED
    BY <2>3, <2>4, <2>5, <2>7
<1>15. ASSUME NEW e \in Side, Push(e) PROVE TypeOK'
  <2>1. ReaderType'
    BY <1>15 DEF Push, ReaderType, LoopType, InboxHasRoom
  <2>2. LoopType'
    BY <1>15 DEF Push, LoopType
  <2>3. net' \subseteq Datagram /\ TableType' /\ WriterType'
    BY <1>15 DEF Push, TableType, lifeVars, WriterType, sendVars
  <2> QED
    BY <2>1, <2>2, <2>3
<1>16. ASSUME NEW e \in Side, PushDropped(e) PROVE TypeOK'
  <2>1. LoopType'
    BY <1>16 DEF PushDropped, LoopType
  <2>2. net' \subseteq Datagram /\ TableType' /\ WriterType' /\ ReaderType'
    BY <1>16 DEF PushDropped, TableType, lifeVars, WriterType, sendVars, ReaderType, recvVars
  <2> QED
    BY <2>1, <2>2
<1>17. ASSUME NEW o \in Obj, Read(o) PROVE TypeOK'
  <2>1. ReaderType'
    BY <1>17 DEF Read, ReaderType
  <2>2. net' \subseteq Datagram /\ TableType' /\ WriterType' /\ LoopType'
    BY <1>17 DEF Read, TableType, lifeVars, WriterType, sendVars, LoopType
  <2> QED
    BY <2>1, <2>2
<1>18. ASSUME NEW o \in Obj, ReadClosed(o) \/ SinkResumes(o) PROVE TypeOK'
  <2>1. ReaderType'
    BY <1>18 DEF ReadClosed, SinkResumes, ReaderType, recvVars
  <2>2. net' \subseteq Datagram /\ TableType' /\ WriterType' /\ LoopType'
    BY <1>18 DEF ReadClosed, SinkResumes, TableType, lifeVars, WriterType, sendVars, LoopType
  <2> QED
    BY <2>1, <2>2
<1>19. ASSUME NEW o \in Obj, SinkFails(o) PROVE TypeOK'
  <2>1. ReaderType'
    BY <1>19 DEF SinkFails, ReaderType, recvVars
  <2>2. net' \subseteq Datagram /\ TableType' /\ WriterType' /\ LoopType'
    BY <1>19 DEF SinkFails, TableType, lifeVars, WriterType, sendVars, LoopType
  <2> QED
    BY <2>1, <2>2
<1>20. ASSUME NEW o \in Obj, CloseRemote(o) PROVE TypeOK'
  <2>1. net' \subseteq Datagram
    BY <1>20, Signals, Objects DEF CloseRemote
  <2>2. TableType'
    BY <1>20, RemoveType, Objects DEF CloseRemote, TableType
  <2>3. WriterType' /\ ReaderType' /\ LoopType'
    BY <1>20 DEF CloseRemote, WriterType, sendVars, ReaderType, recvVars, LoopType
  <2> QED
    BY <2>1, <2>2, <2>3
<1>21. ASSUME NEW m \in net, OnClose(m) PROVE TypeOK'
  <2>1. TableType'
    BY <1>21, RemoveType, Sides, Datagrams DEF OnClose, TableType
  <2>2. net' \subseteq Datagram /\ WriterType' /\ ReaderType' /\ LoopType'
    BY <1>21 DEF OnClose, WriterType, sendVars, ReaderType, recvVars, LoopType
  <2> QED
    BY <2>1, <2>2
<1>22. ASSUME NEW m \in net, Lose(m) PROVE TypeOK'
  <2>1. net' \subseteq Datagram
    BY <1>22 DEF Lose
  <2>2. TableType' /\ WriterType' /\ ReaderType' /\ LoopType'
    BY <1>22 DEF Lose, TableType, lifeVars, WriterType, sendVars, ReaderType, recvVars, LoopType
  <2> QED
    BY <2>1, <2>2
<1>23. CASE UNCHANGED vars
  BY <1>23 DEF vars, lifeVars, sendVars, recvVars, TableType, WriterType, ReaderType, LoopType
<1> QED
  BY <1>1, <1>2, <1>3, <1>4, <1>5, <1>6, <1>7, <1>8, <1>9, <1>10, <1>11, <1>12,
     <1>13, <1>14, <1>15, <1>16, <1>17, <1>18, <1>19, <1>20, <1>21, <1>22, <1>23
  DEF Next, Opening, Sending, Receiving, Closing

\* Every variable keeps its type; no inbox holds more than its channel's
\* capacity; a blocked push belongs to a stream of the side it blocks.
THEOREM TypeCorrect == Spec => []TypeOK
BY InitType, NextType, PTL DEF Spec

----------------------------------------------------------------------------
(* Delivery, for a network that delivers each OPEN at most once. *)

LEMMA OneIncarnation ==
  ASSUME MaxOpens = 1
  PROVE  \A o \in Obj : /\ o = <<o[1], o[2], 1>>
                        /\ PeerObj(o) \in Obj
                        /\ PeerObj(PeerObj(o)) = o
                        /\ PeerObj(o) = <<Other(o[1]), o[2], 1>>
                        /\ PeerObj(o) # o
BY DEF Obj, PeerObj, Other

LEMMA InitInv == ASSUME MaxOpens = 1 PROVE Init => IInv
<1> SUFFICES ASSUME Init PROVE IInv
  OBVIOUS
<1>1. TypeOK
  BY InitType
<1>2. \A o \in Obj : WriterInv(o)
  BY OneIncarnation DEF Init, WriterInv
<1>3. ASSUME NEW o \in Obj PROVE ReaderInv(o)
  <2>1. GotLen(o) = 0 /\ InboxLen(o) = 0 /\ recvNext[o] = 0 /\ ~Pushing(o)
    BY Objects DEF Init, GotLen, InboxLen, Pushing
  <2>2. SentLen(PeerObj(o)) = 0
    BY OneIncarnation DEF Init, SentLen
  <2>3. Counts(o)
    BY <2>1, <2>2, Slots DEF Init, Counts, Taken
  <2>4. Contents(o)
    BY <2>1 DEF Contents
  <2> QED
    BY <2>3, <2>4 DEF ReaderInv
<1>4. \A m \in net : WireInv(m)
  BY DEF Init
<1> QED
  BY <1>1, <1>2, <1>3, <1>4 DEF IInv

\* Removing a stream only takes guarantees away from a reader.
LEMMA RemovedReader ==
  ASSUME TypeOK, MaxOpens = 1, NEW e \in Side, NEW i \in Streams, RemoveStream(e, i),
         UNCHANGED <<sent, recvNext, inbox, got, loop>>,
         NEW o \in Obj, ReaderInv(o), phase'[o] = "none" => phase[o] = "none"
  PROVE  ReaderInv(o)'
<1> DEFINE p == <<o[1], o[2]>>
<1>1. p \in Side \X Streams /\ tab[p] \in {0, 1}
  BY Slots DEF TypeOK, TableType
<1>2. CASE p = <<e, i>>
  <2>1. o = <<e, i, 1>>
    BY <1>2, OneIncarnation
  <2>2. tab'[p] = 0
    BY <1>1, <1>2 DEF RemoveStream, TypeOK, TableType
  <2>3. tab[p] = 0 => closed' = closed
    BY <1>2 DEF RemoveStream, Registered
  <2> QED
    BY <1>1, <2>2, <2>3 DEF ReaderInv, Counts, Contents, Taken, Pushing, GotLen, InboxLen, SentLen
<1>3. CASE p # <<e, i>>
  <2>1. tab'[p] = tab[p]
    BY <1>1, <1>3 DEF RemoveStream, TypeOK, TableType
  <2>2. closed'[o] = closed[o]
    <3>1. o # Current(e, i)
      BY <1>3 DEF Current
    <3> QED
      BY <3>1 DEF RemoveStream, TypeOK, TableType
  <2> QED
    BY <2>1, <2>2 DEF ReaderInv, Counts, Contents, Taken, Pushing, GotLen, InboxLen, SentLen
<1> QED
  BY <1>2, <1>3

LEMMA KeptReader ==
  ASSUME NEW o \in Obj, ReaderInv(o), UNCHANGED <<sent, recvNext, inbox, got, loop>>,
         tab'[<<o[1], o[2]>>] = tab[<<o[1], o[2]>>], closed'[o] = closed[o],
         phase'[o] = "none" => phase[o] = "none"
  PROVE  ReaderInv(o)'
BY DEF ReaderInv, Counts, Contents, Taken, Pushing, GotLen, InboxLen, SentLen

\* An object that starts its life has taken nothing yet.
LEMMA StartedReader ==
  ASSUME TypeOK, NEW o \in Obj, ReaderInv(o), phase[o] = "none",
         UNCHANGED <<sent, recvNext, inbox, got, loop, closed>>, phase'[o] # "none"
  PROVE  ReaderInv(o)'
<1>1. recvNext[o] = 0 /\ ~closed[o] /\ Taken(o) <= 0
  BY DEF ReaderInv, Counts
<1>2. Taken(o) \in Nat
  BY Lengths DEF Taken
<1>3. Taken(o) = recvNext[o]
  BY <1>1, <1>2
<1>4. Counts(o)'
  BY <1>1, <1>3 DEF ReaderInv, Counts, Taken, Pushing, GotLen, InboxLen, SentLen
<1>5. Contents(o)'
  BY DEF ReaderInv, Contents, Pushing, GotLen, InboxLen
<1> QED
  BY <1>4, <1>5 DEF ReaderInv

\* Only chunks and acknowledgements are constrained on the wire.
LEMMA MoreSignals ==
  ASSUME \A m \in net : WireInv(m), UNCHANGED <<acked, sent, recvNext>>,
         NEW t, t \notin {"DATA", "ACK"}, NEW e, NEW i,
         net' = net \cup {Message(t, e, i, 0, NoData)}
  PROVE  (\A m \in net : WireInv(m))'
<1> SUFFICES ASSUME NEW m \in net' PROVE WireInv(m)'
  OBVIOUS
<1>1. CASE m \in net
  BY <1>1 DEF WireInv, SentLen
<1>2. CASE m = Message(t, e, i, 0, NoData)
  BY <1>2 DEF WireInv, Message
<1> QED
  BY <1>1, <1>2

\* Every step keeps the invariant.
LEMMA NextInv == ASSUME MaxOpens = 1 PROVE IInv /\ [Next]_vars => IInv'
<1> SUFFICES ASSUME IInv, [Next]_vars PROVE IInv'
  OBVIOUS
<1>0. TypeOK /\ TypeOK'
  BY NextType DEF IInv
<1> DEFINE WInv == \A o \in Obj : WriterInv(o)
           RInv == \A o \in Obj : ReaderInv(o)
           NInv == \A m \in net : WireInv(m)
<1>i. WInv /\ RInv /\ NInv
  BY DEF IInv
<1> HIDE DEF WInv, RInv, NInv
<1>1. ASSUME NEW i \in Streams, Open(i) PROVE WInv' /\ RInv' /\ NInv'
  <2>1. WInv'
    BY <1>0, <1>i, <1>1 DEF Open, WInv, WriterInv, TypeOK, TableType, WriterType, lifeVars, sendVars, recvVars
  <2>2. RInv'
    <3> SUFFICES ASSUME NEW o \in Obj PROVE ReaderInv(o)'
      BY DEF RInv
    <3>0. ReaderInv(o)
      BY <1>i DEF RInv
    <3>1. CASE o = <<"client", i, 1>>
      BY <1>0, <3>0, <3>1, <1>1, StartedReader DEF Open, TypeOK, TableType, lifeVars, sendVars, recvVars
    <3>2. CASE o # <<"client", i, 1>>
      <4>1. <<o[1], o[2]>> # <<"client", i>>
        BY <3>2, OneIncarnation
      <4> QED
        BY <1>0, <3>0, <3>2, <4>1, Slots, <1>1, KeptReader DEF Open, TypeOK, TableType, lifeVars, sendVars, recvVars
    <3> QED
      BY <3>1, <3>2
  <2>3. NInv'
    BY <1>i, <1>1, MoreSignals DEF Open, NInv, lifeVars, sendVars, recvVars
  <2> QED
    BY <2>1, <2>2, <2>3
<1>2. ASSUME NEW i \in Streams, OpenOk(i) PROVE WInv' /\ RInv' /\ NInv'
  <2>1. WInv'
    BY <1>0, <1>i, <1>2 DEF OpenOk, StartRelay, WInv, WriterInv, TypeOK, TableType, WriterType, lifeVars, sendVars, recvVars
  <2>2. RInv'
    BY <1>0, <1>i, <1>2, KeptReader DEF OpenOk, RInv, TypeOK, TableType, lifeVars, sendVars, recvVars, StartRelay
  <2>3. NInv'
    BY <1>0, <1>i, <1>2 DEF OpenOk, NInv, WireInv, SentLen, sendVars, recvVars
  <2> QED
    BY <2>1, <2>2, <2>3
<1>3. ASSUME NEW i \in Streams, OpenFails(i) PROVE WInv' /\ RInv' /\ NInv'
  <2>1. WInv'
    BY <1>0, <1>i, <1>3 DEF OpenFails, WInv, WriterInv, TypeOK, TableType, WriterType, lifeVars, sendVars, recvVars
  <2>2. RInv'
    BY <1>0, <1>i, <1>3, RemovedReader, Sides DEF OpenFails, RInv, TypeOK, TableType, lifeVars, sendVars, recvVars
  <2>3. NInv'
    BY <1>0, <1>i, <1>3 DEF OpenFails, NInv, WireInv, SentLen, sendVars, recvVars
  <2> QED
    BY <2>1, <2>2, <2>3
<1>4. ASSUME NEW m \in net, NEW k \in 1..MaxOpens, OnOpen(m, k) PROVE WInv' /\ RInv' /\ NInv'
  <2>1. WInv'
    BY <1>0, <1>i, <1>4 DEF OnOpen, WInv, WriterInv, TypeOK, TableType, WriterType, lifeVars, sendVars, recvVars
  <2>2. RInv'
    <3> SUFFICES ASSUME NEW o \in Obj PROVE ReaderInv(o)'
      BY DEF RInv
    <3>0. ReaderInv(o)
      BY <1>i DEF RInv
    <3>1. CASE o = <<"server", m.id, k>>
      BY <1>0, <3>0, <3>1, <1>4, StartedReader DEF OnOpen, TypeOK, TableType, lifeVars, sendVars, recvVars
    <3>2. CASE o # <<"server", m.id, k>>
      <4>1. <<o[1], o[2]>> # <<"server", m.id>>
        BY <3>2, OneIncarnation
      <4> QED
        BY <1>0, <3>0, <3>2, <4>1, Slots, <1>4, KeptReader DEF OnOpen, TypeOK, TableType, lifeVars, sendVars, recvVars
    <3> QED
      BY <3>1, <3>2
  <2>3. NInv'
    BY <1>0, <1>i, <1>4 DEF OnOpen, NInv, WireInv, SentLen, sendVars, recvVars
  <2> QED
    BY <2>1, <2>2, <2>3
<1>5. ASSUME NEW m \in net, OnOpenReply(m) PROVE WInv' /\ RInv' /\ NInv'
  <2>1. WInv'
    BY <1>0, <1>i, <1>5 DEF OnOpenReply, WInv, WriterInv, TypeOK, TableType, WriterType, lifeVars, sendVars, recvVars
  <2>2. RInv'
    BY <1>0, <1>i, <1>5, KeptReader DEF OnOpenReply, RInv, TypeOK, TableType, lifeVars, sendVars, recvVars
  <2>3. NInv'
    BY <1>0, <1>i, <1>5 DEF OnOpenReply, NInv, WireInv, SentLen, sendVars, recvVars
  <2> QED
    BY <2>1, <2>2, <2>3
<1>6. ASSUME NEW o \in Obj, DialOk(o) PROVE WInv' /\ RInv' /\ NInv'
  <2>1. WInv'
    BY <1>0, <1>i, <1>6 DEF DialOk, StartRelay, WInv, WriterInv, TypeOK, TableType, WriterType, lifeVars, sendVars, recvVars
  <2>2. RInv'
    BY <1>0, <1>i, <1>6, KeptReader DEF DialOk, RInv, TypeOK, TableType, lifeVars, sendVars, recvVars, StartRelay
  <2>3. NInv'
    BY <1>i, <1>6, MoreSignals DEF DialOk, NInv, lifeVars, sendVars, recvVars
  <2> QED
    BY <2>1, <2>2, <2>3
<1>7. ASSUME NEW o \in Obj, DialErr(o) PROVE WInv' /\ RInv' /\ NInv'
  <2>1. WInv'
    BY <1>0, <1>i, <1>7 DEF DialErr, WInv, WriterInv, TypeOK, TableType, WriterType, lifeVars, sendVars, recvVars
  <2>2. RInv'
    BY <1>0, <1>i, <1>7, RemovedReader, Objects, Sides DEF DialErr, RInv, TypeOK, TableType, lifeVars, sendVars, recvVars
  <2>3. NInv'
    BY <1>i, <1>7, MoreSignals DEF DialErr, NInv, lifeVars, sendVars, recvVars
  <2> QED
    BY <2>1, <2>2, <2>3
<1>8. ASSUME NEW o \in Obj, NEW d \in Data, Write(o, d) PROVE WInv' /\ RInv' /\ NInv'
  <2>1. WInv'
    BY <1>0, <1>i, <1>8 DEF Write, WInv, WriterInv, TypeOK, TableType, WriterType, lifeVars, sendVars, recvVars
  <2>2. RInv'
    <3> SUFFICES ASSUME NEW p \in Obj PROVE ReaderInv(p)'
      BY DEF RInv
    <3>1. ReaderInv(p) /\ PeerObj(p) \in Obj
      BY <1>i, OneIncarnation DEF RInv
    <3>2. UNCHANGED <<recvNext, inbox, got, loop, tab, closed, phase>>
      BY <1>8 DEF Write, lifeVars, sendVars, recvVars
    <3>3. PICK w \in Obj : w = PeerObj(p)
      BY <3>1
    <3>4. sent[w] \in Seq(Data) /\ sent'[w] \in {sent[w], Append(sent[w], d)}
      BY <1>0, <3>1, <1>8 DEF Write, TypeOK, WriterType
    <3>5. /\ SentLen(w)' \in Nat /\ SentLen(w) <= SentLen(w)'
          /\ \A n \in 1..SentLen(w) : sent'[w][n] = sent[w][n]
      <4>1. CASE sent'[w] = sent[w]
        BY <3>4, <4>1 DEF SentLen
      <4>2. CASE sent'[w] = Append(sent[w], d)
        BY <3>4, <4>2 DEF SentLen
      <4> QED
        BY <3>4, <4>1, <4>2
    <3>6. /\ GotLen(p) + InboxLen(p) <= SentLen(w)
          /\ Pushing(p) => GotLen(p) + InboxLen(p) + 1 <= SentLen(w)
      BY <1>0, <3>1, <3>3, Lengths DEF ReaderInv, Counts, Taken
    <3>61. /\ GotLen(p)' = GotLen(p) /\ InboxLen(p)' = InboxLen(p)
           /\ Pushing(p)' <=> Pushing(p)
      BY <3>2 DEF GotLen, InboxLen, Pushing
    <3>62. Taken(p)' = Taken(p)
      BY <3>61 DEF Taken
    <3>7. Counts(p)'
      BY <1>0, <3>1, <3>2, <3>3, <3>5, <3>62, Lengths DEF ReaderInv, Counts
    <3>8. \A n \in 1..GotLen(p) : got[p][n] = sent'[w][n]
      <4> SUFFICES ASSUME NEW n \in 1..GotLen(p)
                   PROVE  got[p][n] = sent'[w][n]
        OBVIOUS
      <4>1. got[p][n] = sent[w][n]
        BY <3>1, <3>3 DEF ReaderInv, Contents
      <4>2. n \in 1..SentLen(w)
        BY <1>0, <3>6, Lengths
      <4> QED
        BY <3>5, <4>1, <4>2
    <3>9. \A n \in 1..InboxLen(p) : inbox[p][n] = sent'[w][GotLen(p) + n]
      <4> SUFFICES ASSUME NEW n \in 1..InboxLen(p)
                   PROVE  inbox[p][n] = sent'[w][GotLen(p) + n]
        OBVIOUS
      <4>1. inbox[p][n] = sent[w][GotLen(p) + n]
        BY <3>1, <3>3 DEF ReaderInv, Contents
      <4>2. GotLen(p) + n \in 1..SentLen(w)
        BY <1>0, <3>6, Lengths
      <4> QED
        BY <3>5, <4>1, <4>2
    <3>10. Pushing(p) => loop[p[1]][2] = sent'[w][GotLen(p) + InboxLen(p) + 1]
      <4> SUFFICES ASSUME Pushing(p)
                   PROVE  loop[p[1]][2] = sent'[w][GotLen(p) + InboxLen(p) + 1]
        OBVIOUS
      <4>1. loop[p[1]][2] = sent[w][GotLen(p) + InboxLen(p) + 1]
        BY <3>1, <3>3 DEF ReaderInv, Contents
      <4>2. GotLen(p) + InboxLen(p) + 1 \in 1..SentLen(w)
        BY <1>0, <3>6, Lengths
      <4> QED
        BY <3>5, <4>1, <4>2
    <3>11. Contents(p)'
      BY <3>2, <3>3, <3>8, <3>9, <3>10, <3>61 DEF Contents
    <3> QED
      BY <3>7, <3>11 DEF ReaderInv
  <2>3. NInv'
    <3> SUFFICES ASSUME NEW m \in net' PROVE WireInv(m)'
      BY DEF NInv
    <3>1. o = <<o[1], o[2], 1>> /\ sent[o] \in Seq(Data) /\ SentLen(o) \in Nat
      BY <1>0, OneIncarnation, Lengths
    <3>2. acked[o] = nextSeq[o] /\ nextSeq[o] = SentLen(o)
      BY <1>0, <1>i, <1>8 DEF Write, WInv, WriterInv, TypeOK, WriterType, SentLen
    <3>3. sent' = [sent EXCEPT ![o] = Append(sent[o], d)] /\ UNCHANGED <<acked, recvNext>>
      BY <1>8 DEF Write, recvVars
    <3>4. CASE m \in net
      <4> DEFINE w == <<m.from, m.id, 1>>
      <4>1. WireInv(m) /\ m.seq \in Nat
        BY <1>0, <1>i, <3>4, Datagrams DEF NInv, TypeOK
      <4>2. w \in Obj
        BY <1>0, <3>4, Datagrams, Objects, TunnelAssumption DEF TypeOK, Side
      <4>3. sent[w] \in Seq(Data) /\ sent'[w] \in {sent[w], Append(sent[w], d)}
        BY <1>0, <3>3, <4>2 DEF TypeOK, WriterType
      <4>4. m.seq < SentLen(w) => /\ m.seq < SentLen(w)'
                                    /\ sent'[w][m.seq + 1] = sent[w][m.seq + 1]
        <5> HIDE DEF w
        <5> SUFFICES ASSUME m.seq < SentLen(w)
                     PROVE  m.seq < SentLen(w)' /\ sent'[w][m.seq + 1] = sent[w][m.seq + 1]
          OBVIOUS
        <5>1. m.seq + 1 \in 1..SentLen(w)
          BY <4>1, <4>3 DEF SentLen
        <5>2. CASE sent'[w] = sent[w]
          BY <5>2 DEF SentLen
        <5>3. CASE sent'[w] = Append(sent[w], d)
          BY <4>1, <4>3, <5>1, <5>3 DEF SentLen
        <5> QED
          BY <4>3, <5>2, <5>3
      <4> QED
        BY <3>3, <4>1, <4>4 DEF WireInv
    <3>5. CASE m = Message("DATA", o[1], o[2], nextSeq[o], d)
      <4>1. m.seq = SentLen(o) /\ m.body = d /\ <<m.from, m.id, 1>> = o /\ m.type = "DATA"
        BY <3>1, <3>2, <3>5 DEF Message
      <4>2. sent'[o] = Append(sent[o], d)
        BY <1>0, <3>3 DEF TypeOK, WriterType
      <4>3. SentLen(o)' = SentLen(o) + 1 /\ sent'[o][SentLen(o) + 1] = d
        BY <3>1, <4>2 DEF SentLen
      <4>4. acked'[o] = SentLen(o)
        BY <3>2, <3>3
      <4>5. m.seq <= acked'[o] /\ m.seq < SentLen(o)' /\ m.body = sent'[o][m.seq + 1]
        BY <3>1, <4>1, <4>3, <4>4
      <4> QED
        BY <4>1, <4>5 DEF WireInv
    <3> QED
      BY <3>4, <3>5, <1>8 DEF Write
  <2> QED
    BY <2>1, <2>2, <2>3
<1>9. ASSUME NEW o \in Obj, Resend(o) PROVE WInv' /\ RInv' /\ NInv'
  <2>1. WInv'
    BY <1>0, <1>i, <1>9 DEF Resend, WInv, WriterInv, TypeOK, TableType, WriterType, lifeVars, sendVars, recvVars
  <2>2. RInv'
    BY <1>0, <1>i, <1>9, KeptReader DEF Resend, RInv, TypeOK, TableType, lifeVars, sendVars, recvVars
  <2>3. NInv'
    <3> SUFFICES ASSUME NEW m \in net' PROVE WireInv(m)'
      BY DEF NInv
    <3>1. UNCHANGED <<acked, sent, recvNext>>
      BY <1>9 DEF Resend, sendVars, recvVars
    <3>2. CASE m \in net
      BY <1>i, <3>1, <3>2 DEF NInv, WireInv, SentLen
    <3>3. CASE m = CurrentData(o)
      <4>1. o = <<o[1], o[2], 1>>
        BY OneIncarnation
      <4>2. nextSeq[o] = acked[o] + 1 /\ nextSeq[o] = SentLen(o) /\ acked[o] \in Nat
        BY <1>0, <1>i, <1>9 DEF Resend, WInv, WriterInv, TypeOK, WriterType, SentLen
      <4>3. m.type = "DATA" /\ m.seq = acked[o] /\ m.body = sent[o][acked[o] + 1]
            /\ <<m.from, m.id, 1>> = o
        BY <3>3, <4>1, <4>2 DEF CurrentData, Message
      <4>4. SentLen(o)' = SentLen(o)
        BY <3>1 DEF SentLen
      <4> QED
        BY <3>1, <4>2, <4>3, <4>4 DEF WireInv
    <3> QED
      BY <3>2, <3>3, <1>9 DEF Resend
  <2> QED
    BY <2>1, <2>2, <2>3
<1>10. ASSUME NEW o \in Obj, WriteAcked(o) PROVE WInv' /\ RInv' /\ NInv'
  <2>1. WInv'
    BY <1>0, <1>i, <1>10 DEF WriteAcked, WInv, WriterInv, TypeOK, TableType, WriterType, lifeVars, sendVars, recvVars
  <2>2. RInv'
    BY <1>0, <1>i, <1>10, KeptReader DEF WriteAcked, RInv, TypeOK, TableType, lifeVars, sendVars, recvVars
  <2>3. NInv'
    <3> SUFFICES ASSUME NEW m \in net' PROVE WireInv(m)'
      BY DEF NInv
    <3>1. WireInv(m) /\ m.seq \in Nat /\ <<m.from, m.id, 1>> \in Obj
      BY <1>0, <1>i, <1>10, Datagrams, Objects, TunnelAssumption DEF WriteAcked, NInv, TypeOK, Side
    <3>2. /\ UNCHANGED <<sent, recvNext>>
          /\ \A p \in Obj : acked[p] \in Nat /\ acked'[p] \in Nat /\ acked[p] <= acked'[p]
      BY <1>0, <1>10 DEF WriteAcked, TypeOK, WriterType, recvVars
    <3> QED
      BY <3>1, <3>2 DEF WireInv, SentLen
  <2> QED
    BY <2>1, <2>2, <2>3
<1>11. ASSUME NEW o \in Obj, WriteFails(o) PROVE WInv' /\ RInv' /\ NInv'
  <2>1. WInv'
    BY <1>0, <1>i, <1>11 DEF WriteFails, WInv, WriterInv, TypeOK, TableType, WriterType, lifeVars, sendVars, recvVars
  <2>2. RInv'
    BY <1>0, <1>i, <1>11, KeptReader DEF WriteFails, RInv, TypeOK, TableType, lifeVars, sendVars, recvVars
  <2>3. NInv'
    BY <1>0, <1>i, <1>11 DEF WriteFails, NInv, WireInv, SentLen, sendVars, recvVars
  <2> QED
    BY <2>1, <2>2, <2>3
<1>12. ASSUME NEW o \in Obj, SourceEnds(o) PROVE WInv' /\ RInv' /\ NInv'
  <2>1. WInv'
    BY <1>0, <1>i, <1>12 DEF SourceEnds, WInv, WriterInv, TypeOK, TableType, WriterType, lifeVars, sendVars, recvVars
  <2>2. RInv'
    BY <1>0, <1>i, <1>12, KeptReader DEF SourceEnds, RInv, TypeOK, TableType, lifeVars, sendVars, recvVars
  <2>3. NInv'
    BY <1>0, <1>i, <1>12 DEF SourceEnds, NInv, WireInv, SentLen, sendVars, recvVars
  <2> QED
    BY <2>1, <2>2, <2>3
<1>13. ASSUME NEW m \in net, OnAck(m) PROVE WInv' /\ RInv' /\ NInv'
  <2>1. WInv'
    <3> DEFINE e == Other(m.from)
    <3>1. m.from \in Side /\ m.id \in Streams /\ m.seq \in Nat /\ e \in Side
      BY <1>0, Datagrams, Sides DEF TypeOK
    <3>2. PICK o \in Obj : /\ o = Current(e, m.id) /\ o = <<e, m.id, 1>>
                          /\ PeerObj(o) = <<m.from, m.id, 1>>
      BY <1>0, <1>13, <3>1, CurrentObj, OneIncarnation DEF OnAck, Current, PeerObj, Other, Side
    <3>3. m.seq < recvNext[PeerObj(o)]
      BY <1>i, <3>2, <1>13 DEF NInv, WireInv, OnAck, Arrives
    <3>4. pending[o] # NoData /\ nextSeq[o] = m.seq + 1 /\ wr[o] \in {"waiting", "done"}
      <4>1. pending[o] # NoData /\ nextSeq[o] - 1 = m.seq
        BY <3>2, <1>13 DEF OnAck, AckMatches
      <4>2. wr[o] \notin {"off", "idle"}
        BY <1>i, <3>2, <4>1 DEF WInv, WriterInv
      <4> QED
        BY <1>0, <3>1, <3>2, <4>1, <4>2 DEF TypeOK, WriterType
    <3>41. nextSeq[o] <= recvNext[PeerObj(o)]
      BY <1>0, <3>1, <3>2, <3>3, <3>4, OneIncarnation DEF TypeOK, ReaderType
    <3>5. /\ pending' = [pending EXCEPT ![o] = NoData] /\ ackCh' = [ackCh EXCEPT ![o] = TRUE]
          /\ UNCHANGED <<wr, nextSeq, acked, recvNext, phase>>
      BY <3>2, <1>13 DEF OnAck, lifeVars, recvVars
    <3>6. /\ \A p \in Obj : p # o => pending'[p] = pending[p] /\ ackCh'[p] = ackCh[p]
          /\ pending'[o] = NoData
      BY <1>0, <3>5 DEF TypeOK, WriterType
    <3> QED
      BY <1>i, <3>2, <3>4, <3>41, <3>5, <3>6 DEF WInv, WriterInv
  <2>2. RInv'
    BY <1>0, <1>i, <1>13, KeptReader DEF OnAck, RInv, TypeOK, TableType, lifeVars, sendVars, recvVars
  <2>3. NInv'
    BY <1>0, <1>i, <1>13 DEF OnAck, NInv, WireInv, SentLen, sendVars, recvVars
  <2> QED
    BY <2>1, <2>2, <2>3
<1>14. ASSUME NEW m \in net, OnData(m) PROVE WInv' /\ RInv' /\ NInv'
  <2> DEFINE e == Other(m.from)
  <2>a. m.from \in Side /\ m.id \in Streams /\ m.seq \in Nat /\ e \in Side
    BY <1>0, Datagrams, Sides DEF TypeOK
  <2>b. PICK o \in Obj : /\ o = Current(e, m.id) /\ o = <<e, m.id, 1>> /\ tab[<<e, m.id>>] = 1
                        /\ PeerObj(o) = <<m.from, m.id, 1>> /\ PeerObj(o) \in Obj
    BY <1>0, <1>14, <2>a, CurrentObj, OneIncarnation
    DEF OnData, Current, PeerObj, Other, Side, Registered, TypeOK, TableType
  <2>c. /\ m.seq <= acked[PeerObj(o)] /\ m.seq < SentLen(PeerObj(o))
        /\ m.body = sent[PeerObj(o)][m.seq + 1] /\ m.body \in Data
    BY <1>0, <1>i, <2>b, <1>14, Datagrams DEF NInv, WireInv, OnData, Arrives, TypeOK
  <2>d. /\ recvNext[o] \in Nat /\ acked[PeerObj(o)] \in Nat
        /\ acked[PeerObj(o)] <= recvNext[o] /\ SentLen(PeerObj(o)) \in Nat
    <3>1. acked[PeerObj(o)] <= recvNext[o]
      BY <1>i, <2>b, OneIncarnation DEF WInv, WriterInv
    <3> QED
      BY <1>0, <2>b, <3>1, Lengths DEF TypeOK, WriterType
  <2>e. /\ net' = net \cup {Message("ACK", e, m.id, m.seq, NoData)}
        /\ loop[e] = NoPush
        /\ loop' = IF m.seq = recvNext[o] THEN [loop EXCEPT ![e] = <<o, m.body>>] ELSE loop
        /\ recvNext' = IF m.seq = recvNext[o] THEN [recvNext EXCEPT ![o] = recvNext[o] + 1] ELSE recvNext
        /\ UNCHANGED <<lifeVars, wr, sendVars, rd, inbox, got>>
    <3>1. o[1] = e /\ o[2] = m.id
      BY <2>b
    <3>2. e = Other(m.from) /\ o = Current(Other(m.from), m.id)
      BY <2>b
    <3> HIDE DEF e
    <3> QED
      BY <3>1, <3>2, <1>14 DEF OnData, AckOf, Expected, Arrives
  <2>f. \A p \in Obj : recvNext'[p] \in Nat /\ recvNext[p] \in Nat /\ recvNext[p] <= recvNext'[p]
    BY <1>0, <2>e DEF TypeOK, ReaderType
  <2>g. m.seq < recvNext'[o]
    BY <1>0, <2>a, <2>c, <2>d, <2>e DEF TypeOK, ReaderType
  <2> HIDE DEF e
  <2>1. WInv'
    <3>1. UNCHANGED <<wr, nextSeq, pending, ackCh, acked, phase>>
      BY <2>e DEF lifeVars, sendVars, recvVars
    <3>2. \A p \in Obj : nextSeq[p] \in Nat /\ acked[p] \in Nat
      BY <1>0 DEF TypeOK, WriterType
    <3> QED
      BY <1>i, <2>f, <3>1, <3>2, OneIncarnation DEF WInv, WriterInv
  <2>2. RInv'
    <3> SUFFICES ASSUME NEW p \in Obj PROVE ReaderInv(p)'
      BY DEF RInv
    <3>1. ReaderInv(p) /\ p[1] \in Side
      BY <1>i, Objects DEF RInv
    <3>2. UNCHANGED <<sent, inbox, got, tab, closed, phase>>
      BY <2>e DEF lifeVars, sendVars, recvVars
    <3>3. CASE m.seq # recvNext[o]
      BY <2>e, <3>1, <3>2, <3>3, KeptReader
    <3>4. CASE m.seq = recvNext[o] /\ p # o
      <4>1. recvNext'[p] = recvNext[p]
        BY <1>0, <2>e, <3>4 DEF TypeOK, ReaderType
      <4>2. CASE p[1] = e
        <5>1. loop'[p[1]] = <<o, m.body>> /\ loop[p[1]] = NoPush
          BY <1>0, <2>a, <2>e, <3>4, <4>2 DEF TypeOK, LoopType
        <5>2. ~Pushing(p) /\ ~Pushing(p)'
          BY <3>4, <5>1 DEF Pushing
        <5> QED
          BY <3>1, <3>2, <4>1, <5>2 DEF ReaderInv, Counts, Contents, Taken, GotLen, InboxLen, SentLen
      <4>3. CASE p[1] # e
        <5>1. loop'[p[1]] = loop[p[1]]
          BY <1>0, <2>a, <2>e, <3>1, <3>4, <4>3 DEF TypeOK, LoopType
        <5> QED
          BY <3>1, <3>2, <4>1, <5>1 DEF ReaderInv, Counts, Contents, Taken, Pushing, GotLen, InboxLen, SentLen
      <4> QED
        BY <4>2, <4>3
    <3>5. CASE m.seq = recvNext[o] /\ p = o
      <4>1. ~Pushing(o)
        BY <2>b, <2>e DEF Pushing
      <4>2. loop'[o[1]] = <<o, m.body>> /\ recvNext'[o] = recvNext[o] + 1
        BY <1>0, <2>a, <2>b, <2>e, <3>5 DEF TypeOK, LoopType, ReaderType
      <4>3. Pushing(o)' /\ loop'[o[1]][2] = m.body
        <5>1. <<o, m.body>> # NoPush
          <6>1. <<o, m.body>> \in Obj \X Data
            BY <2>b, <2>c
          <6> QED
            BY <6>1 DEF TunnelAssumption
        <5> QED
          BY <4>2, <5>1 DEF Pushing
      <4>4. GotLen(o) \in Nat /\ InboxLen(o) \in Nat
        BY <1>0, Lengths
      <4>5. /\ GotLen(o) + InboxLen(o) = recvNext[o]
            /\ phase[o] # "none" /\ ~closed[o] /\ tab[<<o[1], o[2]>>] = 1
        BY <2>b, <3>1, <3>5, <4>1, <4>4 DEF ReaderInv, Counts, Taken
      <4>51. GotLen(o)' = GotLen(o) /\ InboxLen(o)' = InboxLen(o) /\ SentLen(PeerObj(o))' = SentLen(PeerObj(o))
        BY <3>2 DEF GotLen, InboxLen, SentLen
      <4>6. Taken(o)' = recvNext'[o]
        BY <4>2, <4>3, <4>4, <4>5, <4>51 DEF Taken
      <4>7. recvNext'[o] <= SentLen(PeerObj(o))
        BY <2>a, <2>c, <2>d, <3>5, <4>2
      <4>8. loop'[o[1]][2] = sent[PeerObj(o)][GotLen(o) + InboxLen(o) + 1]
        BY <2>c, <3>5, <4>3, <4>5
      <4> QED
        <5>1. Counts(o)'
          BY <2>f, <3>1, <3>2, <3>5, <4>5, <4>51, <4>6, <4>7 DEF ReaderInv, Counts
        <5>2. Contents(o)'
          BY <3>1, <3>2, <3>5, <4>51, <4>8 DEF ReaderInv, Contents
        <5> QED
          BY <3>5, <5>1, <5>2 DEF ReaderInv
    <3> QED
      BY <3>3, <3>4, <3>5
  <2>3. NInv'
    <3> SUFFICES ASSUME NEW n \in net' PROVE WireInv(n)'
      BY DEF NInv
    <3>1. UNCHANGED <<acked, sent>>
      BY <2>e DEF sendVars
    <3>2. CASE n \in net
      <4>1. WireInv(n) /\ n.seq \in Nat /\ <<n.from, n.id, 1>> \in Obj
        BY <1>0, <1>i, <3>2, Datagrams, Objects, TunnelAssumption DEF NInv, TypeOK, Side
      <4> QED
        BY <2>f, <3>1, <4>1 DEF WireInv, SentLen
    <3>3. CASE n = Message("ACK", e, m.id, m.seq, NoData)
      BY <2>b, <2>g, <3>3 DEF WireInv, Message
    <3> QED
      BY <2>e, <3>2, <3>3
  <2> QED
    BY <2>1, <2>2, <2>3
<1>15. ASSUME NEW e \in Side, Push(e) PROVE WInv' /\ RInv' /\ NInv'
  <2>a. PICK q \in Obj : q = loop[e][1] /\ q[1] = e /\ Pushing(q) /\ loop[e][2] \in Data
    BY <1>0, <1>15 DEF Push, TypeOK, LoopType, Pushing
  <2>b. /\ inbox' = [inbox EXCEPT ![q] = Append(inbox[q], loop[e][2])]
        /\ loop' = [loop EXCEPT ![e] = NoPush]
        /\ UNCHANGED <<net, lifeVars, wr, sendVars, rd, recvNext, got>>
    BY <2>a, <1>15 DEF Push
  <2>1. WInv'
    BY <1>0, <1>i, <1>15 DEF Push, WInv, WriterInv, TypeOK, TableType, WriterType, lifeVars, sendVars, recvVars
  <2>2. RInv'
    <3> SUFFICES ASSUME NEW p \in Obj PROVE ReaderInv(p)'
      BY DEF RInv
    <3>1. ReaderInv(p) /\ p[1] \in Side
      BY <1>i, Objects DEF RInv
    <3>2. UNCHANGED <<sent, recvNext, got, tab, closed, phase>>
      BY <2>b DEF lifeVars, sendVars, recvVars
    <3>3. CASE p # q
      <4>1. inbox'[p] = inbox[p]
        BY <1>0, <2>b, <3>3 DEF TypeOK, ReaderType
      <4>2. CASE p[1] = e
        <5>1. loop'[p[1]] = NoPush /\ loop[p[1]][1] = q
          BY <1>0, <2>a, <2>b, <4>2 DEF TypeOK, LoopType
        <5>2. ~Pushing(p) /\ ~Pushing(p)'
          BY <3>3, <5>1 DEF Pushing
        <5> QED
          BY <3>1, <3>2, <4>1, <5>2 DEF ReaderInv, Counts, Contents, Taken, GotLen, InboxLen, SentLen
      <4>3. CASE p[1] # e
        <5>1. loop'[p[1]] = loop[p[1]]
          BY <1>0, <2>b, <3>1, <4>3 DEF TypeOK, LoopType
        <5> QED
          BY <3>1, <3>2, <4>1, <5>1 DEF ReaderInv, Counts, Contents, Taken, Pushing, GotLen, InboxLen, SentLen
      <4> QED
        BY <4>2, <4>3
    <3>4. CASE p = q
      <4>1. inbox[q] \in Seq(Data) /\ inbox'[q] = Append(inbox[q], loop[e][2])
        BY <1>0, <2>b DEF TypeOK, ReaderType
      <4>2. /\ InboxLen(q)' = InboxLen(q) + 1 /\ inbox'[q][InboxLen(q) + 1] = loop[e][2]
            /\ \A n \in 1..InboxLen(q) : inbox'[q][n] = inbox[q][n]
            /\ InboxLen(q) \in Nat
        BY <2>a, <4>1 DEF InboxLen
      <4>3. ~Pushing(q)'
        BY <1>0, <2>a, <2>b DEF Pushing, TypeOK, LoopType
      <4>4. GotLen(q) \in Nat /\ Taken(q)' = Taken(q)
        <5>1. GotLen(q) \in Nat /\ GotLen(q)' = GotLen(q)
          BY <1>0, <3>2, Lengths DEF GotLen
        <5> QED
          BY <2>a, <4>2, <4>3, <5>1 DEF Taken
      <4>5. loop[e][2] = sent[PeerObj(q)][GotLen(q) + (InboxLen(q) + 1)]
        <5>1. loop[e][2] = sent[PeerObj(q)][GotLen(q) + InboxLen(q) + 1]
          BY <2>a, <3>1, <3>4 DEF ReaderInv, Contents
        <5>2. GotLen(q) + InboxLen(q) + 1 = GotLen(q) + (InboxLen(q) + 1)
          BY <4>2, <4>4
        <5> QED
          BY <5>1, <5>2
      <4>6. \A n \in 1..InboxLen(q)' : inbox'[q][n] = sent[PeerObj(q)][GotLen(q) + n]
        <5> SUFFICES ASSUME NEW n \in 1..InboxLen(q)'
                     PROVE  inbox'[q][n] = sent[PeerObj(q)][GotLen(q) + n]
          OBVIOUS
        <5>1. CASE n = InboxLen(q) + 1
          BY <4>2, <4>5, <5>1
        <5>2. CASE n \in 1..InboxLen(q)
          BY <3>1, <3>4, <4>2, <5>2 DEF ReaderInv, Contents
        <5> QED
          BY <4>2, <5>1, <5>2
      <4> QED
        BY <3>1, <3>2, <3>4, <4>3, <4>4, <4>6 DEF ReaderInv, Counts, Contents, GotLen, InboxLen, SentLen
    <3> QED
      BY <3>3, <3>4
  <2>3. NInv'
    BY <1>0, <1>i, <1>15 DEF Push, NInv, WireInv, SentLen, sendVars, recvVars
  <2> QED
    BY <2>1, <2>2, <2>3
<1>16. ASSUME NEW e \in Side, PushDropped(e) PROVE WInv' /\ RInv' /\ NInv'
  <2>1. WInv'
    BY <1>0, <1>i, <1>16 DEF PushDropped, WInv, WriterInv, TypeOK, TableType, WriterType, lifeVars, sendVars, recvVars
  <2>2. RInv'
    <3> SUFFICES ASSUME NEW p \in Obj PROVE ReaderInv(p)'
      BY DEF RInv
    <3>1. ReaderInv(p) /\ p[1] \in Side
      BY <1>i, Objects DEF RInv
    <3>2. UNCHANGED <<sent, recvNext, inbox, got, tab, closed, phase>>
      BY <1>16 DEF PushDropped, lifeVars, sendVars, recvVars
    <3>3. loop' = [loop EXCEPT ![e] = NoPush]
      BY <1>16 DEF PushDropped
    <3>4. CASE p[1] # e
      <4>1. loop'[p[1]] = loop[p[1]]
        BY <1>0, <3>1, <3>3, <3>4 DEF TypeOK, LoopType
      <4> QED
        BY <3>1, <3>2, <4>1 DEF ReaderInv, Counts, Contents, Taken, Pushing, GotLen, InboxLen, SentLen
    <3>5. CASE p[1] = e
      <4>1. ~Pushing(p)'
        BY <1>0, <3>3, <3>5 DEF Pushing, TypeOK, LoopType
      <4>2. GotLen(p) \in Nat /\ InboxLen(p) \in Nat /\ recvNext[p] \in Nat
        BY <1>0, Lengths
      <4>21. GotLen(p)' = GotLen(p) /\ InboxLen(p)' = InboxLen(p)
        BY <3>2 DEF GotLen, InboxLen
      <4>3. CASE ~Pushing(p)
        BY <3>1, <3>2, <4>1, <4>3 DEF ReaderInv, Counts, Contents, Taken, GotLen, InboxLen, SentLen
      <4>4. CASE Pushing(p)
        <5>1. tab[<<p[1], p[2]>>] # 1
          BY <3>1, <3>5, <4>4, <1>16 DEF ReaderInv, Counts, PushDropped, Pushing
        <5>2. Taken(p)' <= recvNext[p]
          BY <3>1, <4>1, <4>2, <4>21, <4>4 DEF ReaderInv, Counts, Taken
        <5> QED
          BY <3>1, <3>2, <4>1, <5>1, <5>2 DEF ReaderInv, Counts, Contents, GotLen, InboxLen, SentLen
      <4> QED
        BY <4>3, <4>4
    <3> QED
      BY <3>4, <3>5
  <2>3. NInv'
    BY <1>0, <1>i, <1>16 DEF PushDropped, NInv, WireInv, SentLen, sendVars, recvVars
  <2> QED
    BY <2>1, <2>2, <2>3
<1>17. ASSUME NEW o \in Obj, Read(o) PROVE WInv' /\ RInv' /\ NInv'
  <2>1. WInv'
    BY <1>0, <1>i, <1>17 DEF Read, WInv, WriterInv, TypeOK, TableType, WriterType, lifeVars, sendVars, recvVars
  <2>2. RInv'
    <3> SUFFICES ASSUME NEW p \in Obj PROVE ReaderInv(p)'
      BY DEF RInv
    <3>1. ReaderInv(p)
      BY <1>i DEF RInv
    <3>2. UNCHANGED <<sent, recvNext, loop, tab, closed, phase>> /\ (Pushing(p)' <=> Pushing(p))
      BY <1>17 DEF Read, Pushing, lifeVars, sendVars, recvVars
    <3>3. CASE p # o
      <4>1. inbox'[p] = inbox[p] /\ got'[p] = got[p]
        BY <1>0, <3>3, <1>17 DEF Read, TypeOK, ReaderType
      <4> QED
        BY <3>1, <3>2, <4>1 DEF ReaderInv, Counts, Contents, Taken, GotLen, InboxLen, SentLen
    <3>4. CASE p = o
      <4>1. /\ inbox[o] \in Seq(Data) /\ got[o] \in Seq(Data) /\ inbox[o] # <<>>
            /\ inbox'[o] = Tail(inbox[o]) /\ got'[o] = Append(got[o], Head(inbox[o]))
        BY <1>0, <1>17 DEF Read, TypeOK, ReaderType
      <4>2. /\ InboxLen(o)' = InboxLen(o) - 1 /\ InboxLen(o) \in Nat /\ InboxLen(o) > 0
            /\ \A n \in 1..InboxLen(o)' : inbox'[o][n] = inbox[o][n + 1]
        BY <4>1 DEF InboxLen
      <4>3. /\ GotLen(o)' = GotLen(o) + 1 /\ GotLen(o) \in Nat
            /\ \A n \in 1..GotLen(o) : got'[o][n] = got[o][n]
            /\ got'[o][GotLen(o) + 1] = Head(inbox[o])
        BY <4>1 DEF GotLen
      <4>4. Taken(o)' = Taken(o)
        BY <3>2, <3>4, <4>2, <4>3 DEF Taken
      <4>5. Head(inbox[o]) = sent[PeerObj(o)][GotLen(o) + 1]
        <5>1. Head(inbox[o]) = inbox[o][1]
          BY <4>1
        <5> QED
          BY <3>1, <3>4, <4>2, <5>1 DEF ReaderInv, Contents
      <4>6. \A n \in 1..GotLen(o)' : got'[o][n] = sent[PeerObj(o)][n]
        <5> SUFFICES ASSUME NEW n \in 1..GotLen(o)' PROVE got'[o][n] = sent[PeerObj(o)][n]
          OBVIOUS
        <5>1. CASE n = GotLen(o) + 1
          BY <4>3, <4>5, <5>1
        <5>2. CASE n \in 1..GotLen(o)
          BY <3>1, <3>4, <4>3, <5>2 DEF ReaderInv, Contents
        <5> QED
          BY <4>3, <5>1, <5>2
      <4>7. \A n \in 1..InboxLen(o)' : inbox'[o][n] = sent[PeerObj(o)][GotLen(o)' + n]
        <5> SUFFICES ASSUME NEW n \in 1..InboxLen(o)'
                     PROVE  inbox'[o][n] = sent[PeerObj(o)][GotLen(o)' + n]
          OBVIOUS
        <5>1. inbox[o][n + 1] = sent[PeerObj(o)][GotLen(o) + (n + 1)]
          <6>1. n + 1 \in 1..InboxLen(o)
            BY <4>2
          <6> QED
            BY <3>1, <3>4, <6>1 DEF ReaderInv, Contents
        <5>2. GotLen(o) + (n + 1) = GotLen(o)' + n /\ inbox'[o][n] = inbox[o][n + 1]
          BY <4>2, <4>3
        <5> QED
          BY <5>1, <5>2
      <4>8. Pushing(o) => loop[o[1]][2] = sent[PeerObj(o)][GotLen(o)' + InboxLen(o)' + 1]
        <5>1. GotLen(o)' + InboxLen(o)' + 1 = GotLen(o) + InboxLen(o) + 1
          BY <4>2, <4>3
        <5> QED
          BY <3>1, <3>4, <5>1 DEF ReaderInv, Contents
      <4> QED
        BY <3>1, <3>2, <3>4, <4>4, <4>6, <4>7, <4>8 DEF ReaderInv, Counts, Contents, GotLen, InboxLen, SentLen
    <3> QED
      BY <3>3, <3>4
  <2>3. NInv'
    BY <1>0, <1>i, <1>17 DEF Read, NInv, WireInv, SentLen, sendVars, recvVars
  <2> QED
    BY <2>1, <2>2, <2>3
<1>18. ASSUME NEW o \in Obj, ReadClosed(o) \/ SinkResumes(o) PROVE WInv' /\ RInv' /\ NInv'
  <2>1. WInv'
    BY <1>0, <1>i, <1>18 DEF ReadClosed, SinkResumes, WInv, WriterInv, TypeOK, TableType, WriterType, lifeVars, sendVars, recvVars
  <2>2. RInv'
    BY <1>0, <1>i, <1>18, KeptReader DEF ReadClosed, SinkResumes, RInv, TypeOK, TableType, lifeVars, sendVars, recvVars
  <2>3. NInv'
    BY <1>0, <1>i, <1>18 DEF ReadClosed, SinkResumes, NInv, WireInv, SentLen, sendVars, recvVars
  <2> QED
    BY <2>1, <2>2, <2>3
<1>19. ASSUME NEW o \in Obj, SinkFails(o) PROVE WInv' /\ RInv' /\ NInv'
  <2>1. WInv'
    BY <1>0, <1>i, <1>19 DEF SinkFails, WInv, WriterInv, TypeOK, TableType, WriterType, lifeVars, sendVars, recvVars
  <2>2. RInv'
    BY <1>0, <1>i, <1>19, KeptReader DEF SinkFails, RInv, TypeOK, TableType, lifeVars, sendVars, recvVars
  <2>3. NInv'
    BY <1>0, <1>i, <1>19 DEF SinkFails, NInv, WireInv, SentLen, sendVars, recvVars
  <2> QED
    BY <2>1, <2>2, <2>3
<1>20. ASSUME NEW o \in Obj, CloseRemote(o) PROVE WInv' /\ RInv' /\ NInv'
  <2>1. WInv'
    BY <1>0, <1>i, <1>20 DEF CloseRemote, WInv, WriterInv, TypeOK, TableType, WriterType, lifeVars, sendVars, recvVars
  <2>2. RInv'
    BY <1>0, <1>i, <1>20, RemovedReader, Objects DEF CloseRemote, RInv, TypeOK, TableType, lifeVars, sendVars, recvVars
  <2>3. NInv'
    BY <1>i, <1>20, MoreSignals DEF CloseRemote, NInv, lifeVars, sendVars, recvVars
  <2> QED
    BY <2>1, <2>2, <2>3
<1>21. ASSUME NEW m \in net, OnClose(m) PROVE WInv' /\ RInv' /\ NInv'
  <2>1. WInv'
    BY <1>0, <1>i, <1>21 DEF OnClose, WInv, WriterInv, TypeOK, TableType, WriterType, lifeVars, sendVars, recvVars
  <2>2. RInv'
    BY <1>0, <1>i, <1>21, RemovedReader, Sides, Datagrams DEF OnClose, RInv, TypeOK, TableType, lifeVars, sendVars, recvVars
  <2>3. NInv'
    BY <1>0, <1>i, <1>21 DEF OnClose, NInv, WireInv, SentLen, sendVars, recvVars
  <2> QED
    BY <2>1, <2>2, <2>3
<1>22. ASSUME NEW m \in net, Lose(m) PROVE WInv' /\ RInv' /\ NInv'
  <2>1. WInv'
    BY <1>0, <1>i, <1>22 DEF Lose, WInv, WriterInv, TypeOK, TableType, WriterType, lifeVars, sendVars, recvVars
  <2>2. RInv'
    BY <1>0, <1>i, <1>22, KeptReader DEF Lose, RInv, TypeOK, TableType, lifeVars, sendVars, recvVars
  <2>3. NInv'
    BY <1>0, <1>i, <1>22 DEF Lose, NInv, WireInv, SentLen, sendVars, recvVars
  <2> QED
    BY <2>1, <2>2, <2>3
<1>23. ASSUME UNCHANGED vars PROVE WInv' /\ RInv' /\ NInv'
  <2>1. WInv' /\ NInv'
    BY <1>i, <1>23 DEF vars, lifeVars, sendVars, recvVars, WInv, WriterInv, NInv, WireInv, SentLen
  <2>2. RInv'
    BY <1>i, <1>23, KeptReader DEF vars, lifeVars, sendVars, recvVars, RInv
  <2> QED
    BY <2>1, <2>2
<1> QED
  <2>1. WInv' /\ RInv' /\ NInv'
    BY <1>1, <1>2, <1>3, <1>4, <1>5, <1>6, <1>7, <1>8, <1>9, <1>10, <1>11, <1>12,
       <1>13, <1>14, <1>15, <1>16, <1>17, <1>18, <1>19, <1>20, <1>21, <1>22, <1>23
    DEF Next, Opening, Sending, Receiving, Closing
  <2> QED
    BY <1>0, <2>1 DEF IInv, WInv, RInv, NInv

LEMMA InvariantHolds == ASSUME MaxOpens = 1 PROVE Spec => []IInv
BY InitInv, NextInv, PTL DEF Spec

\* A reader that has the beginning of what its peer wrote.
LEMMA ReadIsPrefix ==
  ASSUME IInv, NEW o \in Obj, PeerObj(o) \in Obj
  PROVE  Prefix(got[o], sent[PeerObj(o)])
<1>1. PICK w \in Obj : w = PeerObj(o)
  OBVIOUS
<1>2. Counts(o) /\ Contents(o)
  BY DEF IInv, ReaderInv
<1>3. /\ GotLen(o) \in Nat /\ InboxLen(o) \in Nat /\ SentLen(w) \in Nat
      /\ recvNext[o] \in Nat
  BY Lengths DEF IInv
<1>4. GotLen(o) <= SentLen(w)
  BY <1>1, <1>2, <1>3 DEF Counts, Taken
<1>5. \A n \in 1..GotLen(o) : got[o][n] = sent[w][n]
  BY <1>1, <1>2 DEF Contents
<1> QED
  BY <1>1, <1>4, <1>5 DEF Prefix, GotLen, SentLen

\* The target connection of every stream of the server receives a prefix of
\* what the client wrote, for any number of streams, payloads and chunks, any
\* inbox capacity and any loss, repetition and reordering of datagrams.
THEOREM UpstreamIsInOrder == ASSUME MaxOpens = 1 PROVE Spec => []UpstreamInOrder
<1>1. IInv => UpstreamInOrder
  <2> SUFFICES ASSUME IInv, NEW i \in Streams, NEW k \in 1..MaxOpens
               PROVE  Prefix(got[<<"server", i, k>>], sent[ClientObj(i)])
    BY DEF UpstreamInOrder
  <2>1. PICK o \in Obj : o = <<"server", i, k>>
    BY Objects
  <2>2. PeerObj(o) = ClientObj(i) /\ PeerObj(o) \in Obj
    BY <2>1, Objects DEF PeerObj, ClientObj, Other
  <2> QED
    BY <2>1, <2>2, ReadIsPrefix
<1> QED
  BY <1>1, InvariantHolds, PTL

\* The client's connection receives a prefix of what the server wrote, under
\* the same network.
THEOREM DownstreamIsInOrder == ASSUME MaxOpens = 1 PROVE Spec => []DownstreamInOrder
<1>1. IInv => DownstreamInOrder
  <2> SUFFICES ASSUME IInv, NEW i \in Streams
               PROVE  Prefix(got[ClientObj(i)], sent[<<"server", i, 1>>])
    BY DEF DownstreamInOrder
  <2>1. PICK o \in Obj : o = ClientObj(i)
    BY Objects DEF ClientObj
  <2>2. PeerObj(o) = <<"server", i, 1>> /\ PeerObj(o) \in Obj
    BY <2>1, Objects DEF PeerObj, ClientObj, Other
  <2> QED
    BY <2>1, <2>2, ReadIsPrefix
<1> QED
  BY <1>1, InvariantHolds, PTL

\* A write that returned without error is for a chunk the other side accepted,
\* in both directions.
THEOREM ConfirmedWritesAreAccepted ==
  ASSUME MaxOpens = 1 PROVE Spec => []ConfirmedIsAccepted
<1>1. IInv => ConfirmedIsAccepted
  <2> SUFFICES ASSUME IInv, NEW i \in Streams
               PROVE  /\ acked[ClientObj(i)] <= recvNext[<<"server", i, 1>>]
                      /\ acked[<<"server", i, 1>>] <= recvNext[ClientObj(i)]
    BY DEF ConfirmedIsAccepted
  <2>1. PICK c \in Obj, s \in Obj : c = ClientObj(i) /\ s = <<"server", i, 1>>
    BY Objects DEF ClientObj
  <2>2. PeerObj(c) = s /\ PeerObj(s) = c
    BY <2>1 DEF PeerObj, ClientObj, Other
  <2>3. acked[c] <= recvNext[s] /\ acked[s] <= recvNext[c]
    BY <2>2 DEF IInv, WriterInv
  <2> QED
    BY <2>1, <2>3
<1> QED
  BY <1>1, InvariantHolds, PTL

\* An acknowledgement on the wire is always for a chunk that was accepted:
\* onData re-acknowledges duplicates and nothing else.
THEOREM OnlyDuplicatesReAcked ==
  ASSUME MaxOpens = 1 PROVE Spec => []DuplicatesOnlyReAck
<1>1. IInv => DuplicatesOnlyReAck
  <2> SUFFICES ASSUME IInv, NEW m \in net, m.type = "ACK"
               PROVE  \E o \in Obj : o[1] = m.from /\ o[2] = m.id /\ m.seq < recvNext[o]
    BY DEF DuplicatesOnlyReAck
  <2>1. m.from \in Side /\ m.id \in Streams
    BY Datagrams DEF IInv, TypeOK
  <2>2. <<m.from, m.id, 1>> \in Obj
    BY <2>1, Objects, TunnelAssumption DEF Side
  <2>3. m.seq < recvNext[<<m.from, m.id, 1>>]
    BY DEF IInv, WireInv
  <2> QED
    BY <2>2, <2>3
<1> QED
  BY <1>1, InvariantHolds, PTL

----------------------------------------------------------------------------
(* The client-to-server direction implements ReliableStream. *)

\* A step that leaves the four mapped variables alone is a stutter.
LEMMA Stutter ==
  ASSUME UNCHANGED <<sent, acked, recvNext, got>>
  PROVE  UNCHANGED Upstream!svars
BY DEF Upstream!svars

\* The write of a chunk by the client is the abstract write; by the server, a
\* stutter.
LEMMA WriteRefines ==
  ASSUME MaxOpens = 1, IInv, IInv', NEW o \in Obj, NEW d \in Data, Write(o, d)
  PROVE  [Upstream!Next]_(Upstream!svars)
<1>1. PICK i \in Streams : o = ClientObj(i) \/ o = <<"server", i, 1>>
  BY OneIncarnation DEF Obj, ClientObj
<1>2. sent' = [sent EXCEPT ![o] = Append(sent[o], d)] /\ UNCHANGED <<acked, recvNext, got>>
  BY DEF Write, recvVars
<1>3. \A j \in Streams : ClientObj(j) \in Obj /\ <<"server", j, 1>> # ClientObj(j)
  BY Objects DEF ClientObj
<1>4. sent \in [Obj -> Seq(Data)]
  BY DEF IInv, TypeOK, WriterType
<1>5. CASE o = ClientObj(i)
  <2>1. acked[o] = Len(sent[o])
    BY DEF Write, IInv, WriterInv, TypeOK, WriterType
  <2>2. \A j \in Streams : ClientObj(j) = o <=> j = i
    BY <1>5 DEF ClientObj
  <2>3. Upstream!Write(i, d)
    BY <1>2, <1>3, <1>4, <1>5, <2>1, <2>2 DEF Upstream!Write
  <2> QED
    BY <2>3 DEF Upstream!Next
<1>6. CASE o = <<"server", i, 1>>
  <2>1. \A j \in Streams : sent'[ClientObj(j)] = sent[ClientObj(j)]
    BY <1>2, <1>3, <1>4, <1>6 DEF ClientObj
  <2> QED
    BY <1>2, <2>1 DEF Upstream!svars
<1> QED
  BY <1>1, <1>5, <1>6

\* A write that returns confirms a chunk the server has accepted.
LEMMA WriteAckedRefines ==
  ASSUME MaxOpens = 1, IInv, IInv', NEW o \in Obj, WriteAcked(o)
  PROVE  [Upstream!Next]_(Upstream!svars)
<1>1. PICK i \in Streams : o = ClientObj(i) \/ o = <<"server", i, 1>>
  BY OneIncarnation DEF Obj, ClientObj
<1>2. acked' = [acked EXCEPT ![o] = acked[o] + 1] /\ UNCHANGED <<sent, recvNext, got>>
  BY DEF WriteAcked, recvVars
<1>3. \A j \in Streams : ClientObj(j) \in Obj /\ <<"server", j, 1>> # ClientObj(j)
  BY Objects DEF ClientObj
<1>4. acked \in [Obj -> Nat] /\ recvNext \in [Obj -> Nat] /\ nextSeq \in [Obj -> Nat]
  BY DEF IInv, TypeOK, WriterType, ReaderType
<1>5. CASE o = ClientObj(i)
  <2>1. PeerObj(o) = <<"server", i, 1>> /\ <<"server", i, 1>> \in Obj
    BY <1>5, Objects DEF PeerObj, ClientObj, Other
  <2>2. acked[o] < recvNext[<<"server", i, 1>>]
    BY <1>4, <2>1 DEF WriteAcked, IInv, WriterInv
  <2>3. \A j \in Streams : ClientObj(j) = o <=> j = i
    BY <1>5 DEF ClientObj
  <2>4. Upstream!Confirm(i)
    BY <1>2, <1>3, <1>4, <1>5, <2>2, <2>3 DEF Upstream!Confirm
  <2> QED
    BY <2>4 DEF Upstream!Next
<1>6. CASE o = <<"server", i, 1>>
  <2>1. \A j \in Streams : acked'[ClientObj(j)] = acked[ClientObj(j)]
    BY <1>2, <1>3, <1>4, <1>6 DEF ClientObj
  <2> QED
    BY <1>2, <2>1 DEF Upstream!svars
<1> QED
  BY <1>1, <1>5, <1>6

\* The expected chunk that reaches the server is accepted.
LEMMA OnDataRefines ==
  ASSUME MaxOpens = 1, IInv, IInv', NEW m \in net, OnData(m)
  PROVE  [Upstream!Next]_(Upstream!svars)
<1>1. PICK o \in Obj : o = Current(Other(m.from), m.id)
  BY CurrentObj, Datagrams, Sides DEF OnData, IInv, TypeOK
<1>2. UNCHANGED <<sent, acked, got>>
  BY DEF OnData, sendVars
<1>3. CASE ~Expected(o, m)
  BY <1>1, <1>2, <1>3, Stutter DEF OnData
<1>4. CASE Expected(o, m)
  <2>1. recvNext' = [recvNext EXCEPT ![o] = recvNext[o] + 1]
    BY <1>1, <1>4 DEF OnData
  <2>2. recvNext \in [Obj -> Nat]
    BY DEF IInv, TypeOK, ReaderType
  <2>3. PICK i \in Streams : o = ClientObj(i) \/ o = <<"server", i, 1>>
    BY OneIncarnation DEF Obj, ClientObj
  <2>4. CASE o = <<"server", i, 1>>
    <3>1. Other(m.from) = "server" /\ m.id = i /\ m.from \in Side
      BY <1>1, <2>4, Datagrams DEF Current, IInv, TypeOK
    <3>2. <<m.from, m.id, 1>> = ClientObj(i)
      BY <3>1 DEF Side, Other, ClientObj
    <3>3. m.type = "DATA" /\ m.seq = recvNext[o]
      BY <1>4 DEF OnData, Arrives, Expected
    <3>4. recvNext[o] < Len(sent[ClientObj(i)])
      BY <3>2, <3>3 DEF IInv, WireInv, SentLen
    <3>5. \A j \in Streams : <<"server", j, 1>> \in Obj /\ (<<"server", j, 1>> = o <=> j = i)
      BY <2>4, Objects
    <3>6. Upstream!Accept(i)
      BY <1>2, <2>1, <2>2, <2>4, <3>4, <3>5 DEF Upstream!Accept
    <3> QED
      BY <3>6 DEF Upstream!Next
  <2>5. CASE o = ClientObj(i)
    <3>1. \A j \in Streams : <<"server", j, 1>> \in Obj /\ <<"server", j, 1>> # o
      BY <2>5, Objects DEF ClientObj
    <3>2. \A j \in Streams : recvNext'[<<"server", j, 1>>] = recvNext[<<"server", j, 1>>]
      BY <2>1, <2>2, <3>1
    <3> QED
      BY <1>2, <3>2 DEF Upstream!svars
  <2> QED
    BY <2>3, <2>4, <2>5
<1> QED
  BY <1>3, <1>4

\* The chunk the server's reader takes is the next one the client wrote.
LEMMA ReadRefines ==
  ASSUME MaxOpens = 1, IInv, IInv', NEW o \in Obj, Read(o)
  PROVE  [Upstream!Next]_(Upstream!svars)
<1>1. PICK i \in Streams : o = ClientObj(i) \/ o = <<"server", i, 1>>
  BY OneIncarnation DEF Obj, ClientObj
<1>2. got' = [got EXCEPT ![o] = Append(got[o], Head(inbox[o]))] /\ UNCHANGED <<sent, acked, recvNext>>
  BY DEF Read, sendVars
<1>3. got \in [Obj -> Seq(Data)] /\ inbox[o] \in Seq(Data)
  BY DEF IInv, TypeOK, ReaderType
<1>4. CASE o = <<"server", i, 1>>
  <2>1. PeerObj(o) = ClientObj(i)
    BY <1>4 DEF PeerObj, ClientObj, Other
  <2>2. InboxLen(o) \in Nat /\ InboxLen(o) > 0 /\ Head(inbox[o]) = inbox[o][1]
    BY <1>3 DEF Read, InboxLen
  <2>3. GotLen(o) \in Nat /\ recvNext[o] \in Nat
    BY Lengths DEF IInv
  <2>4. Counts(o) /\ Contents(o)
    BY DEF IInv, ReaderInv
  <2>5. Head(inbox[o]) = sent[ClientObj(i)][GotLen(o) + 1]
    BY <2>1, <2>2, <2>4 DEF Contents
  <2>6. GotLen(o) < recvNext[o]
    BY <2>2, <2>3, <2>4 DEF Counts, Taken
  <2>7. \A j \in Streams : <<"server", j, 1>> \in Obj /\ (<<"server", j, 1>> = o <=> j = i)
    BY <1>4, Objects
  <2>8. Upstream!Read(i)
    BY <1>2, <1>3, <1>4, <2>5, <2>6, <2>7 DEF Upstream!Read, GotLen
  <2> QED
    BY <2>8 DEF Upstream!Next
<1>5. CASE o = ClientObj(i)
  <2>1. \A j \in Streams : <<"server", j, 1>> \in Obj /\ <<"server", j, 1>> # o
    BY <1>5, Objects DEF ClientObj
  <2>2. \A j \in Streams : got'[<<"server", j, 1>>] = got[<<"server", j, 1>>]
    BY <1>2, <1>3, <2>1
  <2> QED
    BY <1>2, <2>2 DEF Upstream!svars
<1> QED
  BY <1>1, <1>4, <1>5

LEMMA StepRefines ==
  ASSUME MaxOpens = 1, IInv, IInv', [Next]_vars
  PROVE  [Upstream!Next]_(Upstream!svars)
<1>1. CASE Opening
  <2>1. UNCHANGED <<sent, acked, recvNext, got>>
    BY <1>1 DEF Opening, Open, OpenOk, OpenFails, OnOpen, OnOpenReply, DialOk, DialErr,
                sendVars, recvVars
  <2> QED
    BY <2>1, Stutter
<1>2. CASE Sending
  <2>1. ASSUME NEW o \in Obj, Resend(o) \/ WriteFails(o) \/ SourceEnds(o)
        PROVE  UNCHANGED <<sent, acked, recvNext, got>>
    BY <2>1 DEF Resend, WriteFails, SourceEnds, sendVars, recvVars
  <2>2. ASSUME NEW m \in net, OnAck(m)
        PROVE  UNCHANGED <<sent, acked, recvNext, got>>
    BY <2>2 DEF OnAck, sendVars, recvVars
  <2> QED
    BY <1>2, <2>1, <2>2, Stutter, WriteRefines, WriteAckedRefines DEF Sending
<1>3. CASE Receiving
  <2>1. ASSUME NEW e \in Side, Push(e) \/ PushDropped(e)
        PROVE  UNCHANGED <<sent, acked, recvNext, got>>
    BY <2>1 DEF Push, PushDropped, sendVars, recvVars
  <2>2. ASSUME NEW o \in Obj, ReadClosed(o) \/ SinkResumes(o) \/ SinkFails(o)
        PROVE  UNCHANGED <<sent, acked, recvNext, got>>
    BY <2>2 DEF ReadClosed, SinkResumes, SinkFails, sendVars, recvVars
  <2> QED
    BY <1>3, <2>1, <2>2, Stutter, OnDataRefines, ReadRefines DEF Receiving
<1>4. CASE Closing
  <2>1. UNCHANGED <<sent, acked, recvNext, got>>
    BY <1>4 DEF Closing, CloseRemote, OnClose, Lose, sendVars, recvVars
  <2> QED
    BY <2>1, Stutter
<1>5. CASE UNCHANGED vars
  BY <1>5, Stutter DEF vars, sendVars, recvVars
<1> QED
  BY <1>1, <1>2, <1>3, <1>4, <1>5 DEF Next

\* The code of both peers over a lossy, repeating, reordering network
\* implements the reliable stream of ReliableStream from client to server.
THEOREM UpstreamImplements == ASSUME MaxOpens = 1 PROVE Spec => UpstreamReliable
<1>1. Init => Upstream!Init
  BY Objects DEF Init, Upstream!Init, ClientObj
<1>2. IInv /\ IInv' /\ [Next]_vars => [Upstream!Next]_(Upstream!svars)
  BY StepRefines
<1> QED
  BY <1>1, <1>2, InvariantHolds, PTL DEF Spec, Upstream!Spec, UpstreamReliable
=============================================================================
