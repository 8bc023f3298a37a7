---------------------------- MODULE CloakTunnel ----------------------------
(***************************************************************************)
(* The SOCKS tunnel of cloak: two peers, a client and a server, multiplex  *)
(* byte streams over UDP.  Each stream is stop-and-wait in each direction. *)
(* A stream object is <<side, id, incarnation>>: ids are chosen by the     *)
(* client and never reused by it, but every OPEN that reaches the server   *)
(* makes a new object for its id, also an OPEN that the network repeats.   *)
(***************************************************************************)
EXTENDS Naturals, Sequences

CONSTANTS
  Streams,    \* stream ids the client will open
  Data,       \* payloads
  NoData,     \* the nil of stream.pending
  NoPush,     \* the readLoop is not blocked in a push
  MaxOpens,   \* bound: how often the network delivers one OPEN
  InboxCap,   \* capacity of stream.inbox
  MaxChunks   \* bound: chunks written per stream object of a side

Side == {"client", "server"}
Other(e) == IF e = "client" THEN "server" ELSE "client"
Obj == ({"client"} \X Streams \X {1}) \cup ({"server"} \X Streams \X (1..MaxOpens))

ASSUME TunnelAssumption ==
  /\ MaxOpens \in Nat \ {0}
  /\ InboxCap \in Nat \ {0}
  /\ MaxChunks \in [Side -> Nat]
  /\ NoData \notin Data
  /\ NoPush \notin Obj \X Data

VARIABLES
  net,       \* datagrams in flight
  tab,       \* peer.streams: the incarnation registered for an id, 0 if none
  phase,     \* what the goroutine that owns the object is doing
  closed,    \* stream.closed has been closed
  waitOpen,  \* stream.waitOpen of the client's objects
  wr,        \* the goroutine that calls writeReliable
  nextSeq, pending, ackCh,
  rd,        \* the goroutine that drains the inbox
  recvNext, inbox,
  loop,      \* the onData push the side's single readLoop is executing
  sent, acked, got  \* history: chunks written, writes that succeeded, chunks read

lifeVars == <<tab, phase, closed, waitOpen>>
sendVars == <<nextSeq, pending, ackCh, sent, acked>>
recvVars == <<recvNext, inbox, got>>
vars == <<net, lifeVars, wr, sendVars, rd, recvVars, loop>>

Message(t, e, i, q, d) == [type |-> t, from |-> e, id |-> i, seq |-> q, body |-> d]

Signal == {"OPEN", "OPENACK", "OPENERR", "ACK", "CLOSE"}

Datagram ==
  [type : {"DATA"}, from : Side, id : Streams, seq : Nat, body : Data] \cup
  [type : Signal, from : Side, id : Streams, seq : Nat, body : {NoData}]

TableType ==
  /\ tab \in [Side \X Streams -> 0..MaxOpens]
  /\ \A i \in Streams : tab[<<"client", i>>] <= 1
  /\ phase \in [Obj -> {"none", "opening", "dialing", "up", "done"}]
  /\ closed \in [Obj -> BOOLEAN]
  /\ waitOpen \in [Streams -> {"empty", "ok", "err"}]

WriterType ==
  /\ wr \in [Obj -> {"off", "idle", "waiting", "done"}]
  /\ nextSeq \in [Obj -> Nat]
  /\ pending \in [Obj -> Data \cup {NoData}]
  /\ ackCh \in [Obj -> BOOLEAN]
  /\ sent \in [Obj -> Seq(Data)]
  /\ acked \in [Obj -> Nat]
  /\ \A o \in Obj : nextSeq[o] = Len(sent[o]) /\ (wr[o] = "waiting" => nextSeq[o] > 0)

ReaderType ==
  /\ rd \in [Obj -> {"off", "on", "stuck", "done"}]
  /\ recvNext \in [Obj -> Nat]
  /\ inbox \in [Obj -> Seq(Data)]
  /\ \A o \in Obj : Len(inbox[o]) <= InboxCap
  /\ got \in [Obj -> Seq(Data)]

LoopType ==
  /\ loop \in [Side -> {NoPush} \cup (Obj \X Data)]
  /\ \A e \in Side : loop[e] # NoPush => loop[e][1][1] = e

TypeOK == net \subseteq Datagram /\ TableType /\ WriterType /\ ReaderType /\ LoopType

Init ==
  /\ net = {}
  /\ tab = [p \in Side \X Streams |-> 0]
  /\ phase = [o \in Obj |-> "none"]
  /\ closed = [o \in Obj |-> FALSE]
  /\ waitOpen = [i \in Streams |-> "empty"]
  /\ wr = [o \in Obj |-> "off"]
  /\ nextSeq = [o \in Obj |-> 0]
  /\ pending = [o \in Obj |-> NoData]
  /\ ackCh = [o \in Obj |-> FALSE]
  /\ rd = [o \in Obj |-> "off"]
  /\ recvNext = [o \in Obj |-> 0]
  /\ inbox = [o \in Obj |-> <<>>]
  /\ loop = [e \in Side |-> NoPush]
  /\ sent = [o \in Obj |-> <<>>]
  /\ acked = [o \in Obj |-> 0]
  /\ got = [o \in Obj |-> <<>>]

----------------------------------------------------------------------------
(* Stream table. *)

Registered(e, i) == tab[<<e, i>>] # 0
Current(e, i) == <<e, i, tab[<<e, i>>]>>

\* Mutant: the removed object's closed channel stays open.
RemoveStreamLeavesOpen(e, i) ==
  /\ tab' = [tab EXCEPT ![<<e, i>>] = 0]
  /\ UNCHANGED closed

\* Whatever object the id maps to is removed and its closed channel closed.
RemoveStream(e, i) ==
  /\ tab' = [tab EXCEPT ![<<e, i>>] = 0]
  /\ closed' = IF Registered(e, i) THEN [closed EXCEPT ![Current(e, i)] = TRUE]
                                   ELSE closed

\* readLoop hands the next datagram to handle; it is one goroutine per side.
Arrives(m, t) == m \in net /\ m.type = t /\ loop[Other(m.from)] = NoPush

StartRelay(o) ==
  /\ phase' = [phase EXCEPT ![o] = "up"]
  /\ wr' = [wr EXCEPT ![o] = "idle"]
  /\ rd' = [rd EXCEPT ![o] = "on"]

----------------------------------------------------------------------------
(* Opening. *)

\* dialThrough: allocStream, then open sends OPEN, once.
Open(i) ==
  LET o == <<"client", i, 1>> IN
  /\ phase[o] = "none"
  /\ tab' = [tab EXCEPT ![<<"client", i>>] = 1]
  /\ phase' = [phase EXCEPT ![o] = "opening"]
  /\ net' = net \cup {Message("OPEN", "client", i, 0, NoData)}
  /\ UNCHANGED <<closed, waitOpen, wr, sendVars, rd, recvVars, loop>>

OnOpen(m, k) ==
  LET o == <<"server", m.id, k>> IN
  /\ Arrives(m, "OPEN")
  /\ phase[o] = "none"
  /\ \A j \in 1..(k - 1) : phase[<<"server", m.id, j>>] # "none"
  /\ tab' = [tab EXCEPT ![<<"server", m.id>>] = k]
  /\ phase' = [phase EXCEPT ![o] = "dialing"]
  /\ UNCHANGED <<net, closed, waitOpen, wr, sendVars, rd, recvVars, loop>>

DialOk(o) ==
  /\ phase[o] = "dialing"
  /\ StartRelay(o)
  /\ net' = net \cup {Message("OPENACK", "server", o[2], 0, NoData)}
  /\ UNCHANGED <<tab, closed, waitOpen, sendVars, recvVars, loop>>

DialErr(o) ==
  /\ phase[o] = "dialing"
  /\ phase' = [phase EXCEPT ![o] = "done"]
  /\ net' = net \cup {Message("OPENERR", "server", o[2], 0, NoData)}
  /\ RemoveStream("server", o[2])
  /\ UNCHANGED <<waitOpen, wr, sendVars, rd, recvVars, loop>>

\* waitOpen holds one reply; a further one is dropped.
OnOpenReply(m) ==
  /\ m.from = "server"
  /\ Arrives(m, "OPENACK") \/ Arrives(m, "OPENERR")
  /\ Registered("client", m.id)
  /\ waitOpen[m.id] = "empty"
  /\ waitOpen' = [waitOpen EXCEPT ![m.id] = IF m.type = "OPENERR" THEN "err" ELSE "ok"]
  /\ UNCHANGED <<net, tab, phase, closed, wr, sendVars, rd, recvVars, loop>>

OpenOk(i) ==
  LET o == <<"client", i, 1>> IN
  /\ phase[o] = "opening"
  /\ waitOpen[i] = "ok"
  /\ waitOpen' = [waitOpen EXCEPT ![i] = "empty"]
  /\ StartRelay(o)
  /\ UNCHANGED <<net, tab, closed, sendVars, recvVars, loop>>

\* The server refused, or 15 s passed (or OPEN could not be sent): the stream
\* is dropped locally and the server is not told.
OpenFails(i) ==
  LET o == <<"client", i, 1>> IN
  /\ phase[o] = "opening"
  /\ phase' = [phase EXCEPT ![o] = "done"]
  /\ waitOpen' = [waitOpen EXCEPT ![i] = "empty"]
  /\ RemoveStream("client", i)
  /\ UNCHANGED <<net, wr, sendVars, rd, recvVars, loop>>

----------------------------------------------------------------------------
(* Sending: writeReliable and onAck. *)

CurrentData(o) == Message("DATA", o[1], o[2], nextSeq[o] - 1, sent[o][nextSeq[o]])

Write(o, d) ==
  /\ wr[o] = "idle"
  /\ Len(sent[o]) < MaxChunks[o[1]]
  /\ wr' = [wr EXCEPT ![o] = "waiting"]
  /\ nextSeq' = [nextSeq EXCEPT ![o] = @ + 1]
  /\ pending' = [pending EXCEPT ![o] = d]
  /\ sent' = [sent EXCEPT ![o] = Append(@, d)]
  /\ net' = net \cup {Message("DATA", o[1], o[2], nextSeq[o], d)}
  /\ UNCHANGED <<lifeVars, ackCh, acked, rd, recvVars, loop>>

Resend(o) ==
  /\ wr[o] = "waiting"
  /\ net' = net \cup {CurrentData(o)}
  /\ UNCHANGED <<lifeVars, wr, sendVars, rd, recvVars, loop>>

WriteAcked(o) ==
  /\ wr[o] = "waiting"
  /\ ackCh[o]
  /\ wr' = [wr EXCEPT ![o] = "idle"]
  /\ ackCh' = [ackCh EXCEPT ![o] = FALSE]
  /\ acked' = [acked EXCEPT ![o] = @ + 1]
  /\ UNCHANGED <<net, lifeVars, nextSeq, pending, sent, rd, recvVars, loop>>

\* writeReliable fails: the 30 s deadline, a send error, or the stream closed
\* under it.  Both callers stop writing after an error.
WriteFails(o) ==
  /\ wr[o] = "waiting"
  /\ wr' = [wr EXCEPT ![o] = "done"]
  /\ UNCHANGED <<net, lifeVars, sendVars, rd, recvVars, loop>>

\* The local TCP connection has nothing more to send.
SourceEnds(o) ==
  /\ wr[o] = "idle"
  /\ wr' = [wr EXCEPT ![o] = "done"]
  /\ UNCHANGED <<net, lifeVars, sendVars, rd, recvVars, loop>>

\* Mutant: the acknowledged sequence number is not compared with pendSeq.
AnyAckMatches(o, m) == pending[o] # NoData

AckMatches(o, m) == pending[o] # NoData /\ nextSeq[o] - 1 = m.seq

OnAck(m) ==
  LET e == Other(m.from)
      o == Current(e, m.id) IN
  /\ Arrives(m, "ACK")
  /\ Registered(e, m.id)
  /\ AckMatches(o, m)
  /\ pending' = [pending EXCEPT ![o] = NoData]
  /\ ackCh' = [ackCh EXCEPT ![o] = TRUE]
  /\ UNCHANGED <<net, lifeVars, wr, nextSeq, sent, acked, rd, recvVars, loop>>

----------------------------------------------------------------------------
(* Receiving: onData, the inbox and its reader. *)

\* Mutants: duplicates are not filtered; the first sequence number is off by one.
ExpectsAny(o, m) == TRUE
ExpectsNext(o, m) == m.seq = recvNext[o] + 1

Expected(o, m) == m.seq = recvNext[o]

\* Mutant: only a chunk that is accepted is acknowledged.
AckAcceptedOnly(o, m) == IF Expected(o, m) THEN {Message("ACK", o[1], o[2], m.seq, NoData)} ELSE {}

AckOf(o, m) == {Message("ACK", o[1], o[2], m.seq, NoData)}

\* Every chunk is acknowledged first; only the expected one is accepted.
OnData(m) ==
  LET e == Other(m.from)
      o == Current(e, m.id) IN
  /\ Arrives(m, "DATA")
  /\ Registered(e, m.id)
  /\ net' = net \cup AckOf(o, m)
  /\ recvNext' = IF Expected(o, m) THEN [recvNext EXCEPT ![o] = @ + 1] ELSE recvNext
  /\ loop' = IF Expected(o, m) THEN [loop EXCEPT ![e] = <<o, m.body>>] ELSE loop
  /\ UNCHANGED <<lifeVars, wr, sendVars, rd, inbox, got>>

InboxHasRoom(o) == Len(inbox[o]) < InboxCap

\* The send on the inbox, which blocks the readLoop while the inbox is full ...
Push(e) ==
  LET o == loop[e][1] IN
  /\ loop[e] # NoPush
  /\ InboxHasRoom(o)
  /\ inbox' = [inbox EXCEPT ![o] = Append(@, loop[e][2])]
  /\ loop' = [loop EXCEPT ![e] = NoPush]
  /\ UNCHANGED <<net, lifeVars, wr, sendVars, rd, recvNext, got>>

\* ... unless the stream is closed: an acknowledged chunk is then dropped.
PushDropped(e) ==
  /\ loop[e] # NoPush
  /\ closed[loop[e][1]]
  /\ loop' = [loop EXCEPT ![e] = NoPush]
  /\ UNCHANGED <<net, lifeVars, wr, sendVars, rd, recvVars>>

\* The chunk goes to the local TCP connection, which takes it at once or
\* keeps the goroutine in conn.Write, which has no deadline.
Read(o) ==
  /\ rd[o] = "on"
  /\ inbox[o] # <<>>
  /\ \E r \in {"on", "stuck"} : rd' = [rd EXCEPT ![o] = r]
  /\ got' = [got EXCEPT ![o] = Append(@, Head(inbox[o]))]
  /\ inbox' = [inbox EXCEPT ![o] = Tail(@)]
  /\ UNCHANGED <<net, lifeVars, wr, sendVars, recvNext, loop>>

SinkResumes(o) ==
  /\ rd[o] = "stuck"
  /\ rd' = [rd EXCEPT ![o] = "on"]
  /\ UNCHANGED <<net, lifeVars, wr, sendVars, recvVars, loop>>

\* The select may take the closed channel although chunks are left.
ReadClosed(o) ==
  /\ rd[o] = "on"
  /\ closed[o]
  /\ rd' = [rd EXCEPT ![o] = "done"]
  /\ UNCHANGED <<net, lifeVars, wr, sendVars, recvVars, loop>>

\* The local TCP connection refuses the chunk just read.
SinkFails(o) ==
  /\ rd[o] \in {"on", "stuck"}
  /\ got[o] # <<>>
  /\ rd' = [rd EXCEPT ![o] = "done"]
  /\ UNCHANGED <<net, lifeVars, wr, sendVars, recvVars, loop>>

----------------------------------------------------------------------------
(* Closing. *)

\* pipe on the client ends with its first direction, relayStream on the
\* server with both.
Finished(o) ==
  IF o[1] = "client" THEN wr[o] = "done" \/ rd[o] = "done"
                     ELSE wr[o] = "done" /\ rd[o] = "done"

CloseRemote(o) ==
  /\ phase[o] = "up"
  /\ Finished(o)
  /\ phase' = [phase EXCEPT ![o] = "done"]
  /\ net' = net \cup {Message("CLOSE", o[1], o[2], 0, NoData)}
  /\ RemoveStream(o[1], o[2])
  /\ UNCHANGED <<waitOpen, wr, sendVars, rd, recvVars, loop>>

OnClose(m) ==
  LET e == Other(m.from) IN
  /\ Arrives(m, "CLOSE")
  /\ Registered(e, m.id)
  /\ RemoveStream(e, m.id)
  /\ UNCHANGED <<net, phase, waitOpen, wr, sendVars, rd, recvVars, loop>>

\* The network loses, or has delivered for the last time, a datagram.
Lose(m) ==
  /\ m \in net
  /\ net' = net \ {m}
  /\ UNCHANGED <<lifeVars, wr, sendVars, rd, recvVars, loop>>

----------------------------------------------------------------------------

Opening ==
  \/ \E i \in Streams : Open(i) \/ OpenOk(i) \/ OpenFails(i)
  \/ \E m \in net, k \in 1..MaxOpens : OnOpen(m, k)
  \/ \E m \in net : OnOpenReply(m)
  \/ \E o \in Obj : DialOk(o) \/ DialErr(o)

Sending ==
  \/ \E o \in Obj, d \in Data : Write(o, d)
  \/ \E o \in Obj : Resend(o) \/ WriteAcked(o) \/ WriteFails(o) \/ SourceEnds(o)
  \/ \E m \in net : OnAck(m)

Receiving ==
  \/ \E m \in net : OnData(m)
  \/ \E e \in Side : Push(e) \/ PushDropped(e)
  \/ \E o \in Obj : Read(o) \/ SinkResumes(o) \/ ReadClosed(o) \/ SinkFails(o)

Closing ==
  \/ \E o \in Obj : CloseRemote(o)
  \/ \E m \in net : OnClose(m) \/ Lose(m)

Next == Opening \/ Sending \/ Receiving \/ Closing

Spec == Init /\ [][Next]_vars

----------------------------------------------------------------------------
(* Properties. *)

Prefix(s, t) == Len(s) <= Len(t) /\ \A n \in 1..Len(s) : s[n] = t[n]

ClientObj(i) == <<"client", i, 1>>

\* Whatever the network loses, repeats or reorders, what a server-side stream
\* hands to its target connection is a prefix of what the client wrote
\* (writeReliable, onData, inbox, relayStream): no gap, no repetition, no exchange.
UpstreamInOrder ==
  \A i \in Streams, k \in 1..MaxOpens :
    Prefix(got[<<"server", i, k>>], sent[ClientObj(i)])

\* The same from the server to the client.
DownstreamInOrder ==
  \A i \in Streams :
    Prefix(got[ClientObj(i)], sent[<<"server", i, 1>>])

\* A write returns nil (writeReliable) only for a chunk the other side's
\* onData accepted, so the caller may forget the chunk.
ConfirmedIsAccepted ==
  \A i \in Streams :
    /\ acked[ClientObj(i)] <= recvNext[<<"server", i, 1>>]
    /\ acked[<<"server", i, 1>>] <= recvNext[ClientObj(i)]

\* onData acknowledges a chunk without accepting it only when it is a
\* duplicate ("duplicates only re-ACK", recvNext): every acknowledgement on
\* the wire is for a chunk that an object of that id has accepted.
DuplicatesOnlyReAck ==
  \A m \in net : m.type = "ACK" =>
    \E o \in Obj : o[1] = m.from /\ o[2] = m.id /\ m.seq < recvNext[o]

\* Stop-and-wait as ReliableStream states it, for the client's direction.
Upstream == INSTANCE ReliableStream WITH
  Chan <- Streams,
  written <- [i \in Streams |-> sent[ClientObj(i)]],
  accepted <- [i \in Streams |-> recvNext[<<"server", i, 1>>]],
  confirmed <- [i \in Streams |-> acked[ClientObj(i)]],
  read <- [i \in Streams |-> got[<<"server", i, 1>>]]

\* The client-to-server direction implements ReliableStream.
UpstreamReliable == Upstream!Spec

----------------------------------------------------------------------------
(* Liveness. *)

PeerObj(o) == <<Other(o[1]), o[2], 1>>

\* Timers and goroutines run.  Nothing is assumed of the TCP side of a stream:
\* a conn.Write that is stuck may stay so.  A datagram that is sent again and
\* again arrives again and again; one that is sent once (OPEN, CLOSE and the
\* replies to OPEN) may never arrive.
DataArrives(o) == wr[o] = "waiting" /\ \E m \in net : m = CurrentData(o) /\ OnData(m)
AckArrives(o) == \E m \in net : m.from = Other(o[1]) /\ m.id = o[2] /\ OnAck(m)

Fairness ==
  /\ \A i \in Streams : WF_vars(OpenOk(i) \/ OpenFails(i))
  /\ \A o \in Obj :
       /\ WF_vars(Resend(o))
       /\ WF_vars(WriteAcked(o))
       /\ WF_vars(Read(o) \/ ReadClosed(o))
       /\ WF_vars((rd[o] = "done" /\ SourceEnds(o)) \/ CloseRemote(o))
       /\ SF_vars(DataArrives(o))
       /\ SF_vars(AckArrives(o))
  /\ \A e \in Side : WF_vars(Push(e) \/ PushDropped(e))

FairSpec == Spec /\ Fairness

\* Both ends of the stream are in their tables and neither reader has ended.
Healthy(i) ==
  \A e \in Side : tab[<<e, i>>] = 1 /\ rd[<<e, i, 1>>] \in {"on", "stuck"}

\* No conn.Write to a TCP side is stuck for ever.
ConsumersTake == \A o \in Obj : []<>(rd[o] # "stuck")

\* Without help of the deadline: as long as every stream of the two peers
\* stays healthy, retransmission gets every write through, unless a TCP side
\* stalls for ever.  All streams are named because they share the readLoop,
\* which one full inbox blocks.
WriteGetsThrough ==
  ConsumersTake =>
    \A o \in Obj :
      wr[o] = "waiting" /\ (\A i \in Streams : Healthy(i))
        ~> wr[o] # "waiting" \/ ~(\A i \in Streams : Healthy(i))

\* The readLoop stays blocked on a full inbox only if a TCP side stalls for
\* ever in conn.Write (tunnel.go:291, no deadline) or a write waits for ever,
\* which the 30 s deadline of writeReliable rules out: otherwise the reader of
\* the inbox drains it, or ends, and then closeRemote releases the loop.
ReadLoopRecovers ==
  ConsumersTake /\ (\A o \in Obj : []<>(wr[o] # "waiting"))
    => \A e \in Side : []<>(loop[e] = NoPush)

=============================================================================
