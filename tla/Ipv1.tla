-------------------------------- MODULE Ipv1 --------------------------------
(* ipv1: flat names for UDP endpoints.  Every command is a process of its   *)
(* own; the registry is a JSON file that each reads and writes as a whole,  *)
(* with a mutex that only its own goroutines share.  Packets carry source,  *)
(* destination and payload with length prefixes.                            *)
EXTENDS Integers, Sequences, FiniteSets, SequencesExt

CONSTANTS Scripts,     \* the sequences of commands that may be started: [op, addr, ep, src, text]
          Strays,      \* datagrams of other programs
          MaxAddrLen, MaxNumber   \* maxAddrLen; bound: the numeric addresses
VARIABLES cmd,         \* the script: the commands in the order they are started
          file,        \* the registry file, with [addrs, next] when it is whole
          proc,        \* the step of each process
          mem,         \* what each has read, or is about to write
          answer,      \* what each printed: an address, an endpoint or nothing
          bound,       \* of each endpoint, the process that listens on it
          net,         \* the datagrams on their way: [ep, bytes]
          printed,     \* what the listeners printed: [by, pkt] (history)
          sent,        \* the packets sent (history)
          alone        \* no two processes worked on the file at once, and none was killed
                       \* between the truncation and the write (history)
vars == <<cmd, file, proc, mem, answer, bound, net, printed, sent, alone>>

Nothing == <<>>
NoState == [addrs |-> [a \in {} |-> 0], next |-> 1]
Absent == [cut |-> FALSE, st |-> NoState]
Truncated == [cut |-> TRUE, st |-> NoState]
Saved(st) == [cut |-> FALSE, st |-> st]
Put(f, k, v) == [x \in DOMAIN f \cup {k} |-> IF x = k THEN v ELSE f[x]]

----------------------------------------------------------------------------
(* Addresses are sequences of characters; a number stands for the letters,  *)
(* digits and dashes it is written with, "_" for any other character.       *)
ValidateAddr(a) == a # <<>> /\ \A i \in DOMAIN a : a[i] # "_"
Itoa(n) == <<ToString(n)>>

(* Packets: the version, the two names with their lengths, the payload.     *)
Uint16 == 0..65535
PutLenPrefixed(s) == <<Len(s)>> \o s
Encodable(p) ==
  /\ ValidateAddr(p.src) /\ ValidateAddr(p.dst)
  /\ Len(p.src) <= MaxAddrLen /\ Len(p.dst) <= MaxAddrLen
Encode(p) == <<"v1">> \o PutLenPrefixed(p.src) \o PutLenPrefixed(p.dst) \o p.payload

Malformed == [src |-> <<>>, dst |-> <<>>, payload |-> <<"malformed">>]
HasPrefix(b) == b # <<>> /\ b[1] \in Uint16 /\ Len(b) >= 1 + b[1]
GetLenPrefixed(b) == SubSeq(b, 2, 1 + b[1])
After(b) == SubSeq(b, 2 + b[1], Len(b))
Decode(b) ==
  IF Len(b) < 3 \/ b[1] # "v1" \/ ~HasPrefix(Tail(b)) THEN Malformed
  ELSE LET s == GetLenPrefixed(Tail(b))
           r == After(Tail(b))
       IN  IF ~HasPrefix(r) THEN Malformed
           ELSE LET d == GetLenPrefixed(r) IN
                IF ~ValidateAddr(s) \/ ~ValidateAddr(d) THEN Malformed
                ELSE [src |-> s, dst |-> d, payload |-> After(r)]

----------------------------------------------------------------------------
Procs == DOMAIN cmd
Init ==
  /\ cmd \in Scripts /\ file = Absent /\ proc = [p \in Procs |-> "new"] /\ mem = [p \in Procs |-> NoState]
  /\ answer = [p \in Procs |-> Nothing] /\ bound = [e \in {} |-> 0]
  /\ net = {} /\ printed = {} /\ sent = {} /\ alone = TRUE

Goto(p, s) == proc' = [proc EXCEPT ![p] = s]
AtFile == {"read", "cut", "write", "again", "cut again", "write again"}

(* The arguments are checked; listen first binds its port, whose endpoint   *)
(* it will register.                                                        *)
Start(p) ==
  /\ proc[p] = "new" /\ \A q \in Procs : q < p => proc[q] # "new"
  /\ IF cmd[p].op # "listen" THEN Goto(p, "read") /\ UNCHANGED bound
     ELSE IF cmd[p].ep \in DOMAIN bound THEN Goto(p, "failed") /\ UNCHANGED bound
     ELSE Goto(p, "read") /\ bound' = Put(bound, cmd[p].ep, p)
  /\ alone' = (alone /\ \A q \in Procs : proc[q] \notin AtFile)
  /\ UNCHANGED <<cmd, file, mem, answer, net, printed, sent>>

(* fail: the process ends, and what it listened on is free again.           *)
Without(p) == [e \in {x \in DOMAIN bound : bound[x] # p} |-> bound[e]]
Fail(p) == Goto(p, "failed") /\ bound' = Without(p)

(* readLocked and writeLocked, which Open calls once (ensure) and the       *)
(* command again.  The file is empty between the truncation and the write.  *)
Read(p, from, to) ==
  /\ proc[p] = from
  /\ IF file.cut THEN Fail(p) /\ UNCHANGED mem
     ELSE Goto(p, to) /\ mem' = [mem EXCEPT ![p] = file.st] /\ UNCHANGED bound
  /\ UNCHANGED <<cmd, file, answer, net, printed, sent, alone>>
Truncate(p, from, to) ==
  /\ proc[p] = from /\ Goto(p, to) /\ file' = Truncated
  /\ UNCHANGED <<cmd, mem, answer, bound, net, printed, sent, alone>>
Write(p, from, to) ==
  /\ proc[p] = from /\ Goto(p, to) /\ file' = Saved(mem[p]) /\ mem' = [mem EXCEPT ![p] = NoState]
  /\ UNCHANGED <<cmd, answer, bound, net, printed, sent, alone>>
Ensure(p) == Read(p, "read", "cut") \/ Truncate(p, "cut", "write") \/ Write(p, "write", "again")

(* Register: the address is checked, then bound to the endpoint.            *)
Registers(p) == cmd[p].op \in {"register", "listen"}
Register(p) ==
  /\ proc[p] = "again" /\ Registers(p)
  /\ IF ~ValidateAddr(cmd[p].addr) \/ cmd[p].ep = "" \/ file.cut
     THEN Fail(p) /\ UNCHANGED mem
     ELSE /\ mem' = [mem EXCEPT ![p] = [addrs |-> Put(file.st.addrs, cmd[p].addr, cmd[p].ep), next |-> file.st.next]]
          /\ Goto(p, "cut again") /\ UNCHANGED bound
  /\ UNCHANGED <<cmd, file, answer, net, printed, sent, alone>>

(* Allocate: the next number that is no address yet.                        *)
Unchecked(st) == {st.next}       \* does not look whether it is used; used by a mutant
NextFree(st) == {n \in st.next..MaxNumber :
                   Itoa(n) \notin DOMAIN st.addrs /\ \A k \in st.next..(n - 1) : Itoa(k) \in DOMAIN st.addrs}
Allocate(p) ==
  /\ proc[p] = "again" /\ cmd[p].op = "allocate"
  /\ IF cmd[p].ep = "" \/ file.cut
     THEN Fail(p) /\ UNCHANGED <<mem, answer>>
     ELSE \E n \in NextFree(file.st) :
          /\ mem' = [mem EXCEPT ![p] = [addrs |-> Put(file.st.addrs, Itoa(n), cmd[p].ep), next |-> n + 1]]
          /\ answer' = [answer EXCEPT ![p] = Itoa(n)]
          /\ Goto(p, "cut again") /\ UNCHANGED bound
  /\ UNCHANGED <<cmd, file, net, printed, sent, alone>>
Save(p) ==
  \/ Truncate(p, "cut again", "write again")
  \/ Write(p, "write again", IF cmd[p].op = "listen" THEN "listening" ELSE "done")

(* cmdSend: look the name up, encode, send one datagram.                    *)
Packet(p) == [src |-> cmd[p].src, dst |-> cmd[p].addr, payload |-> cmd[p].text]
Send(p) ==
  /\ proc[p] = "again" /\ cmd[p].op = "send"
  /\ IF file.cut \/ cmd[p].addr \notin DOMAIN file.st.addrs \/ ~Encodable(Packet(p))
     THEN Goto(p, "failed") /\ UNCHANGED <<net, sent, answer>>
     ELSE /\ net' = net \cup {[ep |-> file.st.addrs[cmd[p].addr], bytes |-> Encode(Packet(p))]}
          /\ sent' = sent \cup {Packet(p)} /\ Goto(p, "done")
          /\ answer' = [answer EXCEPT ![p] = <<file.st.addrs[cmd[p].addr]>>]
  /\ UNCHANGED <<cmd, file, mem, bound, printed, alone>>

(* cmdListen's loop: what does not decode and what is for another name is   *)
(* passed over.  A datagram may be lost, come late, or come twice.          *)
Receive(p) ==
  /\ proc[p] = "listening"
  /\ \E d \in net : d.ep = cmd[p].ep /\
       LET pkt == Decode(d.bytes) IN
       printed' = IF pkt = Malformed \/ pkt.dst # cmd[p].addr THEN printed
                  ELSE printed \cup {[by |-> p, pkt |-> pkt]}
  /\ UNCHANGED <<cmd, file, proc, mem, answer, bound, net, sent, alone>>
Lose == \E d \in net : net' = net \ {d} /\ UNCHANGED <<cmd, file, proc, mem, answer, bound, printed, sent, alone>>
Stray == /\ \E b \in Strays : \E e \in DOMAIN bound : net' = net \cup {[ep |-> e, bytes |-> b]}
         /\ Cardinality(net') <= 2
         /\ UNCHANGED <<cmd, file, proc, mem, answer, bound, printed, sent, alone>>

(* A signal ends a listener at its next timeout; any process may be killed. *)
Stop(p) ==
  /\ proc[p] = "listening" /\ Goto(p, "done") /\ bound' = Without(p)
  /\ UNCHANGED <<cmd, file, mem, answer, net, printed, sent, alone>>
Kill(p) ==
  /\ proc[p] \in AtFile \cup {"listening"} /\ Goto(p, "killed") /\ bound' = Without(p)
  /\ alone' = (alone /\ proc[p] \notin {"write", "write again"})
  /\ UNCHANGED <<cmd, file, mem, answer, net, printed, sent>>

Next == Lose \/ Stray
        \/ \E p \in Procs : \/ Start(p) \/ Ensure(p) \/ Register(p) \/ Allocate(p) \/ Save(p) \/ Send(p)
                            \/ Receive(p) \/ Stop(p) \/ Kill(p)

----------------------------------------------------------------------------
(* While commands work on the file one at a time, every name that a         *)
(* finished command bound leads to the endpoint of the last command that    *)
(* bound it, and no number is given out twice or taken from a name that     *)
(* was registered before (Register, Allocate).                              *)
Binds(p) == proc[p] \in {"done", "listening"} /\ cmd[p].op # "send"
NameOf(p) == IF cmd[p].op = "allocate" THEN answer[p] ELSE cmd[p].addr
NamesLead ==
  alone => \A p \in Procs : Binds(p) =>
    /\ \/ file.cut
       \/ NameOf(p) \in DOMAIN file.st.addrs
          /\ \/ file.st.addrs[NameOf(p)] = cmd[p].ep
             \/ \E q \in Procs : q > p /\ Registers(q) /\ cmd[q].addr = NameOf(p) /\ file.st.addrs[NameOf(p)] = cmd[q].ep
    /\ cmd[p].op = "allocate" => \A q \in Procs : q < p /\ Binds(q) => NameOf(q) # NameOf(p)

(* Whatever is lost, late, repeated or foreign, a listener prints only      *)
(* packets that somebody sent, whole, and only those for its own name: also *)
(* when a name was registered elsewhere between the lookup and the arrival, *)
(* or the port changed hands (Encode, Decode, cmdListen).                   *)
PrintedWasSent == \A r \in printed : r.pkt \in sent /\ r.pkt.dst = cmd[r.by].addr
=============================================================================
