------------------------- MODULE PlateControlProofs -------------------------
(***************************************************************************)
(* Proofs about PlateControl: public addresses are exclusive for every     *)
(* number of VMs, requests, restarts and failures; while the server does   *)
(* not die, and when requests are served one at a time, addresses,         *)
(* containers and usage agree with the records, but for the VMs for which  *)
(* an access to a file has failed.                                         *)
(***************************************************************************)
EXTENDS MCPlateControl, TLAPS

Handle(w) ==
  \/ Assign(w) \/ Make(w) \/ Start(w) \/ Stop(w) \/ Destroy(w) \/ Commit(w) \/ Restore(w)
  \/ Sync(w) \/ Unfire(w) \/ Fire(w) \/ Refire(w)
  \/ Put(w) \/ Bill(w) \/ Meter(w) \/ Release(w) \/ Erase(w)

Aborts == {"start", "stop", "destroy", "commit", "restore", "refire", "assign", "put", "erase"}

\* How a step leaves the request: at its next step, at those after a failed
\* creation, or at its end.
Moves(w) ==
  \/ Continue(w)
  \/ Return(w) /\ Head(todo[w]) \in Aborts
  \/ todo' = [todo EXCEPT ![w] = Steps("undo")] /\ Head(todo[w]) = "make"

\* The steps of an operation are steps.
LEMMA StepsAreSteps ==
  ASSUME NEW o \in Op
  PROVE  Steps(o) \in Seq(Step)
<1>1. CASE o = "get"
  BY <1>1 DEF Steps, Step
<1>2. CASE o = "put"
  BY <1>2 DEF Steps, Step
<1>3. CASE o = "start"
  BY <1>3 DEF Steps, Step
<1>4. CASE o = "stop"
  BY <1>4 DEF Steps, Step
<1>5. CASE o = "delete"
  BY <1>5 DEF Steps, Step
<1>6. CASE o = "firewall"
  BY <1>6 DEF Steps, Step
<1>7. CASE o = "snapshot"
  BY <1>7 DEF Steps, Step
<1>8. CASE o = "restore"
  BY <1>8 DEF Steps, Step
<1>9. CASE o = "create"
  BY <1>9 DEF Steps, Step
<1>10. CASE o = "undo"
  BY <1>10 DEF Steps, Step
<1> QED BY <1>1, <1>2, <1>3, <1>4, <1>5, <1>6, <1>7, <1>8, <1>9, <1>10 DEF Op

\* What every step of a request has in common.
LEMMA HandleMoves ==
  ASSUME NEW w \in Workers, Handle(w)
  PROVE  todo[w] # <<>> /\ Moves(w) /\ UNCHANGED <<vm, requests, crashes, up, issued>>
<1>1. CASE Make(w)
  BY <1>1 DEF Make, Now, Moves, Same, bounds
<1>2. CASE Start(w)
  BY <1>2 DEF Start, Now, Moves, Aborts, Same, bounds
<1>3. CASE Stop(w)
  BY <1>3 DEF Stop, Now, Moves, Aborts, Same, bounds
<1>4. CASE Destroy(w) \/ Commit(w) \/ Restore(w)
  BY <1>4 DEF Destroy, Commit, Restore, Now, Moves, Aborts, Same, bounds
<1>5. CASE Refire(w)
  BY <1>5 DEF Refire, Now, Moves, Aborts, Same, bounds
<1>6. CASE Sync(w) \/ Unfire(w) \/ Fire(w)
  BY <1>6 DEF Sync, Unfire, Fire, Now, Moves, Same, bounds
<1>7. CASE Put(w) \/ Bill(w) \/ Meter(w) \/ Release(w)
  BY <1>7 DEF Put, Bill, Meter, Release, Now, Moves, Aborts, Same, bounds
<1>8. CASE Erase(w) \/ Assign(w)
  BY <1>8 DEF Erase, Assign, Now, Moves, Aborts, Same, bounds
<1> QED BY <1>1, <1>2, <1>3, <1>4, <1>5, <1>6, <1>7, <1>8 DEF Handle

\* The moves of a request keep the type of its steps.
LEMMA MovesType ==
  ASSUME TypeOK, NEW w \in Workers, todo[w] # <<>>, Moves(w)
  PROVE  todo' \in [Workers -> Seq(Step)]
<1>1. Tail(todo[w]) \in Seq(Step) /\ <<>> \in Seq(Step) /\ Steps("undo") \in Seq(Step)
  BY StepsAreSteps DEF TypeOK, Op
<1> QED BY <1>1 DEF Moves, Continue, Return, TypeOK

----------------------------------------------------------------------------
(* Type correctness. *)

Files == /\ record \in [VMs -> Record \cup {NoRecord}]
         /\ assigned \in [VMs -> IPs \cup {NoIP}]
         /\ usage \in [VMs -> {"none", "open", "closed"}]
         /\ deleted \subseteq VMs

Host == /\ box \in [VMs -> [state : {"none", "running", "stopped"}, addr : Addrs \cup {NoAddr}]]
        /\ images \subseteq VMs
        /\ dnat \subseteq IPs \X Rules \X Addrs

Copies == inst \in [Workers -> Record]

Disk == torn \subseteq File /\ faults \in 0..MaxFaults /\ failed \subseteq Step \X VMs

\* An access to a file that returns no error has changed the file, and one that
\* returns an error is remembered.
LEMMA AccessEffects ==
  ASSUME TypeOK, NEW w \in Workers, todo[w] # <<>>, NEW f \in File,
         NEW ok \in BOOLEAN, NEW done \in BOOLEAN, Access(w, f, ok, done)
  PROVE  /\ Disk'
         /\ failed \subseteq failed'
         /\ ok => done
         /\ ~ok => <<Head(todo[w]), vm[w]>> \in failed'
<1>1. Head(todo[w]) \in Step /\ vm[w] \in VMs /\ Disk
  BY DEF TypeOK, Disk
<1>2. CASE ok
  BY <1>1, <1>2 DEF Access, disk, Disk
<1>3. CASE ~ok
  <2>1. failed' = failed \cup {<<Head(todo[w]), vm[w]>>}
    BY <1>3 DEF Access
  <2>2. torn' \subseteq File /\ faults' \in 0..MaxFaults
    BY <1>1, <1>3, PlateAssumption DEF Access, Disk
  <2> QED BY <1>1, <1>3, <2>1, <2>2 DEF Disk
<1> QED BY <1>2, <1>3

\* The rules of a copy of a record are rules of known addresses.
LEMMA DnatType ==
  ASSUME NEW i \in Record, NEW fw \in SUBSET Rules
  PROVE  DnatOf(i, fw) \subseteq IPs \X Rules \X Addrs
BY DEF DnatOf, Record

\* What the commands of the backend leave of a container.
LEMMA BoxType ==
  ASSUME TypeOK, NEW v \in VMs, Up(v) \/ Down(v) \/ Gone(v) \/ Started(v) \/ Stopped(v) \/ UNCHANGED box
  PROVE  box' \in [VMs -> [state : {"none", "running", "stopped"}, addr : Addrs \cup {NoAddr}]]
<1> DEFINE Box == [state : {"none", "running", "stopped"}, addr : Addrs \cup {NoAddr}]
<1>0. box \in [VMs -> Box]
  BY DEF TypeOK
<1>1. ASSUME NEW a \in Addrs, box' = [box EXCEPT ![v] = [state |-> "running", addr |-> a]]
      PROVE  box' \in [VMs -> Box]
  <2>1. [state |-> "running", addr |-> a] \in Box
    OBVIOUS
  <2> QED BY <1>0, <1>1, <2>1
<1>2. CASE Up(v)
  BY <1>1, <1>2 DEF Up, FreshAddr
<1>3. CASE Down(v)
  <2>1. [state |-> "stopped", addr |-> NoAddr] \in Box
    OBVIOUS
  <2> QED BY <1>0, <1>3, <2>1 DEF Down
<1>4. CASE Gone(v)
  <2>1. NoBox \in Box
    BY DEF NoBox
  <2> QED BY <1>0, <1>4, <2>1 DEF Gone
<1>5. CASE UNCHANGED box
  BY <1>0, <1>5
<1> QED BY <1>2, <1>3, <1>4, <1>5 DEF Started, Stopped

LEMMA CopyType ==
  ASSUME TypeOK, NEW w \in Workers, NEW i \in Record, Copy(w, i)
  PROVE  Copies'
BY DEF TypeOK, Copies, Copy

LEMMA HandleType ==
  ASSUME TypeOK, NEW w \in Workers, Handle(w)
  PROVE  TypeOK'
<1> USE DEF files, host, history, disk
<1> DEFINE v == vm[w]
<1>0. v \in VMs /\ inst[w] \in Record /\ Files /\ Host /\ Copies /\ Disk
  BY DEF TypeOK, Files, Host, Copies, Disk
<1>1. Files' /\ Host' /\ Copies' /\ Disk'
  <2>1. CASE Make(w)
    <3>1. [inst[w] EXCEPT !.status = "running", !.started = TRUE] \in Record
      BY <1>0 DEF Record
    <3>2. [inst[w] EXCEPT !.status = "error"] \in Record
      BY <1>0 DEF Record
    <3>3. Copies'
      BY <2>1, <3>1, <3>2, CopyType DEF Make
    <3> QED BY <1>0, <2>1, <3>3, BoxType DEF Make, Files, Host, Disk
  <2>2. CASE Start(w)
    <3>1. [inst[w] EXCEPT !.status = "running", !.started = TRUE] \in Record
      BY <1>0 DEF Record
    <3>2. Copies'
      BY <1>0, <2>2, <3>1, CopyType DEF Start, Copies
    <3> QED BY <1>0, <2>2, <3>2, BoxType DEF Start, Files, Host, Disk
  <2>3. CASE Stop(w)
    <3>1. [inst[w] EXCEPT !.status = "stopped"] \in Record
      BY <1>0 DEF Record
    <3>2. Copies'
      BY <1>0, <2>3, <3>1, CopyType DEF Stop, Copies
    <3> QED BY <1>0, <2>3, <3>2, BoxType DEF Stop, Files, Host, Disk
  <2>4. CASE Destroy(w)
    BY <1>0, <2>4, BoxType DEF Destroy, Files, Host, Copies, Disk
  <2>5. CASE Commit(w)
    BY <1>0, <2>5 DEF Commit, Files, Host, Copies, Disk
  <2>6. CASE Restore(w)
    BY <1>0, <2>6, BoxType DEF Restore, Files, Host, Copies, Disk
  <2>7. CASE Sync(w)
    <3>1. [inst[w] EXCEPT !.status = "error"] \in Record
      BY <1>0 DEF Record
    <3>2. ASSUME box[v].state # "none"
          PROVE  [inst[w] EXCEPT !.status = box[v].state, !.addr = box[v].addr] \in Record
      <4>1. box[v].state \in {"running", "stopped"} /\ box[v].addr \in Addrs \cup {NoAddr}
        BY <1>0, <3>2 DEF Host
      <4> QED BY <1>0, <4>1 DEF Record
    <3>3. Copies'
      BY <2>7, <3>1, <3>2, CopyType DEF Sync, Synced
    <3> QED BY <1>0, <2>7, <3>3 DEF Sync, Files, Host, Disk
  <2>8. CASE Unfire(w)
    BY <1>0, <2>8 DEF Unfire, Files, Host, Copies, Disk
  <2>9. CASE Fire(w)
    <3>1. PICK done \in Applied(inst[w]) : ApplyFirewall(inst[w], done)
      BY <2>9 DEF Fire
    <3>2. done \in SUBSET Rules
      BY <1>0, <3>1 DEF Applied, Record
    <3> QED BY <1>0, <2>9, <3>1, <3>2, DnatType DEF Fire, ApplyFirewall, Files, Host, Copies, Disk
  <2>10. CASE Refire(w)
    <3>1. PICK fw \in SUBSET Rules :
            LET i == [inst[w] EXCEPT !.fw = fw] IN
            Copy(w, i) /\ \E done \in Applied(i) : ApplyFirewall(i, done)
      BY <2>10 DEF Refire
    <3> DEFINE i == [inst[w] EXCEPT !.fw = fw]
    <3>2. i \in Record /\ i.fw = fw
      BY <1>0 DEF Record
    <3>3. PICK done \in Applied(i) : ApplyFirewall(i, done)
      BY <3>1
    <3>4. done \in SUBSET Rules
      BY <3>2, <3>3 DEF Applied
    <3>5. dnat' \subseteq IPs \X Rules \X Addrs
      BY <1>0, <3>2, <3>3, <3>4, DnatType DEF ApplyFirewall, Host
    <3>6. Copies'
      BY <1>0, <3>1, <3>2 DEF Copy, Copies
    <3> QED BY <1>0, <2>10, <3>5, <3>6 DEF Refire, Files, Host, Disk
  <2>11. CASE Put(w)
    <3>1. PICK ok, done \in BOOLEAN :
            /\ Access(w, "vms", ok, done)
            /\ record' = IF done THEN [record EXCEPT ![v] = inst[w]] ELSE record
      BY <2>11 DEF Put
    <3>2. Disk'
      BY <2>11, <3>1, AccessEffects DEF Put, Now, File
    <3> QED BY <1>0, <2>11, <3>1, <3>2 DEF Put, Files, Host, Copies
  <2>12. CASE Bill(w)
    <3>1. [inst[w] EXCEPT !.started = FALSE] \in Record
      BY <1>0 DEF Record
    <3>2. Copies'
      BY <1>0, <2>12, <3>1, CopyType DEF Bill, Copies
    <3>3. usage' \in [VMs -> {"none", "open", "closed"}] /\ Disk'
      <4>1. CASE inst[w].started /\ usage[v] = "open"
        <5>1. PICK ok, done \in BOOLEAN :
                /\ Access(w, "ledger", ok, done)
                /\ usage' = IF done THEN [usage EXCEPT ![v] = "closed"] ELSE usage
          BY <2>12, <4>1 DEF Bill
        <5>2. Disk'
          BY <2>12, <5>1, AccessEffects DEF Bill, Now, File
        <5> QED BY <1>0, <5>1, <5>2 DEF Files
      <4>2. CASE ~(inst[w].started /\ usage[v] = "open")
        BY <1>0, <2>12, <4>2 DEF Bill, Files, Disk
      <4> QED BY <4>1, <4>2
    <3> QED BY <1>0, <2>12, <3>2, <3>3 DEF Bill, Files, Host
  <2>13. CASE Meter(w)
    <3>1. PICK ok, done \in BOOLEAN :
            /\ Access(w, "ledger", ok, done)
            /\ usage' = IF done THEN [usage EXCEPT ![v] = "open"] ELSE usage
      BY <2>13 DEF Meter
    <3>2. Disk'
      BY <2>13, <3>1, AccessEffects DEF Meter, Now, File
    <3> QED BY <1>0, <2>13, <3>1, <3>2 DEF Meter, Files, Host, Copies
  <2>14. CASE Release(w)
    <3>1. PICK ok, done \in BOOLEAN :
            /\ Access(w, "pool", ok, done)
            /\ assigned' = IF done THEN [assigned EXCEPT ![v] = NoIP] ELSE assigned
      BY <2>14 DEF Release
    <3>2. Disk'
      BY <2>14, <3>1, AccessEffects DEF Release, Now, File
    <3> QED BY <1>0, <2>14, <3>1, <3>2 DEF Release, Files, Host, Copies
  <2>15. CASE Erase(w)
    <3>1. PICK ok, done \in BOOLEAN :
            /\ Access(w, "vms", ok, done)
            /\ record' = IF done THEN [record EXCEPT ![v] = NoRecord] ELSE record
            /\ deleted' = IF ok THEN deleted \cup {v} ELSE deleted
      BY <2>15 DEF Erase
    <3>2. Disk'
      BY <2>15, <3>1, AccessEffects DEF Erase, Now, File
    <3> QED BY <1>0, <2>15, <3>1, <3>2 DEF Erase, Files, Host, Copies
  <2>16. CASE Assign(w)
    <3>1. ASSUME NEW ip \in IPs, NEW ok \in BOOLEAN, NEW done \in BOOLEAN,
                 Access(w, "pool", ok, done),
                 assigned' = IF done THEN [assigned EXCEPT ![v] = ip] ELSE assigned,
                 Copy(w, [inst[w] EXCEPT !.ip = ip]) \/ UNCHANGED inst
          PROVE  Files' /\ Copies' /\ Disk'
      <4>1. [inst[w] EXCEPT !.ip = ip] \in Record
        BY <1>0 DEF Record
      <4>2. Copies'
        BY <1>0, <3>1, <4>1, CopyType DEF Copies
      <4>3. Disk'
        BY <2>16, <3>1, AccessEffects DEF Assign, Now, File
      <4> QED BY <1>0, <2>16, <3>1, <4>2, <4>3 DEF Assign, Files
    <3>2. UNCHANGED <<record, usage, deleted>> /\ Host'
      BY <1>0, <2>16 DEF Assign, Host
    <3>3. CASE UNCHANGED <<assigned, inst, disk>>
      <4>1. UNCHANGED <<torn, faults, failed, assigned, inst>>
        BY <3>3
      <4>2. Disk'
        BY <1>0, <4>1 DEF Disk
      <4>3. Files' /\ Copies'
        BY <1>0, <3>2, <4>1 DEF Files, Copies
      <4> QED BY <3>2, <4>2, <4>3
    <3> QED BY <2>16, <3>1, <3>2, <3>3 DEF Assign
  <2> QED
    BY <2>1, <2>2, <2>3, <2>4, <2>5, <2>6, <2>7, <2>8, <2>9, <2>10, <2>11, <2>12, <2>13, <2>14,
       <2>15, <2>16
    DEF Handle
<1>2. todo' \in [Workers -> Seq(Step)]
  BY HandleMoves, MovesType
<1> QED BY <1>1, <1>2, HandleMoves DEF TypeOK, Files, Host, Copies, Disk

LEMMA RequestType ==
  ASSUME TypeOK, NEW w \in Workers, NEW v \in VMs,
         BeginCreate(w, v) \/ \E o \in Op : ReadRecord(w, v, o)
  PROVE  TypeOK'
<1> USE DEF files, host, history, disk
<1>1. CASE BeginCreate(w, v)
  <2>1. PICK fw \in (SUBSET Rules \ {{}}) \cup {DefaultFirewall} :
          inst' = [inst EXCEPT ![w] = [NewRecord EXCEPT !.fw = fw]]
    BY <1>1 DEF BeginCreate
  <2>2. [NewRecord EXCEPT !.fw = fw] \in Record
    BY PlateAssumption DEF NewRecord, Record
  <2>3. inst' \in [Workers -> Record]
    BY <2>1, <2>2 DEF TypeOK
  <2>4. todo' \in [Workers -> Seq(Step)]
    <3>1. Steps("create") \in Seq(Step) /\ Steps("create") # <<>>
      BY StepsAreSteps DEF Op, Steps
    <3>2. Tail(Steps("create")) \in Seq(Step)
      BY <3>1
    <3> QED BY <1>1, <3>1, <3>2 DEF BeginCreate, TypeOK
  <2>5. requests' \in 0..MaxRequests
    <3>1. Request(w)
      BY <1>1 DEF BeginCreate
    <3> QED BY <3>1, PlateAssumption DEF Request, TypeOK
  <2>6. faults' \in 0..MaxFaults
    BY <1>1, PlateAssumption DEF BeginCreate, TypeOK
  <2> QED BY <1>1, <2>3, <2>4, <2>5, <2>6 DEF BeginCreate, TypeOK
<1>2. ASSUME NEW o \in Op, ReadRecord(w, v, o) PROVE TypeOK'
  <2>1. todo' \in [Workers -> Seq(Step)]
    BY <1>2, StepsAreSteps DEF ReadRecord, TypeOK
  <2>2. inst' \in [Workers -> Record]
    BY <1>2 DEF ReadRecord, TypeOK
  <2>3. requests' \in 0..MaxRequests
    BY <1>2, PlateAssumption DEF ReadRecord, Request, TypeOK
  <2> QED BY <1>2, <2>1, <2>2, <2>3 DEF ReadRecord, TypeOK
<1> QED BY <1>1, <1>2

LEMMA InitType == Init => TypeOK
<1> SUFFICES ASSUME Init PROVE TypeOK
  OBVIOUS
<1>1. NewRecord \in Record
  BY PlateAssumption DEF NewRecord, Record
<1> QED BY <1>1, PlateAssumption DEF Init, TypeOK, NoBox

LEMMA NextCases ==
  ASSUME Next
  PROVE  \/ \E w \in Workers, v \in VMs : BeginCreate(w, v)
         \/ \E w \in Workers, v \in VMs, o \in Op \ {"create", "undo"} : ReadRecord(w, v, o)
         \/ \E w \in Workers : Handle(w)
         \/ \E v \in VMs : BoxStops(v)
         \/ Crash
BY DEF Next, Handle

LEMMA NextType == TypeOK /\ [Next]_vars => TypeOK'
<1> SUFFICES ASSUME TypeOK, [Next]_vars PROVE TypeOK'
  OBVIOUS
<1> USE DEF files, host, bounds, history, disk
<1>1. CASE \E w \in Workers, v \in VMs : BeginCreate(w, v)
  BY <1>1, RequestType
<1>2. CASE \E w \in Workers, v \in VMs, o \in Op : ReadRecord(w, v, o)
  BY <1>2, RequestType
<1>3. CASE \E w \in Workers : Handle(w)
  BY <1>3, HandleType
<1>4. CASE \E v \in VMs : BoxStops(v)
  BY <1>4, BoxType DEF BoxStops, TypeOK
<1>5. CASE Crash
  <2>1. torn' \subseteq File
    BY <1>5 DEF Crash, Writing, TypeOK
  <2>2. todo' \in [Workers -> Seq(Step)]
    BY <1>5 DEF Crash
  <2> QED BY <1>5, <2>1, <2>2, PlateAssumption DEF Crash, TypeOK
<1>6. CASE UNCHANGED vars
  BY <1>6 DEF vars, TypeOK
<1> QED BY <1>1, <1>2, <1>3, <1>4, <1>5, <1>6, NextCases

\* Every state of the control plane is of its type.
THEOREM TypeCorrect == Spec => []TypeOK
BY InitType, NextType, PTL DEF Spec

----------------------------------------------------------------------------
(* Addresses. *)

\* Assign hands out an address that no VM holds; every other step leaves the
\* pool alone or takes an address out of use.
LEMMA AssignedMoves ==
  ASSUME TypeOK, [Next]_vars
  PROVE  \/ UNCHANGED assigned
         \/ \E v \in VMs : assigned' = [assigned EXCEPT ![v] = NoIP]
         \/ \E v \in VMs, ip \in IPs : ~Used(ip) /\ assigned' = [assigned EXCEPT ![v] = ip]
<1> USE DEF files, host, bounds, history
<1>0. \A w \in Workers : vm[w] \in VMs
  BY DEF TypeOK
<1>1. CASE \E w \in Workers, v \in VMs : BeginCreate(w, v)
  BY <1>1 DEF BeginCreate
<1>2. CASE \E w \in Workers, v \in VMs, o \in Op : ReadRecord(w, v, o)
  BY <1>2 DEF ReadRecord
<1>3. ASSUME NEW w \in Workers, Handle(w)
      PROVE  \/ UNCHANGED assigned
             \/ assigned' = [assigned EXCEPT ![vm[w]] = NoIP]
             \/ \E ip \in IPs : ~Used(ip) /\ assigned' = [assigned EXCEPT ![vm[w]] = ip]
  <2>1. CASE Release(w)
    BY <2>1 DEF Release
  <2>2. CASE Assign(w)
    BY <2>2 DEF Assign, Free
  <2>3. CASE ~Release(w) /\ ~Assign(w)
    BY <1>3, <2>3 DEF Handle, Make, Start, Stop, Destroy, Commit, Restore, Sync, Unfire, Fire,
                      Refire, Put, Bill, Meter, Erase
  <2> QED BY <2>1, <2>2, <2>3
<1>4. CASE \E v \in VMs : BoxStops(v)
  BY <1>4 DEF BoxStops
<1>5. CASE Crash
  BY <1>5 DEF Crash
<1>6. CASE UNCHANGED vars
  BY <1>6 DEF vars
<1>7. CASE \E w \in Workers : Handle(w)
  BY <1>0, <1>3, <1>7
<1> QED BY <1>1, <1>2, <1>4, <1>5, <1>6, <1>7, NextCases

\* However many requests run in parallel, however often the server dies between
\* two steps and whichever accesses to its files fail, no address is assigned to two VMs.
THEOREM AddressesAreExclusive == Spec => []AddressesExclusive
<1>1. Init => AddressesExclusive
  BY DEF Init, AddressesExclusive
<1>2. TypeOK /\ AddressesExclusive /\ [Next]_vars => AddressesExclusive'
  <2> SUFFICES ASSUME TypeOK, AddressesExclusive, [Next]_vars PROVE AddressesExclusive'
    OBVIOUS
  <2>1. CASE UNCHANGED assigned
    BY <2>1 DEF AddressesExclusive
  <2>2. CASE \E v \in VMs : assigned' = [assigned EXCEPT ![v] = NoIP]
    BY <2>2 DEF AddressesExclusive, TypeOK
  <2>3. ASSUME NEW v \in VMs, NEW ip \in IPs, ~Used(ip), assigned' = [assigned EXCEPT ![v] = ip]
        PROVE  AddressesExclusive'
    BY <2>3 DEF Used, AddressesExclusive, TypeOK
  <2> QED BY <2>1, <2>2, <2>3, AssignedMoves
<1> QED BY <1>1, <1>2, TypeCorrect, PTL DEF Spec

\* What a creation has left before its record is written, once it has asked for
\* an address.
CreatePlans == {<<"make", "sync", "fire", "put", "meter">>, <<"sync", "fire", "put", "meter">>,
                <<"fire", "put", "meter">>, <<"put", "meter">>, <<"release", "put">>}

\* Only VMs whose id was handed out are on record, hold an address or are
\* worked on.
IssuedInv ==
  /\ \A v \in VMs : record[v] # NoRecord \/ assigned[v] # NoIP => v \in issued
  /\ \A w \in Workers : todo[w] # <<>> => vm[w] \in issued

\* Assign is the first step of a creation, which alone knows its VM.
FreshInv ==
  \A w \in Workers : \A k \in 1..Len(todo[w]) : todo[w][k] = "assign" =>
    /\ k = 1 /\ todo[w] = Steps("create")
    /\ record[vm[w]] = NoRecord
    /\ \A u \in Workers : todo[u] # <<>> /\ vm[u] = vm[w] => u = w

\* A request that is about to erase a record has released the address, or has
\* tried to.
EraseInv ==
  \A w \in Workers : \A k \in 1..Len(todo[w]) : todo[w][k] = "erase" =>
    IF k = 1 THEN assigned[vm[w]] = NoIP \/ <<"release", vm[w]>> \in failed
             ELSE todo[w][k - 1] = "release"

\* An access that could have recorded or released the address of a VM has failed.
Lost(v) == \E step \in {"assign", "put", "release"} : <<step, v>> \in failed

\* Before a crash, an address without a record belongs to a creation that will
\* write one or release it, unless an access has failed.
HolderInv ==
  crashes = 0 => \A v \in VMs : assigned[v] # NoIP /\ record[v] = NoRecord =>
    Lost(v) \/ \E w \in Workers : vm[w] = v /\ todo[w] \in CreatePlans

LeakInv == TypeOK /\ IssuedInv /\ FreshInv /\ EraseInv /\ HolderInv

LEMMA PlansGoOn ==
  ASSUME NEW p \in CreatePlans
  PROVE  p # <<>>
<1>1. Len(p) > 0
  BY DEF CreatePlans
<1>2. Len(<<>>) = 0
  OBVIOUS
<1> QED BY <1>1, <1>2

LEMMA LeakInvIsStronger == LeakInv => AssignedIsKnown
BY PlansGoOn DEF LeakInv, IssuedInv, HolderInv, Lost, AssignedIsKnown, Creating, Busy

LEMMA LeakInit == Init => LeakInv
BY InitType DEF LeakInv, Init, IssuedInv, FreshInv, EraseInv, HolderInv

\* What a step of a request does to the record and the address of its VM.
Records(w) ==
  /\ \/ UNCHANGED record
     \/ Head(todo[w]) = "put" /\ record' = [record EXCEPT ![vm[w]] = inst[w]]
     \/ Head(todo[w]) = "erase" /\ record' = [record EXCEPT ![vm[w]] = NoRecord]
  /\ Head(todo[w]) = "put" => Return(w) \/ record' = [record EXCEPT ![vm[w]] = inst[w]]
Assigns(w) ==
  \/ UNCHANGED assigned
  \/ Head(todo[w]) = "release" /\ assigned' = [assigned EXCEPT ![vm[w]] = NoIP]
  \/ /\ Head(todo[w]) = "assign"
     /\ \E ip \in IPs : assigned' = [assigned EXCEPT ![vm[w]] = ip]

\* What it has done unless an access to a file has failed.
Succeeds(w) ==
  /\ Head(todo[w]) = "put" => record' = [record EXCEPT ![vm[w]] = inst[w]] /\ Continue(w)
  /\ Head(todo[w]) = "erase" => record' = [record EXCEPT ![vm[w]] = NoRecord] /\ Continue(w)
  /\ Head(todo[w]) = "release" => assigned' = [assigned EXCEPT ![vm[w]] = NoIP]
  /\ Head(todo[w]) = "assign" => Continue(w) \/ (Return(w) /\ UNCHANGED assigned)

LEMMA HandleEffects ==
  ASSUME TypeOK, NEW w \in Workers, Handle(w)
  PROVE  /\ Records(w) /\ Assigns(w)
         /\ failed \subseteq failed'
         /\ Succeeds(w) \/ <<Head(todo[w]), vm[w]>> \in failed'
<1> USE DEF files, host, disk, Now
<1>1. CASE Release(w)
  <2>1. PICK ok, done \in BOOLEAN :
          /\ Access(w, "pool", ok, done)
          /\ assigned' = IF done THEN [assigned EXCEPT ![vm[w]] = NoIP] ELSE assigned
    BY <1>1 DEF Release
  <2>2. failed \subseteq failed' /\ (ok => done) /\ (~ok => <<Head(todo[w]), vm[w]>> \in failed')
    BY <1>1, <2>1, AccessEffects DEF Release, File
  <2> QED BY <1>1, <2>1, <2>2 DEF Release, Records, Assigns, Succeeds
<1>2. CASE Put(w)
  <2>1. PICK ok, done \in BOOLEAN :
          /\ Access(w, "vms", ok, done)
          /\ record' = IF done THEN [record EXCEPT ![vm[w]] = inst[w]] ELSE record
          /\ IF ok THEN Continue(w) ELSE Return(w)
    BY <1>2 DEF Put
  <2>2. failed \subseteq failed' /\ (ok => done) /\ (~ok => <<Head(todo[w]), vm[w]>> \in failed')
    BY <1>2, <2>1, AccessEffects DEF Put, File
  <2> QED BY <1>2, <2>1, <2>2 DEF Put, Records, Assigns, Succeeds
<1>3. CASE Erase(w)
  <2>1. PICK ok, done \in BOOLEAN :
          /\ Access(w, "vms", ok, done)
          /\ record' = IF done THEN [record EXCEPT ![vm[w]] = NoRecord] ELSE record
          /\ IF ok THEN Continue(w) ELSE Return(w)
    BY <1>3 DEF Erase
  <2>2. failed \subseteq failed' /\ (ok => done) /\ (~ok => <<Head(todo[w]), vm[w]>> \in failed')
    BY <1>3, <2>1, AccessEffects DEF Erase, File
  <2> QED BY <1>3, <2>1, <2>2 DEF Erase, Records, Assigns, Succeeds
<1>4. CASE Assign(w)
  <2>1. ASSUME NEW ip \in IPs, NEW ok \in BOOLEAN, NEW done \in BOOLEAN,
               Access(w, "pool", ok, done),
               assigned' = IF done THEN [assigned EXCEPT ![vm[w]] = ip] ELSE assigned,
               ok => Continue(w)
        PROVE  /\ Assigns(w) /\ failed \subseteq failed'
               /\ Succeeds(w) \/ <<Head(todo[w]), vm[w]>> \in failed'
    <3>1. failed \subseteq failed' /\ (~ok => <<Head(todo[w]), vm[w]>> \in failed')
      BY <1>4, <2>1, AccessEffects DEF Assign, File
    <3> QED BY <1>4, <2>1, <3>1 DEF Assign, Assigns, Succeeds
  <2>2. CASE Return(w) /\ UNCHANGED <<assigned, inst, disk>>
    BY <1>4, <2>2 DEF Assign, Records, Assigns, Succeeds
  <2>3. Records(w)
    BY <1>4 DEF Assign, Records
  <2> QED BY <1>4, <2>1, <2>2, <2>3 DEF Assign
<1>5. CASE Bill(w)
  <2>1. CASE inst[w].started /\ usage[vm[w]] = "open"
    <3>1. PICK ok, done \in BOOLEAN : Access(w, "ledger", ok, done)
      BY <1>5, <2>1 DEF Bill
    <3>2. failed \subseteq failed'
      BY <1>5, <3>1, AccessEffects DEF Bill, File
    <3> QED BY <1>5, <3>2 DEF Bill, Records, Assigns, Succeeds
  <2> QED BY <1>5, <2>1 DEF Bill, Records, Assigns, Succeeds
<1>6. CASE Meter(w)
  <2>1. PICK ok, done \in BOOLEAN : Access(w, "ledger", ok, done)
    BY <1>6 DEF Meter
  <2>2. failed \subseteq failed'
    BY <1>6, <2>1, AccessEffects DEF Meter, File
  <2> QED BY <1>6, <2>2 DEF Meter, Records, Assigns, Succeeds
<1>7. CASE Sync(w) \/ Unfire(w) \/ Fire(w) \/ Refire(w)
  BY <1>7 DEF Sync, Unfire, Fire, Refire, Records, Assigns, Succeeds
<1>8. CASE Make(w) \/ Start(w) \/ Stop(w) \/ Destroy(w) \/ Commit(w) \/ Restore(w)
  BY <1>8 DEF Make, Start, Stop, Destroy, Commit, Restore, Records, Assigns, Succeeds
<1> QED BY <1>1, <1>2, <1>3, <1>4, <1>5, <1>6, <1>7, <1>8 DEF Handle

\* The same, VM by VM.
LEMMA EffectsAt ==
  ASSUME TypeOK, NEW w \in Workers, Handle(w), NEW u \in VMs
  PROVE  /\ u # vm[w] => record'[u] = record[u] /\ assigned'[u] = assigned[u]
         /\ \/ record'[u] = record[u]
            \/ Head(todo[w]) = "put" /\ record'[u] = inst[w]
            \/ Head(todo[w]) = "erase" /\ record'[u] = NoRecord
         /\ Head(todo[w]) = "put" => Return(w) \/ record'[vm[w]] = inst[w]
         /\ \/ assigned'[u] = assigned[u]
            \/ Head(todo[w]) = "release" /\ assigned'[u] = NoIP
            \/ Head(todo[w]) = "assign"
         /\ \/ <<Head(todo[w]), vm[w]>> \in failed'
            \/ /\ Head(todo[w]) = "put" => record'[vm[w]] = inst[w] /\ Continue(w)
               /\ Head(todo[w]) = "erase" => record'[vm[w]] = NoRecord /\ Continue(w)
               /\ Head(todo[w]) = "release" => assigned'[vm[w]] = NoIP
<1>1. vm[w] \in VMs /\ DOMAIN record = VMs /\ DOMAIN assigned = VMs
  BY DEF TypeOK
<1>2. Records(w) /\ Assigns(w) /\ (Succeeds(w) \/ <<Head(todo[w]), vm[w]>> \in failed')
  BY HandleEffects
<1>3. \A x : [record EXCEPT ![vm[w]] = x][vm[w]] = x /\ [assigned EXCEPT ![vm[w]] = x][vm[w]] = x
  BY <1>1
<1>4. u # vm[w] => \A x : [record EXCEPT ![vm[w]] = x][u] = record[u] /\ [assigned EXCEPT ![vm[w]] = x][u] = assigned[u]
  BY <1>1
<1>5. /\ u # vm[w] => record'[u] = record[u]
      /\ \/ record'[u] = record[u]
         \/ Head(todo[w]) = "put" /\ record'[u] = inst[w]
         \/ Head(todo[w]) = "erase" /\ record'[u] = NoRecord
      /\ Head(todo[w]) = "put" => Return(w) \/ record'[vm[w]] = inst[w]
  BY <1>2, <1>3, <1>4 DEF Records
<1>6. /\ u # vm[w] => assigned'[u] = assigned[u]
      /\ \/ assigned'[u] = assigned[u]
         \/ Head(todo[w]) = "release" /\ assigned'[u] = NoIP
         \/ Head(todo[w]) = "assign"
  BY <1>2, <1>3, <1>4 DEF Assigns
<1>7. \/ <<Head(todo[w]), vm[w]>> \in failed'
      \/ /\ Head(todo[w]) = "put" => record'[vm[w]] = inst[w] /\ Continue(w)
         /\ Head(todo[w]) = "erase" => record'[vm[w]] = NoRecord /\ Continue(w)
         /\ Head(todo[w]) = "release" => assigned'[vm[w]] = NoIP
  BY <1>2, <1>3 DEF Succeeds
<1> QED BY <1>5, <1>6, <1>7

\* After a step of a request, its remaining steps satisfy EraseInv and FreshInv.
LEMMA HandleErase ==
  ASSUME LeakInv, NEW w \in Workers, Handle(w)
  PROVE  EraseInv' /\ FreshInv'
<1>0. /\ TypeOK /\ todo[w] \in Seq(Step) /\ todo[w] # <<>> /\ vm' = vm /\ Moves(w)
      /\ failed \subseteq failed' /\ vm[w] \in VMs
  BY HandleMoves, HandleEffects DEF LeakInv, TypeOK
<1>1. \A u \in Workers \ {w} : todo'[u] = todo[u]
  BY <1>0 DEF Moves, Continue, Return, TypeOK
<1>2. \A v \in VMs : assigned[v] = NoIP => assigned'[v] = NoIP \/ (v = vm[w] /\ Head(todo[w]) = "assign")
  BY <1>0, EffectsAt
<1>3. ASSUME NEW u \in Workers, u # w, NEW k \in 1..Len(todo'[u]), todo'[u][k] = "erase"
      PROVE  IF k = 1 THEN assigned'[vm[u]] = NoIP \/ <<"release", vm[u]>> \in failed'
                      ELSE todo'[u][k - 1] = "release"
  <2>1. todo[u] # <<>> /\ vm[u] \in VMs /\ todo[u] \in Seq(Step)
    BY <1>0, <1>1, <1>3 DEF TypeOK
  <2>2. ~(vm[u] = vm[w] /\ Head(todo[w]) = "assign")
    BY <1>0, <1>3, <2>1 DEF LeakInv, FreshInv
  <2> QED BY <1>0, <1>1, <1>2, <1>3, <2>1, <2>2 DEF LeakInv, EraseInv
<1>4. ASSUME NEW k \in 1..Len(todo'[w]), todo'[w][k] \in {"erase", "assign"}
      PROVE  /\ todo'[w][k] = "erase"
             /\ IF k = 1 THEN assigned'[vm[w]] = NoIP \/ <<"release", vm[w]>> \in failed'
                         ELSE todo'[w][k - 1] = "release"
  <2>1. CASE Continue(w)
    <3>1. todo'[w] = Tail(todo[w])
      BY <1>0, <2>1 DEF Continue, TypeOK
    <3>2. /\ k + 1 \in 1..Len(todo[w]) /\ todo[w][k + 1] = todo'[w][k] /\ todo[w][1] = Head(todo[w])
          /\ k # 1 => todo'[w][k - 1] = todo[w][k]
      BY <1>0, <1>4, <3>1
    <3>3. todo'[w][k] = "erase" /\ todo[w][k] = "release"
      <4>1. PICK m \in 1..Len(todo[w]) : m = k + 1 /\ m # 1 /\ m - 1 = k
        BY <3>2
      <4>2. todo[w][m] # "assign"
        BY <4>1 DEF LeakInv, FreshInv
      <4>3. todo[w][m] = "erase"
        BY <1>4, <3>2, <4>1, <4>2
      <4>4. todo[w][m - 1] = "release"
        BY <4>1, <4>3 DEF LeakInv, EraseInv
      <4> QED BY <3>2, <4>1, <4>3, <4>4
    <3>4. k = 1 => assigned'[vm[w]] = NoIP \/ <<"release", vm[w]>> \in failed'
      BY <1>0, <3>2, <3>3, EffectsAt
    <3> QED BY <3>2, <3>3, <3>4
  <2>2. CASE Return(w)
    BY <1>0, <1>4, <2>2 DEF Return, TypeOK
  <2>3. CASE todo' = [todo EXCEPT ![w] = Steps("undo")]
    <3>1. todo'[w] = <<"release", "put">>
      BY <2>3 DEF TypeOK, LeakInv, Steps
    <3> QED BY <1>4, <3>1
  <2> QED BY <1>0, <2>1, <2>2, <2>3 DEF Moves
<1>5. ASSUME NEW u \in Workers, NEW k \in 1..Len(todo'[u]), todo'[u][k] = "assign"
      PROVE  /\ k = 1 /\ todo'[u] = Steps("create") /\ record'[vm[u]] = NoRecord
             /\ \A x \in Workers : todo'[x] # <<>> /\ vm[x] = vm[u] => x = u
  <2>1. u # w /\ todo'[u] = todo[u]
    BY <1>1, <1>4, <1>5
  <2>2. /\ k = 1 /\ todo[u] = Steps("create") /\ record[vm[u]] = NoRecord
        /\ \A x \in Workers : todo[x] # <<>> /\ vm[x] = vm[u] => x = u
    BY <1>5, <2>1 DEF LeakInv, FreshInv
  <2>3. todo[u] # <<>> /\ vm[u] # vm[w] /\ vm[u] \in VMs
    BY <1>0, <1>5, <2>1, <2>2 DEF TypeOK
  <2>4. record'[vm[u]] = NoRecord
    BY <1>0, <2>2, <2>3, EffectsAt
  <2> QED BY <1>0, <1>1, <2>1, <2>2, <2>3, <2>4
<1> QED BY <1>0, <1>3, <1>4, <1>5 DEF EraseInv, FreshInv

\* How a creation goes on.
LEMMA PlansLead ==
  ASSUME NEW p \in CreatePlans, Head(p) \notin {"put", "release"}
  PROVE  Head(p) \notin Aborts /\ Tail(p) \in CreatePlans
<1>1. CASE p = <<"make", "sync", "fire", "put", "meter">>
  BY <1>1 DEF CreatePlans, Aborts
<1>2. CASE p = <<"sync", "fire", "put", "meter">>
  BY <1>2 DEF CreatePlans, Aborts
<1>3. CASE p = <<"fire", "put", "meter">>
  BY <1>3 DEF CreatePlans, Aborts
<1> QED BY <1>1, <1>2, <1>3 DEF CreatePlans

\* A creation writes its record or releases its address before it ends.
LEMMA HandleHolder ==
  ASSUME LeakInv, NEW w \in Workers, Handle(w)
  PROVE  HolderInv'
<1>0. /\ TypeOK /\ todo[w] \in Seq(Step) /\ todo[w] # <<>> /\ vm' = vm /\ Moves(w)
      /\ inst[w] # NoRecord /\ vm[w] \in VMs /\ crashes' = crashes
      /\ failed \subseteq failed' /\ Records(w) /\ Assigns(w)
      /\ Succeeds(w) \/ <<Head(todo[w]), vm[w]>> \in failed'
  BY HandleMoves, HandleEffects, PlateAssumption DEF LeakInv, TypeOK
<1> SUFFICES ASSUME crashes = 0, NEW v \in VMs, assigned'[v] # NoIP, record'[v] = NoRecord, ~Lost(v)'
             PROVE  \E u \in Workers : vm[u] = v /\ todo'[u] \in CreatePlans
  BY <1>0 DEF HolderInv
<1>1. /\ \A step \in {"assign", "put", "release"} : <<step, v>> \notin failed'
      /\ \A step \in {"assign", "put", "release"} : <<step, v>> \notin failed
  BY <1>0 DEF Lost
<1>2. CASE vm[w] = v /\ Head(todo[w]) = "assign"
  <2>1. CASE Continue(w)
    <3>1. todo[w] = Steps("create")
      BY <1>0, <1>2 DEF LeakInv, FreshInv
    <3>2. Tail(Steps("create")) = <<"make", "sync", "fire", "put", "meter">>
      BY DEF Steps
    <3> QED BY <1>0, <1>2, <2>1, <3>1, <3>2 DEF Continue, CreatePlans, TypeOK
  <2>2. CASE Return(w) /\ UNCHANGED assigned
    <3>1. record[v] = NoRecord
      BY <1>0, <1>2 DEF LeakInv, FreshInv
    <3>2. PICK u \in Workers : vm[u] = v /\ todo[u] \in CreatePlans
      BY <1>1, <2>2, <3>1 DEF LeakInv, HolderInv, Lost
    <3>3. u = w /\ todo[w] = Steps("create")
      BY <1>0, <1>2, <3>2, PlansGoOn DEF LeakInv, FreshInv
    <3> QED BY <3>2, <3>3 DEF Steps, CreatePlans
  <2> QED BY <1>0, <1>1, <1>2, <2>1, <2>2 DEF Succeeds
<1>3. CASE ~(vm[w] = v /\ Head(todo[w]) = "assign")
  <2>1. assigned[v] # NoIP
    BY <1>0, <1>3, EffectsAt
  <2>2. ~(Head(todo[w]) = "erase" /\ vm[w] = v)
    <3>1. 1 \in 1..Len(todo[w]) /\ Head(todo[w]) = todo[w][1]
      BY <1>0
    <3> QED BY <1>1, <2>1, <3>1 DEF LeakInv, EraseInv
  <2>3. record[v] = NoRecord
    BY <1>0, <2>2, EffectsAt
  <2>4. ~(vm[w] = v /\ Head(todo[w]) \in {"put", "release"})
    BY <1>0, <1>1, EffectsAt
  <2>5. PICK u \in Workers : vm[u] = v /\ todo[u] \in CreatePlans
    BY <1>1, <2>1, <2>3 DEF LeakInv, HolderInv, Lost
  <2>6. CASE u # w
    <3>1. todo'[u] = todo[u]
      BY <1>0, <2>6 DEF Moves, Continue, Return, TypeOK
    <3> QED BY <2>5, <3>1
  <2>7. CASE u = w
    <3>1. Head(todo[w]) \notin Aborts /\ Tail(todo[w]) \in CreatePlans
      BY <2>4, <2>5, <2>7, PlansLead
    <3>2. Steps("undo") \in CreatePlans
      BY DEF Steps, CreatePlans
    <3> QED BY <1>0, <2>5, <2>7, <3>1, <3>2 DEF Moves, Continue, TypeOK
  <2> QED BY <2>6, <2>7
<1> QED BY <1>2, <1>3

LEMMA HandleIssued ==
  ASSUME LeakInv, NEW w \in Workers, Handle(w)
  PROVE  IssuedInv'
<1>0. TypeOK /\ IssuedInv /\ todo[w] # <<>> /\ vm' = vm /\ issued' = issued /\ Moves(w) /\ vm[w] \in issued
  BY HandleMoves DEF LeakInv, IssuedInv
<1>1. \A u \in Workers : todo'[u] # <<>> => vm[u] \in issued
  BY <1>0 DEF Moves, Continue, Return, IssuedInv, TypeOK
<1>2. \A v \in VMs : record'[v] # NoRecord \/ assigned'[v] # NoIP => v \in issued
  <2> SUFFICES ASSUME NEW v \in VMs, record'[v] # NoRecord \/ assigned'[v] # NoIP PROVE v \in issued
    OBVIOUS
  <2> QED BY <1>0, EffectsAt DEF IssuedInv
<1> QED BY <1>0, <1>1, <1>2 DEF IssuedInv

\* What a request may start with: a creation may have to do without an address.
Plans(o) == {Steps(o)} \cup (IF o = "create" THEN {Tail(Steps(o))} ELSE {})

\* The steps of an operation: Assign is the first of a creation only, and
\* wherever a record is erased the address has just been released.
LEMMA PlanForm ==
  ASSUME NEW o \in Op, NEW p \in Plans(o), NEW k \in 1..Len(p)
  PROVE  /\ p[k] = "erase" => k > 1 /\ p[k - 1] = "release"
         /\ p[k] = "assign" => k = 1 /\ p = Steps("create") /\ o = "create"
<1>1. CASE p = Steps(o) /\ o # "create"
  BY <1>1 DEF Op, Steps, Plans
<1>2. CASE p = Steps(o) /\ o = "create"
  BY <1>2 DEF Steps
<1>3. CASE p = Tail(Steps(o)) /\ o = "create"
  <2>1. p = <<"make", "sync", "fire", "put", "meter">>
    BY <1>3 DEF Steps
  <2> QED BY <2>1
<1> QED BY <1>1, <1>2, <1>3 DEF Plans

\* A request starts with the steps of its operation: a creation on a VM nobody
\* knows, any other request on a VM that is on record.
LEMMA RequestInv ==
  ASSUME LeakInv, NEW w \in Workers, NEW v \in VMs,
         BeginCreate(w, v) \/ \E o \in Op \ {"create", "undo"} : ReadRecord(w, v, o)
  PROVE  LeakInv'
<1> USE DEF files, host, history, disk
<1>1. PICK o \in Op : \E p \in Plans(o) :
        /\ todo[w] = <<>> /\ todo' = [todo EXCEPT ![w] = p]
        /\ vm' = [vm EXCEPT ![w] = v]
        /\ UNCHANGED <<record, assigned, crashes, failed>>
        /\ IF o = "create" THEN v \notin issued /\ issued' = issued \cup {v}
                           ELSE record[v] # NoRecord /\ UNCHANGED issued
  <2>1. CASE BeginCreate(w, v)
    BY <2>1 DEF BeginCreate, Request, Op, Plans
  <2>2. ASSUME NEW o \in Op \ {"create", "undo"}, ReadRecord(w, v, o)
        PROVE  /\ todo[w] = <<>> /\ todo' = [todo EXCEPT ![w] = Steps(o)]
               /\ vm' = [vm EXCEPT ![w] = v]
               /\ UNCHANGED <<record, assigned, crashes, failed>>
               /\ record[v] # NoRecord /\ UNCHANGED issued
    BY <2>2 DEF ReadRecord, Request
  <2> QED BY <2>1, <2>2 DEF Plans, Op
<1>11. PICK p \in Plans(o) :
        /\ todo[w] = <<>> /\ todo' = [todo EXCEPT ![w] = p]
        /\ vm' = [vm EXCEPT ![w] = v]
        /\ UNCHANGED <<record, assigned, crashes, failed>>
        /\ IF o = "create" THEN v \notin issued /\ issued' = issued \cup {v}
                           ELSE record[v] # NoRecord /\ UNCHANGED issued
  BY <1>1
<1>2. TypeOK /\ TypeOK'
  BY RequestType DEF LeakInv
<1>3. \A u \in Workers \ {w} : todo'[u] = todo[u] /\ vm'[u] = vm[u]
  BY <1>11, <1>2 DEF TypeOK
<1>4. todo'[w] = p /\ vm'[w] = v
  BY <1>11, <1>2 DEF TypeOK
<1>5. IssuedInv'
  BY <1>11, <1>2, <1>3, <1>4 DEF LeakInv, IssuedInv, TypeOK
<1>6. EraseInv'
  <2>1. ASSUME NEW u \in Workers \ {w}, NEW k \in 1..Len(todo'[u]), todo'[u][k] = "erase"
        PROVE  IF k = 1 THEN assigned'[vm'[u]] = NoIP \/ <<"release", vm'[u]>> \in failed'
                        ELSE todo'[u][k - 1] = "release"
    BY <1>11, <1>3, <2>1 DEF LeakInv, EraseInv
  <2>2. \A k \in 1..Len(todo'[w]) : todo'[w][k] = "erase" => k > 1 /\ todo'[w][k - 1] = "release"
    BY <1>11, <1>4, PlanForm
  <2>3. ASSUME NEW u \in Workers, NEW k \in 1..Len(todo'[u]), todo'[u][k] = "erase"
        PROVE  IF k = 1 THEN assigned'[vm'[u]] = NoIP \/ <<"release", vm'[u]>> \in failed'
                        ELSE todo'[u][k - 1] = "release"
    <3>1. CASE u = w
      BY <2>2, <2>3, <3>1
    <3> QED BY <2>1, <2>3, <3>1
  <2> QED BY <2>3 DEF EraseInv
<1>7. FreshInv'
  <2>1. \A u \in Workers \ {w} : todo[u] # <<>> => vm[u] \in issued /\ (o = "create" => vm[u] # v)
    BY <1>11 DEF LeakInv, IssuedInv
  <2>2. ASSUME NEW u \in Workers \ {w}, NEW k \in 1..Len(todo'[u]), todo'[u][k] = "assign"
        PROVE  /\ k = 1 /\ todo'[u] = Steps("create") /\ record'[vm'[u]] = NoRecord
               /\ \A x \in Workers : todo'[x] # <<>> /\ vm'[x] = vm'[u] => x = u
    <3>1. /\ k = 1 /\ todo[u] = Steps("create") /\ record[vm[u]] = NoRecord
          /\ \A x \in Workers : todo[x] # <<>> /\ vm[x] = vm[u] => x = u
      BY <1>3, <2>2 DEF LeakInv, FreshInv
    <3>2. todo[u] # <<>>
      BY <1>2, <1>3, <2>2 DEF TypeOK
    <3>3. vm[u] # v
      BY <1>11, <2>1, <3>1, <3>2
    <3> QED BY <1>11, <1>3, <1>4, <3>1, <3>3
  <2>3. ASSUME NEW k \in 1..Len(todo'[w]), todo'[w][k] = "assign"
        PROVE  /\ k = 1 /\ todo'[w] = Steps("create") /\ record'[v] = NoRecord
               /\ \A x \in Workers : todo'[x] # <<>> /\ vm'[x] = v => x = w
    <3>1. k = 1 /\ p = Steps("create") /\ o = "create"
      BY <1>11, <1>4, <2>3, PlanForm
    <3>2. record[v] = NoRecord
      BY <1>11, <3>1 DEF LeakInv, IssuedInv
    <3> QED BY <1>11, <1>3, <1>4, <2>1, <3>1, <3>2
  <2> QED BY <1>4, <2>2, <2>3 DEF FreshInv
<1>8. HolderInv'
  <2>1. ASSUME crashes = 0, NEW u \in VMs, assigned[u] # NoIP, record[u] = NoRecord, ~Lost(u)
        PROVE  \E x \in Workers : vm'[x] = u /\ todo'[x] \in CreatePlans
    <3>1. PICK x \in Workers : vm[x] = u /\ todo[x] \in CreatePlans
      BY <2>1 DEF LeakInv, HolderInv
    <3>2. x # w
      BY <1>11, <3>1, PlansGoOn
    <3> QED BY <1>3, <3>1, <3>2
  <2> QED BY <1>11, <2>1 DEF HolderInv, Lost
<1> QED BY <1>2, <1>5, <1>6, <1>7, <1>8 DEF LeakInv

LEMMA LeakNext == LeakInv /\ [Next]_vars => LeakInv'
<1> SUFFICES ASSUME LeakInv, [Next]_vars PROVE LeakInv'
  OBVIOUS
<1> USE DEF files, host, bounds, history, disk
<1>1. CASE \E w \in Workers, v \in VMs : BeginCreate(w, v)
  BY <1>1, RequestInv
<1>2. CASE \E w \in Workers, v \in VMs, o \in Op \ {"create", "undo"} : ReadRecord(w, v, o)
  BY <1>2, RequestInv
<1>3. CASE \E w \in Workers : Handle(w)
  BY <1>3, HandleType, HandleIssued, HandleErase, HandleHolder DEF LeakInv
<1>4. CASE (\E v \in VMs : BoxStops(v)) \/ UNCHANGED vars
  <2>1. UNCHANGED <<record, assigned, todo, vm, issued, crashes, failed>>
    BY <1>4 DEF BoxStops, vars
  <2>2. IssuedInv' /\ FreshInv' /\ EraseInv' /\ HolderInv'
    BY <2>1 DEF LeakInv, IssuedInv, FreshInv, EraseInv, HolderInv, Lost
  <2> QED BY <2>2, NextType DEF LeakInv
<1>5. CASE Crash
  <2>1. crashes' # 0 /\ \A w \in Workers : todo'[w] = <<>> /\ Len(todo'[w]) = 0
    BY <1>5 DEF Crash, LeakInv, TypeOK
  <2>2. HolderInv' /\ EraseInv' /\ FreshInv'
    BY <2>1 DEF HolderInv, EraseInv, FreshInv
  <2>3. IssuedInv'
    BY <1>5, <2>1 DEF Crash, LeakInv, IssuedInv
  <2> QED BY <2>2, <2>3, NextType DEF LeakInv
<1> QED BY <1>1, <1>2, <1>3, <1>4, <1>5, NextCases

\* While the server does not die, an address whose holder is neither on record,
\* where deleting it would give the address back, nor being created is one for
\* which Assign, the Put that ends a creation, or Release has failed.
THEOREM AssignedAddressesAreKnown == Spec => []AssignedIsKnown
BY LeakInit, LeakNext, LeakInvIsStronger, PTL DEF Spec

----------------------------------------------------------------------------
(* One request at a time, and no crash.                                     *)
OneAtATime ==
  crashes = 0 /\ \A u, w \in Workers : todo[u] # <<>> /\ todo[w] # <<>> => u = w

\* The stages of the requests that change what is known of a VM.
Assigning == {<<"assign", "make", "sync", "fire", "put", "meter">>}
Making == {<<"make", "sync", "fire", "put", "meter">>}
Made == {<<"sync", "fire", "put", "meter">>, <<"fire", "put", "meter">>, <<"put", "meter">>}
Metering == {<<"meter">>}
Undoing == {<<"release", "put">>}
Ending == {<<"put">>}
Leaving == {<<"unfire", "destroy", "release", "erase">>, <<"destroy", "release", "erase">>}
Emptied == {<<"release", "erase">>}
Erasing == {<<"erase">>}
Ordinary == {<<"sync", "put">>, <<"start", "sync", "put">>, <<"stop", "bill", "put">>, <<"bill", "put">>,
             <<"bill", "unfire", "destroy", "release", "erase">>, <<"unfire", "refire", "put">>,
             <<"refire", "put">>, <<"commit", "put">>, <<"restore", "sync", "put">>}

\* What is known of a VM that no request works on: its container and its open
\* usage are on record, and it holds the address it shows, except where a file
\* could not be written.
AtRest(v) ==
  /\ box[v].state # "none" => record[v] # NoRecord \/ <<"put", v>> \in failed
  /\ usage[v] # "none" /\ record[v] # NoRecord =>
       record[v].ip = assigned[v] \/ <<"erase", v>> \in failed
  /\ usage[v] = "open" => (record[v] # NoRecord /\ record[v].started) \/ <<"bill", v>> \in failed
  /\ record[v] # NoRecord => v \notin deleted
  /\ v \notin issued => /\ record[v] = NoRecord /\ assigned[v] = NoIP
                        /\ usage[v] = "none" /\ v \notin deleted /\ box[v].state = "none"

\* A record that is not there yet, and one that is, with a copy i of it.
NotYet(v) == record[v] = NoRecord /\ usage[v] = "none"
Recorded(v, i) ==
  /\ record[v] # NoRecord /\ i.ip = record[v].ip
  /\ usage[v] # "none" => record[v].ip = assigned[v] \/ <<"erase", v>> \in failed
  /\ usage[v] = "open" => (record[v].started /\ i.started) \/ <<"bill", v>> \in failed

\* The usage record of a VM is not open, or closing it has failed.
Billed(v) == usage[v] = "open" => <<"bill", v>> \in failed

\* What is known of a VM that a request works on, at each stage.
AtWork(v, p, i) ==
  /\ v \in issued /\ v \notin deleted
  /\ \/ p \in Assigning /\ NotYet(v) /\ i.ip = assigned[v] /\ box[v].state = "none"
     \/ p \in Making /\ NotYet(v) /\ i.ip = assigned[v]
     \/ p \in Made /\ NotYet(v) /\ i.ip = assigned[v] /\ i.started
     \/ p \in Metering /\ record[v] # NoRecord /\ record[v].ip = assigned[v] /\ record[v].started
     \/ p \in Undoing /\ NotYet(v)
     \/ p \in Ending /\ (NotYet(v) \/ Recorded(v, i))
     \/ p \in Ordinary /\ Recorded(v, i)
     \/ p \in Leaving /\ Recorded(v, i) /\ Billed(v)
     \/ p \in Emptied /\ Recorded(v, i) /\ Billed(v) /\ box[v].state = "none"
     \/ p \in Erasing /\ record[v] # NoRecord /\ Billed(v) /\ box[v].state = "none"

SerialInv ==
  /\ OneAtATime
  /\ \A v \in VMs : (\A w \in Workers : ~Busy(w, v)) => AtRest(v)
  /\ \A w \in Workers : todo[w] # <<>> => AtWork(vm[w], todo[w], inst[w])

\* How a request goes on from each stage.
LEMMA StageGoesOn ==
  ASSUME NEW p
  PROVE  /\ p \in Assigning => Head(p) = "assign" /\ Tail(p) \in Making
         /\ p \in Making => Head(p) = "make" /\ Tail(p) \in Made
         /\ p \in Made => \/ Head(p) \in {"sync", "fire"} /\ Tail(p) \in Made
                          \/ Head(p) = "put" /\ Tail(p) \in Metering
         /\ p \in Metering => Head(p) = "meter" /\ Tail(p) = <<>>
         /\ p \in Undoing => Head(p) = "release" /\ Tail(p) \in Ending
         /\ p \in Ending => Head(p) = "put" /\ Tail(p) = <<>>
         /\ p \in Leaving => \/ Head(p) = "unfire" /\ Tail(p) \in Leaving
                             \/ Head(p) = "destroy" /\ Tail(p) \in Emptied
         /\ p \in Emptied => Head(p) = "release" /\ Tail(p) \in Erasing
         /\ p \in Erasing => Head(p) = "erase" /\ Tail(p) = <<>>
         /\ p \in Ordinary =>
              \/ Head(p) \in {"sync", "refire", "commit"} /\ Tail(p) \in Ending
              \/ Head(p) \in {"start", "stop", "unfire", "restore"} /\ Tail(p) \in Ordinary
              \/ Head(p) = "bill" /\ Tail(p) \in (IF p = <<"bill", "put">> THEN Ending ELSE Leaving)
<1>1. p \in Making => Head(p) = "make" /\ Tail(p) \in Made
  <2>1. /\ Head(<<"make", "sync", "fire", "put", "meter">>) = "make"
        /\ Tail(<<"make", "sync", "fire", "put", "meter">>) = <<"sync", "fire", "put", "meter">>
    OBVIOUS
  <2> QED BY <2>1 DEF Making, Made
<1>2. p \in Made => \/ Head(p) \in {"sync", "fire"} /\ Tail(p) \in Made
                    \/ Head(p) = "put" /\ Tail(p) \in Metering
  <2>1. /\ Head(<<"sync", "fire", "put", "meter">>) = "sync"
        /\ Tail(<<"sync", "fire", "put", "meter">>) = <<"fire", "put", "meter">>
    OBVIOUS
  <2>2. /\ Head(<<"fire", "put", "meter">>) = "fire"
        /\ Tail(<<"fire", "put", "meter">>) = <<"put", "meter">>
    OBVIOUS
  <2>3. Head(<<"put", "meter">>) = "put" /\ Tail(<<"put", "meter">>) = <<"meter">>
    OBVIOUS
  <2>4. CASE p = <<"sync", "fire", "put", "meter">>
    BY <2>1, <2>4 DEF Made
  <2>5. CASE p = <<"fire", "put", "meter">>
    BY <2>2, <2>5 DEF Made
  <2>6. CASE p = <<"put", "meter">>
    BY <2>3, <2>6 DEF Made, Metering
  <2> QED BY <2>4, <2>5, <2>6 DEF Made
<1>3. p \in Metering => Head(p) = "meter" /\ Tail(p) = <<>>
  <2>1. Head(<<"meter">>) = "meter" /\ Tail(<<"meter">>) = <<>>
    OBVIOUS
  <2> QED BY <2>1 DEF Metering
<1>4. p \in Undoing => Head(p) = "release" /\ Tail(p) \in Ending
  <2>1. Head(<<"release", "put">>) = "release" /\ Tail(<<"release", "put">>) = <<"put">>
    OBVIOUS
  <2> QED BY <2>1 DEF Undoing, Ending
<1>5. p \in Ending => Head(p) = "put" /\ Tail(p) = <<>>
  <2>1. Head(<<"put">>) = "put" /\ Tail(<<"put">>) = <<>>
    OBVIOUS
  <2> QED BY <2>1 DEF Ending
<1>6. p \in Leaving => \/ Head(p) = "unfire" /\ Tail(p) \in Leaving
                       \/ Head(p) = "destroy" /\ Tail(p) \in Emptied
  <2>1. /\ Head(<<"unfire", "destroy", "release", "erase">>) = "unfire"
        /\ Tail(<<"unfire", "destroy", "release", "erase">>) = <<"destroy", "release", "erase">>
    OBVIOUS
  <2>2. /\ Head(<<"destroy", "release", "erase">>) = "destroy"
        /\ Tail(<<"destroy", "release", "erase">>) = <<"release", "erase">>
    OBVIOUS
  <2>3. CASE p = <<"unfire", "destroy", "release", "erase">>
    BY <2>1, <2>3 DEF Leaving
  <2>4. CASE p = <<"destroy", "release", "erase">>
    BY <2>2, <2>4 DEF Leaving, Emptied
  <2> QED BY <2>3, <2>4 DEF Leaving
<1>7. p \in Emptied => Head(p) = "release" /\ Tail(p) \in Erasing
  <2>1. Head(<<"release", "erase">>) = "release" /\ Tail(<<"release", "erase">>) = <<"erase">>
    OBVIOUS
  <2> QED BY <2>1 DEF Emptied, Erasing
<1>8. p \in Erasing => Head(p) = "erase" /\ Tail(p) = <<>>
  <2>1. Head(<<"erase">>) = "erase" /\ Tail(<<"erase">>) = <<>>
    OBVIOUS
  <2> QED BY <2>1 DEF Erasing
<1>9. p \in Ordinary =>
        \/ Head(p) \in {"sync", "refire", "commit"} /\ Tail(p) \in Ending
        \/ Head(p) \in {"start", "stop", "unfire", "restore"} /\ Tail(p) \in Ordinary
        \/ Head(p) = "bill" /\ Tail(p) \in (IF p = <<"bill", "put">> THEN Ending ELSE Leaving)
  <2>1. Head(<<"sync", "put">>) = "sync" /\ Tail(<<"sync", "put">>) = <<"put">>
    OBVIOUS
  <2>2. /\ Head(<<"start", "sync", "put">>) = "start"
        /\ Tail(<<"start", "sync", "put">>) = <<"sync", "put">>
    OBVIOUS
  <2>3. /\ Head(<<"stop", "bill", "put">>) = "stop"
        /\ Tail(<<"stop", "bill", "put">>) = <<"bill", "put">>
    OBVIOUS
  <2>4. Head(<<"bill", "put">>) = "bill" /\ Tail(<<"bill", "put">>) = <<"put">>
    OBVIOUS
  <2>5. /\ Head(<<"bill", "unfire", "destroy", "release", "erase">>) = "bill"
        /\ Tail(<<"bill", "unfire", "destroy", "release", "erase">>) = <<"unfire", "destroy", "release", "erase">>
    OBVIOUS
  <2>6. /\ Head(<<"unfire", "refire", "put">>) = "unfire"
        /\ Tail(<<"unfire", "refire", "put">>) = <<"refire", "put">>
    OBVIOUS
  <2>7. Head(<<"refire", "put">>) = "refire" /\ Tail(<<"refire", "put">>) = <<"put">>
    OBVIOUS
  <2>8. Head(<<"commit", "put">>) = "commit" /\ Tail(<<"commit", "put">>) = <<"put">>
    OBVIOUS
  <2>9. /\ Head(<<"restore", "sync", "put">>) = "restore"
        /\ Tail(<<"restore", "sync", "put">>) = <<"sync", "put">>
    OBVIOUS
  <2> QED BY <2>1, <2>2, <2>3, <2>4, <2>5, <2>6, <2>7, <2>8, <2>9 DEF Ordinary, Ending, Leaving
<1>10. p \in Assigning => Head(p) = "assign" /\ Tail(p) \in Making
  <2>1. /\ Head(<<"assign", "make", "sync", "fire", "put", "meter">>) = "assign"
        /\ Tail(<<"assign", "make", "sync", "fire", "put", "meter">>)
             = <<"make", "sync", "fire", "put", "meter">>
    OBVIOUS
  <2> QED BY <2>1 DEF Assigning, Making
<1> QED BY <1>1, <1>2, <1>3, <1>4, <1>5, <1>6, <1>7, <1>8, <1>9, <1>10

\* A step of a request changes what is known of its own VM only.
LEMMA OnlyItsVM ==
  ASSUME TypeOK, NEW w \in Workers, Handle(w), NEW u \in VMs, u # vm[w]
  PROVE  /\ record'[u] = record[u] /\ assigned'[u] = assigned[u] /\ usage'[u] = usage[u]
         /\ box'[u] = box[u] /\ (u \in deleted' <=> u \in deleted) /\ failed \subseteq failed'
<1> USE DEF files, host
<1>1. record'[u] = record[u] /\ assigned'[u] = assigned[u] /\ failed \subseteq failed'
  BY EffectsAt, HandleEffects
<1>2. ASSUME NEW v \in VMs, v # u, Up(v) \/ Down(v) \/ Gone(v) \/ Started(v) \/ Stopped(v)
      PROVE  box'[u] = box[u]
  BY <1>2 DEF Up, Down, Gone, Started, Stopped, TypeOK
<1>3. vm[w] \in VMs
  BY DEF TypeOK
<1>4. CASE Make(w) \/ Start(w) \/ Stop(w)
  BY <1>1, <1>2, <1>3, <1>4 DEF Make, Start, Stop
<1>5. CASE Destroy(w) \/ Restore(w)
  BY <1>1, <1>2, <1>3, <1>5 DEF Destroy, Restore
<1>6. CASE Commit(w) \/ Sync(w) \/ Unfire(w) \/ Fire(w) \/ Refire(w)
  BY <1>1, <1>6 DEF Commit, Sync, Unfire, Fire, Refire
<1>7. CASE Put(w) \/ Release(w) \/ Assign(w)
  BY <1>1, <1>7 DEF Put, Release, Assign
<1>8. CASE Bill(w) \/ Meter(w)
  <2>1. usage' = usage \/ \E x : usage' = [usage EXCEPT ![vm[w]] = x]
    BY <1>8 DEF Bill, Meter
  <2>2. usage'[u] = usage[u]
    BY <2>1 DEF TypeOK
  <2> QED BY <1>1, <1>8, <2>2 DEF Bill, Meter
<1>9. CASE Erase(w)
  BY <1>1, <1>9 DEF Erase
<1> QED BY <1>4, <1>5, <1>6, <1>7, <1>8, <1>9 DEF Handle

\* What a step does to the request's copy of the record.
LEMMA CopyEffects ==
  ASSUME TypeOK, NEW w \in Workers, Handle(w)
  PROVE  /\ Head(todo[w]) # "assign" => inst'[w].ip = inst[w].ip
         /\ Head(todo[w]) = "assign" => \/ Return(w)
                                        \/ Continue(w) /\ inst'[w].ip = assigned'[vm[w]]
         /\ Head(todo[w]) \notin {"make", "start", "bill"} => inst'[w].started = inst[w].started
         /\ Head(todo[w]) = "make" => todo' = [todo EXCEPT ![w] = Steps("undo")]
                                      \/ (Continue(w) /\ inst'[w].started = TRUE)
         /\ Head(todo[w]) = "start" => inst'[w].started = TRUE \/ inst'[w].started = inst[w].started
         /\ Head(todo[w]) = "bill" => inst'[w].started = inst[w].started \/ todo[w] = <<"bill", "put">>
<1> USE DEF Now
<1>0. inst \in [Workers -> Record]
  BY DEF TypeOK
<1>1. ASSUME NEW i, Copy(w, i)
      PROVE  inst'[w] = i
  BY <1>0, <1>1 DEF Copy
<1>2. UNCHANGED inst => inst'[w] = inst[w]
  OBVIOUS
<1> DEFINE Live == [inst[w] EXCEPT !.status = "running", !.started = TRUE]
<1>3. inst[w] \in Record
  BY <1>0
<1>4. Live.ip = inst[w].ip /\ Live.started = TRUE
  BY <1>3 DEF Record
<1>5. CASE Make(w)
  <2>1. CASE inst'[w] = Live /\ Continue(w)
    BY <1>5, <1>4, <2>1 DEF Make
  <2>2. CASE inst'[w] = [inst[w] EXCEPT !.status = "error"] /\ todo' = [todo EXCEPT ![w] = Steps("undo")]
    BY <1>0, <1>5, <2>2 DEF Make, Record
  <2> QED BY <1>1, <1>5, <2>1, <2>2 DEF Make
<1>6. CASE Start(w)
  <2>1. CASE inst'[w] = Live
    BY <1>6, <1>4, <2>1 DEF Start
  <2> QED BY <1>1, <1>2, <1>6, <2>1 DEF Start
<1>7. CASE Stop(w)
  <2>1. CASE inst'[w] = [inst[w] EXCEPT !.status = "stopped"]
    BY <1>0, <1>7, <2>1 DEF Stop, Record
  <2> QED BY <1>1, <1>2, <1>7, <2>1 DEF Stop
<1>8. CASE Sync(w)
  <2>1. inst'[w] = [inst[w] EXCEPT !.status = "error"] \/ inst'[w] = Synced(inst[w], box[vm[w]])
    BY <1>1, <1>8 DEF Sync
  <2> QED BY <1>0, <1>8, <2>1 DEF Sync, Synced, Record
<1>9. CASE Refire(w)
  <2>1. PICK fw \in SUBSET Rules : Copy(w, [inst[w] EXCEPT !.fw = fw])
    BY <1>9 DEF Refire
  <2>2. inst'[w] = [inst[w] EXCEPT !.fw = fw]
    BY <1>1, <2>1
  <2> QED BY <1>0, <1>9, <2>2 DEF Refire, Record
<1>10. CASE Bill(w)
  <2>1. CASE inst'[w] = [inst[w] EXCEPT !.started = FALSE] /\ todo[w] = <<"bill", "put">>
    BY <1>0, <1>10, <2>1 DEF Bill, Record
  <2> QED BY <1>1, <1>2, <1>10, <2>1 DEF Bill
<1>11. CASE Destroy(w) \/ Commit(w) \/ Restore(w)
  BY <1>11 DEF Destroy, Commit, Restore
<1>12. CASE Unfire(w) \/ Fire(w) \/ Put(w)
  BY <1>12 DEF Unfire, Fire, Put
<1>13. CASE Meter(w) \/ Release(w) \/ Erase(w)
  BY <1>13 DEF Meter, Release, Erase
<1>14. CASE Assign(w)
  <2>1. ASSUME NEW ip \in IPs, NEW ok \in BOOLEAN, NEW done \in BOOLEAN,
               Access(w, "pool", ok, done),
               assigned' = IF done THEN [assigned EXCEPT ![vm[w]] = ip] ELSE assigned,
               IF ok THEN Copy(w, [inst[w] EXCEPT !.ip = ip]) /\ Continue(w)
                     ELSE UNCHANGED inst /\ Return(w)
        PROVE  /\ Return(w) \/ (Continue(w) /\ inst'[w].ip = assigned'[vm[w]])
               /\ inst'[w].started = inst[w].started
    <3>1. CASE ok
      <4>1. done
        BY <2>1, <3>1, AccessEffects, <1>14 DEF Assign, File
      <4>2. assigned'[vm[w]] = ip
        BY <2>1, <4>1 DEF TypeOK
      <4>3. inst'[w] = [inst[w] EXCEPT !.ip = ip]
        BY <1>1, <2>1, <3>1
      <4>4. inst'[w].ip = ip /\ inst'[w].started = inst[w].started
        BY <1>3, <4>3 DEF Record
      <4> QED BY <2>1, <3>1, <4>2, <4>4
    <3> QED BY <2>1, <3>1
  <2>2. CASE Return(w) /\ UNCHANGED inst
    BY <1>14, <2>2 DEF Assign
  <2> QED BY <1>14, <2>1, <2>2 DEF Assign
<1> QED BY <1>5, <1>6, <1>7, <1>8, <1>9, <1>10, <1>11, <1>12, <1>13, <1>14 DEF Handle

\* What a step does to the usage record, the container and the deletion of its VM.
LEMMA VMEffects ==
  ASSUME TypeOK, NEW w \in Workers, Handle(w)
  PROVE  /\ Head(todo[w]) = "bill" =>
              \/ usage[vm[w]] = "open" /\ usage'[vm[w]] = "closed"
              \/ /\ usage'[vm[w]] = usage[vm[w]]
                 /\ inst[w].started /\ usage[vm[w]] = "open" => <<"bill", vm[w]>> \in failed'
         /\ Head(todo[w]) \notin {"meter", "bill"} => usage'[vm[w]] = usage[vm[w]]
         /\ Head(todo[w]) = "destroy" => Return(w) \/ (Continue(w) /\ box'[vm[w]].state = "none")
         /\ Head(todo[w]) \in {"assign", "release", "erase"} => box' = box
         /\ vm[w] \in deleted' =>
              vm[w] \in deleted \/ (Head(todo[w]) = "erase" /\ record'[vm[w]] = NoRecord)
<1> USE DEF Now, files, host
<1>0. vm[w] \in VMs
  BY DEF TypeOK
<1>1. CASE Bill(w)
  <2>1. CASE inst[w].started /\ usage[vm[w]] = "open"
    <3>1. PICK ok, done \in BOOLEAN :
            /\ Access(w, "ledger", ok, done)
            /\ usage' = IF done THEN [usage EXCEPT ![vm[w]] = "closed"] ELSE usage
      BY <1>1, <2>1 DEF Bill
    <3>2. (ok => done) /\ (~ok => <<"bill", vm[w]>> \in failed')
      BY <1>1, <3>1, AccessEffects DEF Bill, File
    <3> QED BY <1>0, <1>1, <3>1, <3>2 DEF Bill, TypeOK
  <2> QED BY <1>1, <2>1 DEF Bill
<1>2. CASE Destroy(w)
  BY <1>0, <1>2 DEF Destroy, Gone, NoBox, TypeOK
<1>3. CASE Make(w) \/ Start(w) \/ Stop(w) \/ Commit(w) \/ Restore(w)
  BY <1>3 DEF Make, Start, Stop, Commit, Restore
<1>4. CASE Sync(w) \/ Unfire(w) \/ Fire(w) \/ Refire(w)
  BY <1>4 DEF Sync, Unfire, Fire, Refire
<1>5. CASE Put(w) \/ Release(w) \/ Meter(w) \/ Assign(w)
  BY <1>5 DEF Put, Release, Meter, Assign
<1>6. CASE Erase(w)
  <2>1. PICK ok, done \in BOOLEAN :
          /\ Access(w, "vms", ok, done)
          /\ record' = IF done THEN [record EXCEPT ![vm[w]] = NoRecord] ELSE record
          /\ deleted' = IF ok THEN deleted \cup {vm[w]} ELSE deleted
    BY <1>6 DEF Erase
  <2>2. ok => done
    BY <1>6, <2>1, AccessEffects DEF Erase, File
  <2> QED BY <1>0, <1>6, <2>1, <2>2 DEF Erase, TypeOK
<1> QED BY <1>1, <1>2, <1>3, <1>4, <1>5, <1>6 DEF Handle


Stages == Assigning \cup Making \cup Made \cup Metering \cup Undoing \cup Ending \cup Leaving \cup Emptied
          \cup Erasing \cup Ordinary

LEMMA StagesHaveSteps == \A p \in Stages : p # <<>>
<1> SUFFICES ASSUME NEW p \in Stages PROVE p # <<>>
  OBVIOUS
<1>1. Len(p) > 0
  <2>1. CASE p \in Assigning \cup Making \cup Made \cup Metering \cup Undoing \cup Ending
    BY <2>1 DEF Assigning, Making, Made, Metering, Undoing, Ending
  <2>2. CASE p \in Leaving \cup Emptied \cup Erasing
    BY <2>2 DEF Leaving, Emptied, Erasing
  <2>3. CASE p \in Ordinary
    <3>1. CASE p \in {<<"sync", "put">>, <<"start", "sync", "put">>, <<"stop", "bill", "put">>,
                      <<"bill", "put">>}
      BY <3>1
    <3>2. CASE p \in {<<"bill", "unfire", "destroy", "release", "erase">>,
                      <<"unfire", "refire", "put">>, <<"refire", "put">>}
      BY <3>2
    <3>3. CASE p \in {<<"commit", "put">>, <<"restore", "sync", "put">>}
      BY <3>3
    <3> QED BY <2>3, <3>1, <3>2, <3>3 DEF Ordinary
  <2> QED BY <2>1, <2>2, <2>3 DEF Stages
<1>2. Len(<<>>) = 0
  OBVIOUS
<1> QED BY <1>1, <1>2

\* At each stage, a step takes its VM to the next stage or leaves it at rest.
LEMMA StepSettles ==
  ASSUME TypeOK, TypeOK', NEW w \in Workers, Handle(w), AtWork(vm[w], todo[w], inst[w])
  PROVE  IF todo'[w] = <<>> THEN AtRest(vm[w])' ELSE AtWork(vm[w], todo[w], inst[w])'
<1> PICK v : v = vm[w]
  OBVIOUS
<1> PICK p : p = todo[w]
  OBVIOUS
<1> PICK q : q = todo'[w]
  OBVIOUS
<1> PICK i : i = inst[w]
  OBVIOUS
<1> PICK j : j = inst'[w]
  OBVIOUS
<1> PICK h : h = Head(todo[w])
  OBVIOUS
<1> PICK t : t = Tail(todo[w])
  OBVIOUS
<1>0. v \in VMs /\ i \in Record /\ j \in Record /\ i # NoRecord /\ vm' = vm /\ issued' = issued
  BY HandleMoves, PlateAssumption DEF TypeOK
<1>1. q = t \/ (q = <<>> /\ h \in Aborts) \/ (q = <<"release", "put">> /\ h = "make")
  <2>1. Moves(w) /\ todo \in [Workers -> Seq(Step)]
    BY HandleMoves DEF TypeOK
  <2>2. Steps("undo") = <<"release", "put">>
    BY DEF Steps
  <2>3. CASE Continue(w)
    BY <2>1, <2>3 DEF Continue
  <2>4. CASE Return(w) /\ Head(todo[w]) \in Aborts
    BY <2>1, <2>4 DEF Return
  <2>5. CASE todo' = [todo EXCEPT ![w] = Steps("undo")] /\ Head(todo[w]) = "make"
    BY <2>1, <2>2, <2>5
  <2> QED BY <2>1, <2>3, <2>4, <2>5 DEF Moves
<1>2. /\ record'[v] = record[v] \/ (h = "put" /\ record'[v] = i) \/ (h = "erase" /\ record'[v] = NoRecord)
      /\ assigned'[v] = assigned[v] \/ (h = "release" /\ assigned'[v] = NoIP) \/ h = "assign"
      /\ \/ <<h, v>> \in failed'
         \/ /\ h = "put" => record'[v] = i /\ q = t
            /\ h = "erase" => record'[v] = NoRecord
      /\ h = "put" => q = <<>> \/ record'[v] = i
      /\ failed \subseteq failed'
  <2>1. (Continue(w) => q = t) /\ (Return(w) => q = <<>>)
    BY DEF Continue, Return, TypeOK
  <2> QED BY <1>0, <2>1, EffectsAt, HandleEffects
<1>3. /\ h = "bill" => \/ usage[v] = "open" /\ usage'[v] = "closed"
                       \/ usage'[v] = usage[v] /\ (i.started /\ usage[v] = "open" => <<"bill", v>> \in failed')
      /\ h \notin {"meter", "bill"} => usage'[v] = usage[v]
      /\ h = "destroy" => q = <<>> \/ (q = t /\ box'[v].state = "none")
      /\ h \in {"assign", "release", "erase"} => box'[v].state = box[v].state
      /\ v \in deleted' => v \in deleted \/ (h = "erase" /\ record'[v] = NoRecord)
  <2>1. Return(w) => q = <<>>
    BY DEF Return, TypeOK
  <2>2. Continue(w) => q = t
    BY DEF Continue, TypeOK
  <2> QED BY <2>1, <2>2, VMEffects
<1>4. /\ h # "assign" => j.ip = i.ip
      /\ h = "assign" => q = <<>> \/ (q = t /\ j.ip = assigned'[v])
      /\ h \notin {"make", "start", "bill"} => j.started = i.started
      /\ h = "make" => q = <<"release", "put">> \/ (q = t /\ j.started = TRUE)
      /\ h = "start" => j.started = TRUE \/ j.started = i.started
      /\ h = "bill" => j.started = i.started \/ p = <<"bill", "put">>
  <2>1. (Continue(w) => q = t) /\ (Return(w) => q = <<>>)
    BY DEF Continue, Return, TypeOK
  <2>2. todo' = [todo EXCEPT ![w] = Steps("undo")] => q = <<"release", "put">>
    BY DEF Steps, TypeOK
  <2> QED BY <2>1, <2>2, CopyEffects
<1>5. /\ p \in Assigning => h = "assign" /\ t \in Making
      /\ p \in Making => h = "make" /\ t \in Made
      /\ p \in Made => \/ h \in {"sync", "fire"} /\ t \in Made
                       \/ h = "put" /\ t \in Metering
      /\ p \in Metering => h = "meter" /\ t = <<>>
      /\ p \in Undoing => h = "release" /\ t \in Ending
      /\ p \in Ending => h = "put" /\ t = <<>>
      /\ p \in Leaving => \/ h = "unfire" /\ t \in Leaving
                          \/ h = "destroy" /\ t \in Emptied
      /\ p \in Emptied => h = "release" /\ t \in Erasing
      /\ p \in Erasing => h = "erase" /\ t = <<>>
      /\ p \in Ordinary =>
           \/ h \in {"sync", "refire", "commit"} /\ t \in Ending
           \/ h \in {"start", "stop", "unfire", "restore"} /\ t \in Ordinary
           \/ h = "bill" /\ t \in (IF p = <<"bill", "put">> THEN Ending ELSE Leaving)
  BY StageGoesOn
<1>6. /\ <<>> \notin Assigning \cup Making \cup Made \cup Metering \cup Undoing \cup Ending
      /\ <<>> \notin Leaving \cup Emptied \cup Erasing \cup Ordinary
  BY StagesHaveSteps DEF Stages
<1>7. <<"release", "put">> \in Undoing
  BY DEF Undoing
<1>8. v \in issued' /\ v \notin deleted /\ (v \in deleted' => h = "erase" /\ record'[v] = NoRecord)
  BY <1>0, <1>3 DEF AtWork
<1> SUFFICES IF q = <<>> THEN AtRest(v)' ELSE AtWork(v, q, j)'
  BY <1>0
<1>9. CASE p \in Assigning /\ NotYet(v) /\ i.ip = assigned[v] /\ box[v].state = "none"
  <2>1. h = "assign" /\ t \in Making /\ NotYet(v)' /\ box'[v].state = "none" /\ v \notin deleted'
    BY <1>2, <1>3, <1>5, <1>8, <1>9 DEF NotYet
  <2>2. CASE q = <<>>
    BY <1>8, <2>1, <2>2 DEF NotYet, AtRest
  <2>3. CASE q = t /\ j.ip = assigned'[v]
    BY <1>6, <1>8, <2>1, <2>3 DEF AtWork
  <2> QED BY <1>4, <2>1, <2>2, <2>3
<1>10. CASE p \in Making /\ NotYet(v) /\ i.ip = assigned[v]
  <2>1. h = "make" /\ t \in Made /\ NotYet(v)' /\ assigned'[v] = assigned[v] /\ v \notin deleted'
    BY <1>2, <1>3, <1>5, <1>8, <1>10 DEF NotYet
  <2> QED BY <1>4, <1>6, <1>7, <1>8, <1>10, <2>1 DEF AtWork
<1>11. CASE p \in Made /\ NotYet(v) /\ i.ip = assigned[v] /\ i.started
  <2>1. CASE h \in {"sync", "fire"} /\ t \in Made
    <3>1. q = t /\ NotYet(v)' /\ j.ip = assigned'[v] /\ j.started /\ v \notin deleted'
      BY <1>1, <1>2, <1>3, <1>4, <1>8, <1>11, <2>1 DEF NotYet, Aborts
    <3> QED BY <1>6, <1>8, <2>1, <3>1 DEF AtWork
  <2>2. CASE h = "put" /\ t \in Metering
    <3>1. v \notin deleted' /\ usage'[v] = "none" /\ assigned'[v] = assigned[v]
      BY <1>2, <1>3, <1>8, <1>11, <2>2 DEF NotYet
    <3>2. CASE <<h, v>> \in failed' /\ q = <<>>
      BY <1>8, <2>2, <3>1, <3>2 DEF AtRest
    <3>3. CASE q = t
      <4>1. record'[v] = i
        BY <1>2, <1>6, <2>2, <3>3
      <4> QED BY <1>0, <1>2, <1>6, <1>8, <1>11, <2>2, <3>1, <3>3, <4>1 DEF AtWork
    <3> QED BY <1>1, <1>2, <2>2, <3>2, <3>3
  <2> QED BY <1>5, <1>11, <2>1, <2>2
<1>12. CASE p \in Metering /\ record[v] # NoRecord /\ record[v].ip = assigned[v] /\ record[v].started
  BY <1>1, <1>2, <1>3, <1>5, <1>8, <1>12 DEF AtRest, Aborts
<1>13. CASE p \in Undoing /\ NotYet(v)
  <2>1. q = t /\ t \in Ending /\ NotYet(v)'
    BY <1>1, <1>2, <1>3, <1>5, <1>13 DEF NotYet, Aborts
  <2> QED BY <1>5, <1>6, <1>8, <1>13, <2>1 DEF AtWork
<1>14. CASE p \in Ending /\ (NotYet(v) \/ Recorded(v, i))
  <2>1. /\ h = "put" /\ q = <<>> /\ usage'[v] = usage[v] /\ assigned'[v] = assigned[v]
        /\ v \notin deleted'
    BY <1>1, <1>2, <1>3, <1>5, <1>8, <1>14
  <2>2. record'[v] = i \/ (<<"put", v>> \in failed' /\ record'[v] = record[v])
    BY <1>2, <2>1
  <2>3. CASE record'[v] = i
    BY <1>0, <1>2, <1>8, <1>14, <2>1, <2>3 DEF AtRest, NotYet, Recorded
  <2>4. CASE <<"put", v>> \in failed' /\ record'[v] = record[v]
    BY <1>2, <1>8, <1>14, <2>1, <2>4 DEF AtRest, NotYet, Recorded
  <2> QED BY <2>2, <2>3, <2>4
<1>15. ASSUME Recorded(v, i), h \notin {"put", "erase", "release", "meter", "make", "bill", "assign"}
       PROVE  Recorded(v, j)' /\ usage'[v] = usage[v] /\ AtRest(v)'
  <2>1. record'[v] = record[v] /\ assigned'[v] = assigned[v] /\ usage'[v] = usage[v]
        /\ j.ip = i.ip /\ (i.started => j.started)
    BY <1>2, <1>3, <1>4, <1>15
  <2>2. v \notin deleted'
    BY <1>8, <1>15
  <2>3. AtRest(v)'
    BY <1>2, <1>8, <1>15, <2>1, <2>2 DEF Recorded, AtRest
  <2> QED BY <1>2, <1>15, <2>1, <2>3 DEF Recorded
<1>16. ASSUME Recorded(v, i), h = "bill"
       PROVE  Recorded(v, j)' /\ Billed(v)'
  <2>1. record'[v] = record[v] /\ assigned'[v] = assigned[v] /\ j.ip = i.ip
    BY <1>2, <1>3, <1>4, <1>16
  <2>2. usage'[v] = "closed" \/ (usage'[v] = usage[v] /\ (usage[v] = "open" => <<"bill", v>> \in failed'))
    BY <1>2, <1>3, <1>16 DEF Recorded
  <2>3. usage'[v] # "none" => record[v].ip = assigned[v] \/ <<"erase", v>> \in failed'
    BY <1>2, <1>3, <1>16 DEF Recorded
  <2> QED BY <1>16, <2>1, <2>2, <2>3 DEF Recorded, Billed
<1>17. CASE p \in Ordinary /\ Recorded(v, i)
  <2>1. CASE h = "bill"
    <3>1. q = t /\ t \in Ending \cup Leaving /\ v \notin deleted'
      BY <1>1, <1>5, <1>8, <1>17, <2>1 DEF Aborts
    <3> QED BY <1>6, <1>8, <1>16, <1>17, <2>1, <3>1 DEF AtWork
  <2>2. CASE h # "bill"
    <3>1. /\ t \in Ending \cup Ordinary /\ v \notin deleted'
          /\ h \notin {"put", "erase", "release", "meter", "make", "bill", "assign"}
      BY <1>5, <1>8, <1>17, <2>2
    <3>2. Recorded(v, j)' /\ AtRest(v)'
      BY <1>15, <1>17, <3>1
    <3>3. q = t \/ q = <<>>
      BY <1>1, <3>1
    <3> QED BY <1>8, <3>1, <3>2, <3>3 DEF AtWork
  <2> QED BY <2>1, <2>2
<1>18. CASE p \in Leaving /\ Recorded(v, i) /\ Billed(v)
  <2>1. h \in {"unfire", "destroy"} /\ (q = t \/ q = <<>>) /\ v \notin deleted'
    BY <1>1, <1>5, <1>8, <1>18
  <2>2. Recorded(v, j)' /\ Billed(v)' /\ AtRest(v)'
    BY <1>2, <1>15, <1>18, <2>1 DEF Billed
  <2>3. CASE h = "unfire"
    <3>1. t \in Leaving
      BY <1>5, <1>18, <2>3
    <3> QED BY <1>8, <2>1, <2>2, <2>3, <3>1 DEF AtWork
  <2>4. CASE h = "destroy"
    <3>1. t \in Emptied
      BY <1>5, <1>18, <2>4
    <3> QED BY <1>3, <1>8, <2>1, <2>2, <2>4, <3>1 DEF AtWork
  <2> QED BY <2>1, <2>3, <2>4
<1>19. CASE p \in Emptied /\ Recorded(v, i) /\ Billed(v) /\ box[v].state = "none"
  <2>1. h = "release" /\ t \in Erasing /\ q = t /\ v \notin deleted'
    BY <1>1, <1>5, <1>8, <1>19 DEF Aborts
  <2>2. record'[v] # NoRecord /\ Billed(v)' /\ box'[v].state = "none"
    BY <1>2, <1>3, <1>19, <2>1 DEF Recorded, Billed
  <2> QED BY <1>6, <1>8, <2>1, <2>2 DEF AtWork
<1>20. CASE p \in Erasing /\ record[v] # NoRecord /\ Billed(v) /\ box[v].state = "none"
  <2>1. h = "erase" /\ q = <<>> /\ usage'[v] = usage[v] /\ box'[v].state = "none"
    BY <1>1, <1>3, <1>5, <1>20 DEF Aborts
  <2>2. record'[v] = NoRecord \/ <<"erase", v>> \in failed'
    BY <1>2, <2>1
  <2> QED BY <1>2, <1>8, <1>20, <2>1, <2>2 DEF AtRest, Billed
<1> QED
  BY <1>9, <1>10, <1>11, <1>12, <1>13, <1>14, <1>17, <1>18, <1>19, <1>20 DEF AtWork


LEMMA SerialInit == Init => SerialInv
BY DEF Init, NoBox, SerialInv, OneAtATime, AtRest

\* What a request on a VM starts with.
LEMMA PlanStages ==
  ASSUME NEW o \in Op \ {"undo"}, NEW p \in Plans(o)
  PROVE  /\ o = "create" => p \in Assigning \cup Making
         /\ o # "create" => p \in Ending \cup Ordinary
<1>1. CASE o = "create" /\ p = Steps(o)
  BY <1>1 DEF Steps, Assigning
<1>2. CASE o = "create" /\ p = Tail(Steps(o))
  BY <1>2 DEF Steps, Making
<1>3. CASE o = "put"
  BY <1>3 DEF Plans, Steps, Ending
<1>4. CASE o \in {"get", "start", "stop", "delete"}
  BY <1>4 DEF Plans, Steps, Ordinary
<1>5. CASE o \in {"firewall", "snapshot", "restore"}
  BY <1>5 DEF Plans, Steps, Ordinary
<1> QED BY <1>1, <1>2, <1>3, <1>4, <1>5 DEF Plans, Op

\* A request starts on a VM at rest.
LEMMA RequestSerial ==
  ASSUME TypeOK, TypeOK', SerialInv, OneAtATime', NEW w \in Workers, NEW v \in VMs,
         BeginCreate(w, v) \/ \E o \in Op \ {"create", "undo"} : ReadRecord(w, v, o)
  PROVE  SerialInv'
<1> USE DEF files, host, history, disk
<1>1. PICK o \in Op \ {"undo"} : \E p \in Plans(o) :
        /\ todo[w] = <<>> /\ todo' = [todo EXCEPT ![w] = p]
        /\ vm' = [vm EXCEPT ![w] = v]
        /\ UNCHANGED <<record, assigned, usage, box, deleted, failed>>
        /\ IF o = "create" THEN BeginCreate(w, v) ELSE ReadRecord(w, v, o)
  <2>1. CASE BeginCreate(w, v)
    BY <2>1 DEF BeginCreate, Request, Plans, Op
  <2>2. ASSUME NEW o \in Op \ {"create", "undo"}, ReadRecord(w, v, o)
        PROVE  /\ todo[w] = <<>> /\ todo' = [todo EXCEPT ![w] = Steps(o)]
               /\ vm' = [vm EXCEPT ![w] = v]
               /\ UNCHANGED <<record, assigned, usage, box, deleted, failed>>
    BY <2>2 DEF ReadRecord, Request
  <2> QED BY <2>1, <2>2 DEF Plans, Op
<1>2. PICK p \in Plans(o) :
        /\ todo[w] = <<>> /\ todo' = [todo EXCEPT ![w] = p]
        /\ vm' = [vm EXCEPT ![w] = v]
        /\ UNCHANGED <<record, assigned, usage, box, deleted, failed>>
        /\ IF o = "create" THEN BeginCreate(w, v) ELSE ReadRecord(w, v, o)
  BY <1>1
<1>3. todo'[w] = p /\ vm'[w] = v
  BY <1>2 DEF TypeOK
<1>4. todo'[w] # <<>>
  BY <1>3, PlanStages, StagesHaveSteps DEF Stages
<1>5. \A u \in Workers : todo[u] = <<>> /\ (u # w => todo'[u] = <<>>)
  BY <1>2, <1>4 DEF OneAtATime, TypeOK
<1>6. \A u \in VMs : AtRest(u)
  BY <1>5 DEF SerialInv, Busy
<1>7. CASE o = "create"
  <2>1. v \notin issued /\ issued' = issued \cup {v}
    BY <1>2, <1>7 DEF BeginCreate
  <2>2. NotYet(v) /\ assigned[v] = NoIP /\ v \notin deleted /\ box[v].state = "none"
    BY <1>6, <2>1 DEF AtRest, NotYet
  <2>3. inst'[w].ip = NoIP
    <3>1. PICK fw : inst' = [inst EXCEPT ![w] = [NewRecord EXCEPT !.fw = fw]]
      BY <1>2, <1>7 DEF BeginCreate
    <3>2. inst'[w] = [NewRecord EXCEPT !.fw = fw]
      BY <3>1 DEF TypeOK
    <3> QED BY <3>2 DEF NewRecord
  <2>4. p \in Assigning \cup Making
    BY <1>7, PlanStages
  <2>5. AtWork(vm[w], todo[w], inst[w])'
    BY <1>2, <1>3, <2>1, <2>2, <2>3, <2>4 DEF AtWork, NotYet
  <2>6. \A u \in VMs \ {v} : AtRest(u)'
    BY <1>2, <1>6, <2>1 DEF AtRest
  <2> QED BY <1>3, <1>4, <1>5, <2>5, <2>6 DEF SerialInv, Busy
<1>8. CASE o # "create"
  <2>1. record[v] # NoRecord /\ inst'[w] = record[v] /\ UNCHANGED issued
    BY <1>2, <1>8 DEF ReadRecord, TypeOK
  <2>2. v \in issued /\ v \notin deleted /\ Recorded(v, record[v])
    BY <1>6, <2>1 DEF AtRest, Recorded
  <2>3. p \in Ending \cup Ordinary
    BY <1>8, PlanStages
  <2>4. AtWork(vm[w], todo[w], inst[w])'
    BY <1>2, <1>3, <2>1, <2>2, <2>3 DEF AtWork, Recorded
  <2>5. \A u \in VMs : AtRest(u)'
    BY <1>2, <1>6, <2>1 DEF AtRest
  <2> QED BY <1>3, <1>4, <1>5, <2>4, <2>5 DEF SerialInv, Busy
<1> QED BY <1>7, <1>8

\* A step of a request leaves the other VMs at rest.
LEMMA HandleSerial ==
  ASSUME TypeOK, TypeOK', SerialInv, OneAtATime', NEW w \in Workers, Handle(w)
  PROVE  SerialInv'
<1>1. todo[w] # <<>> /\ vm' = vm /\ issued' = issued /\ vm[w] \in VMs
  BY HandleMoves DEF TypeOK
<1>2. IF todo'[w] = <<>> THEN AtRest(vm[w])' ELSE AtWork(vm[w], todo[w], inst[w])'
  BY <1>1, StepSettles DEF SerialInv
<1>3. \A u \in Workers \ {w} : todo[u] = <<>> /\ todo'[u] = <<>>
  <2>1. \A u \in Workers \ {w} : todo[u] = <<>>
    BY <1>1 DEF SerialInv, OneAtATime
  <2>2. \A u \in Workers \ {w} : todo'[u] = todo[u]
    BY HandleMoves DEF Moves, Continue, Return, TypeOK
  <2> QED BY <2>1, <2>2
<1>4. ASSUME NEW u \in VMs, u # vm[w]
      PROVE  AtRest(u)'
  <2>1. AtRest(u)
    BY <1>3, <1>4 DEF SerialInv, Busy
  <2> QED BY <1>1, <1>4, <2>1, OnlyItsVM DEF AtRest
<1> QED BY <1>1, <1>2, <1>3, <1>4 DEF SerialInv, Busy

LEMMA SerialNext == TypeOK /\ SerialInv /\ [Next]_vars /\ OneAtATime' => SerialInv'
<1> SUFFICES ASSUME TypeOK, SerialInv, [Next]_vars, OneAtATime' PROVE SerialInv'
  OBVIOUS
<1> USE DEF files, host, bounds, history, disk
<1>0. TypeOK'
  BY NextType
<1>1. CASE \E w \in Workers, v \in VMs : BeginCreate(w, v)
  BY <1>0, <1>1, RequestSerial
<1>2. CASE \E w \in Workers, v \in VMs, o \in Op \ {"create", "undo"} : ReadRecord(w, v, o)
  BY <1>0, <1>2, RequestSerial
<1>3. CASE \E w \in Workers : Handle(w)
  BY <1>0, <1>3, HandleSerial
<1>4. ASSUME NEW v \in VMs, BoxStops(v) PROVE SerialInv'
  <2>1. box[v].state = "running" /\ \A u \in VMs : box'[u].state = IF u = v THEN "stopped" ELSE box[u].state
    BY <1>4 DEF BoxStops, Down, TypeOK
  <2>2. UNCHANGED <<record, assigned, usage, todo, vm, inst, crashes, issued, deleted, failed>>
    BY <1>4 DEF BoxStops
  <2>3. ASSUME NEW u \in VMs, AtRest(u) PROVE AtRest(u)'
    BY <2>1, <2>2, <2>3 DEF AtRest
  <2>4. ASSUME NEW u \in VMs, NEW p, NEW i, AtWork(u, p, i) PROVE AtWork(u, p, i)'
    BY <2>1, <2>2, <2>4 DEF AtWork, NotYet, Recorded, Billed
  <2>5. \A w \in Workers : vm[w] \in VMs
    BY DEF TypeOK
  <2> QED BY <2>2, <2>3, <2>4, <2>5 DEF SerialInv, Busy
<1>5. CASE Crash
  <2>1. crashes' # 0
    BY <1>5 DEF Crash, TypeOK
  <2> QED BY <2>1 DEF OneAtATime
<1>6. CASE UNCHANGED vars
  BY <1>6 DEF vars, SerialInv, OneAtATime, AtRest, AtWork, NotYet, Recorded, Billed, Busy
<1> QED BY <1>1, <1>2, <1>3, <1>4, <1>5, <1>6, NextCases

LEMMA SerialInvIsStronger == SerialInv => BoxIsKnown /\ ShownIsHeld /\ OpenUsageCloses
BY DEF SerialInv, AtRest, AtWork, Busy, BoxIsKnown, ShownIsHeld, OpenUsageCloses


\* The control plane as long as it serves one request at a time and does not die.
SerialSpec == Init /\ [][Next /\ OneAtATime']_vars

LEMMA SerialStep == TypeOK /\ SerialInv /\ [Next /\ OneAtATime']_vars => TypeOK' /\ SerialInv'
<1> SUFFICES ASSUME TypeOK, SerialInv, [Next /\ OneAtATime']_vars PROVE TypeOK' /\ SerialInv'
  OBVIOUS
<1>1. [Next]_vars
  OBVIOUS
<1>2. UNCHANGED vars => OneAtATime'
  BY DEF vars, bounds, SerialInv, OneAtATime
<1> QED BY <1>1, <1>2, NextType, SerialNext

\* One request at a time, whatever docker and iptables do to it: a container
\* without a record is left behind only where writing its record has failed, a
\* VM that was billed holds the address it shows unless erasing its record has
\* failed, and an open usage record is one that Stop or Delete will close
\* unless closing it has failed.
THEOREM OneRequestLeavesOrder == SerialSpec => [](BoxIsKnown /\ ShownIsHeld /\ OpenUsageCloses)
<1>1. TypeOK /\ SerialInv => BoxIsKnown /\ ShownIsHeld /\ OpenUsageCloses
  BY SerialInvIsStronger
<1> QED BY <1>1, InitType, SerialInit, SerialStep, PTL DEF SerialSpec

----------------------------------------------------------------------------
(* The same for the two workers of the instance that TLC checks.            *)

SerialMode == TypeOK /\ (mode = "serial" => SerialInv)

LEMMA SerialModeHolds ==
  ASSUME Workers = {w1, w2}
  PROVE  MCInit /\ [][MCNext]_<<vars, mode>> => []SerialMode
<1>1. MCInit => SerialMode
  BY InitType, SerialInit DEF MCInit, SerialMode
<1>2. SerialMode /\ [MCNext]_<<vars, mode>> => SerialMode'
  <2> SUFFICES ASSUME SerialMode, [MCNext]_<<vars, mode>> PROVE SerialMode'
    OBVIOUS
  <2>1. TypeOK'
    BY NextType DEF SerialMode, MCNext
  <2>2. mode' = mode
    BY DEF MCNext
  <2>3. CASE MCNext /\ mode = "serial"
    <3>1. OneAtATime'
      BY <2>1, <2>3 DEF MCNext, OneAtATime
    <3> QED BY <2>1, <2>2, <2>3, <3>1, SerialNext DEF MCNext, SerialMode
  <2>4. CASE UNCHANGED <<vars, mode>>
    <3>1. mode = "serial" => SerialInv'
      BY <2>4, SerialStep DEF SerialMode
    <3> QED BY <2>1, <2>2, <3>1 DEF SerialMode
  <2> QED BY <2>1, <2>2, <2>3, <2>4 DEF SerialMode
<1> QED BY <1>1, <1>2, PTL

\* A container without a record is one under construction, or one whose record
\* could not be written: whatever else fails leaves none behind.
THEOREM NothingIsLeftBehind ==
  ASSUME Workers = {w1, w2}
  PROVE  MCInit /\ [][MCNext]_<<vars, mode>> => []NothingLeftBehind
<1>1. SerialMode => NothingLeftBehind
  BY SerialInvIsStronger DEF SerialMode, NothingLeftBehind
<1> QED BY <1>1, SerialModeHolds, PTL

\* A VM whose creation succeeded holds the address that its record shows, unless
\* a deletion that had released it could not erase the record.
THEOREM ShownAddressIsHeld ==
  ASSUME Workers = {w1, w2}
  PROVE  MCInit /\ [][MCNext]_<<vars, mode>> => []ShownAddressHeld
<1>1. SerialMode => ShownAddressHeld
  BY SerialInvIsStronger DEF SerialMode, ShownAddressHeld
<1> QED BY <1>1, SerialModeHolds, PTL

\* A usage record stays open only while Stop or Delete can close it, or where
\* closing it has failed.
THEOREM UsageIsClosed ==
  ASSUME Workers = {w1, w2}
  PROVE  MCInit /\ [][MCNext]_<<vars, mode>> => []UsageCloses
<1>1. SerialMode => UsageCloses
  BY SerialInvIsStronger DEF SerialMode, UsageCloses
<1> QED BY <1>1, SerialModeHolds, PTL

=============================================================================
