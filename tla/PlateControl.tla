---------------------------- MODULE PlateControl ----------------------------
(***************************************************************************)
(* The control plane of plate: the VM records (vms.json), the public IP    *)
(* pool (ip-pool.json), the usage ledger (billing.json), and the requests  *)
(* that read a record, work on the backend and write the record back.      *)
(* Each file has its own mutex, held for one access only; requests run in  *)
(* parallel.  An access may fail, and may leave its file torn.  The         *)
(* backend is docker on Linux.                                             *)
(***************************************************************************)
EXTENDS Naturals, Sequences

CONSTANTS
  VMs,              \* ids that newID will return
  Pool,             \* the sequence of public addresses of the pool
  Addrs,            \* container addresses
  Rules,            \* firewall rules
  DefaultFirewall,  \* the rules of a new VM
  Workers,          \* requests in progress at a time
  NoIP, NoAddr, NoRecord,
  CommandsFail,     \* whether docker and iptables can fail, or a client hang up
  MaxRequests, MaxCrashes, MaxFaults  \* bounds

IPs == {Pool[k] : k \in DOMAIN Pool}

Record == [status : {"creating", "running", "stopped", "error"}, ip : IPs \cup {NoIP},
           addr : Addrs \cup {NoAddr}, started : BOOLEAN, fw : SUBSET Rules]

ASSUME PlateAssumption ==
  /\ VMs # {}
  /\ Pool \in Seq(IPs)
  /\ NoIP \notin IPs /\ NoAddr \notin Addrs /\ NoRecord \notin Record
  /\ DefaultFirewall \subseteq Rules
  /\ CommandsFail \in BOOLEAN
  /\ MaxRequests \in Nat /\ MaxCrashes \in Nat /\ MaxFaults \in Nat

VARIABLES
  record,    \* vms.json
  assigned,  \* ip-pool.json: the address of a VM id
  usage,     \* billing.json: the usage record of a VM
  torn,      \* files that cannot be read any more; above is what they held last
  box,       \* containers
  images,    \* VMs with a snapshot
  dnat,      \* DNAT rules of the host: <<public address, rule, container address>>
  todo,      \* the steps a request has left
  vm, inst,  \* the VM of the request and its copy of the record
  up,        \* the server runs, or will when it is started again
  requests, crashes, faults,
  issued, deleted,  \* history: ids handed out, VMs whose deletion was answered
  failed     \* history: accesses to a file that failed, <<step, VM>>

disk == <<torn, faults, failed>>
files == <<record, assigned, usage, disk>>
host == <<box, images, dnat>>
bounds == <<requests, crashes, up>>
history == <<issued, deleted>>
vars == <<files, host, todo, vm, inst, bounds, history>>

Op == {"get", "put", "start", "stop", "delete", "firewall", "snapshot", "restore", "create", "undo"}

\* Mutants: delete forgets the address; erases the record first; releases the
\* address first; does not close the usage record.
StepsKeepAddress(o) ==
  CASE o = "get" -> <<"sync", "put">>
    [] o = "put" -> <<"put">>
    [] o = "start" -> <<"start", "sync", "put">>
    [] o = "stop" -> <<"stop", "bill", "put">>
    [] o = "delete" -> <<"bill", "unfire", "destroy", "erase">>
    [] o = "firewall" -> <<"unfire", "refire", "put">>
    [] o = "snapshot" -> <<"commit", "put">>
    [] o = "restore" -> <<"restore", "sync", "put">>
    [] o = "create" -> <<"assign", "make", "sync", "fire", "put", "meter">>
    [] o = "undo" -> <<"release", "put">>
StepsEraseFirst(o) ==
  IF o = "delete" THEN <<"erase", "bill", "unfire", "destroy", "release">> ELSE StepsKeepAddress(o)
StepsReleaseFirst(o) ==
  IF o = "delete" THEN <<"bill", "unfire", "release", "destroy", "erase">> ELSE StepsKeepAddress(o)
StepsUnbilled(o) ==
  IF o = "delete" THEN <<"unfire", "destroy", "release", "erase">> ELSE StepsKeepAddress(o)

\* What a request does after it has read the record.
Steps(o) ==
  CASE o = "get" -> <<"sync", "put">>
    [] o = "put" -> <<"put">>
    [] o = "start" -> <<"start", "sync", "put">>
    [] o = "stop" -> <<"stop", "bill", "put">>
    [] o = "delete" -> <<"bill", "unfire", "destroy", "release", "erase">>
    [] o = "firewall" -> <<"unfire", "refire", "put">>
    [] o = "snapshot" -> <<"commit", "put">>
    [] o = "restore" -> <<"restore", "sync", "put">>
    [] o = "create" -> <<"assign", "make", "sync", "fire", "put", "meter">>
    [] o = "undo" -> <<"release", "put">>

Step == {"sync", "put", "start", "stop", "bill", "unfire", "destroy", "release", "erase",
         "fire", "refire", "commit", "restore", "assign", "make", "meter"}

File == {"vms", "pool", "ledger"}

NewRecord == [status |-> "creating", ip |-> NoIP, addr |-> NoAddr, started |-> FALSE,
              fw |-> DefaultFirewall]
NoBox == [state |-> "none", addr |-> NoAddr]

TypeOK ==
  /\ record \in [VMs -> Record \cup {NoRecord}]
  /\ assigned \in [VMs -> IPs \cup {NoIP}]
  /\ usage \in [VMs -> {"none", "open", "closed"}]
  /\ box \in [VMs -> [state : {"none", "running", "stopped"}, addr : Addrs \cup {NoAddr}]]
  /\ images \subseteq VMs
  /\ dnat \subseteq IPs \X Rules \X Addrs
  /\ todo \in [Workers -> Seq(Step)]
  /\ vm \in [Workers -> VMs]
  /\ inst \in [Workers -> Record]
  /\ requests \in 0..MaxRequests /\ crashes \in 0..MaxCrashes /\ up \in BOOLEAN
  /\ torn \subseteq File /\ faults \in 0..MaxFaults /\ failed \subseteq Step \X VMs
  /\ issued \subseteq VMs /\ deleted \subseteq VMs

Init ==
  /\ record = [v \in VMs |-> NoRecord]
  /\ assigned = [v \in VMs |-> NoIP]
  /\ usage = [v \in VMs |-> "none"]
  /\ box = [v \in VMs |-> NoBox]
  /\ images = {} /\ dnat = {}
  /\ todo = [w \in Workers |-> <<>>]
  /\ vm \in [Workers -> VMs]
  /\ inst = [w \in Workers |-> NewRecord]
  /\ requests = 0 /\ crashes = 0 /\ up = TRUE
  /\ torn = {} /\ faults = 0 /\ failed = {}
  /\ issued = {} /\ deleted = {}

----------------------------------------------------------------------------
(* Requests. *)

Request(w) ==
  /\ todo[w] = <<>> /\ up
  /\ requests < MaxRequests
  /\ requests' = requests + 1

\* Every request but create starts with Store.Get, and ends there when vms.json
\* cannot be read.  "get" is Get, or List for one of the records it has read;
\* "put" is UpdateHostname and ListSnapshots, which change fields that are not
\* modelled.
ReadRecord(w, v, o) ==
  /\ Request(w)
  /\ "vms" \notin torn /\ record[v] # NoRecord
  /\ todo' = [todo EXCEPT ![w] = Steps(o)]
  /\ vm' = [vm EXCEPT ![w] = v]
  /\ inst' = [inst EXCEPT ![w] = record[v]]
  /\ UNCHANGED <<files, host, crashes, up, history>>

\* Mutant: an address is in use when a VM record shows it.
UsedInRecords(ip) == \E v \in VMs : record[v] # NoRecord /\ record[v].ip = ip

Used(ip) == \E v \in VMs : assigned[v] = ip

\* The first address of the pool that no VM holds.
Free(ip) ==
  \E k \in DOMAIN Pool :
    /\ ip = Pool[k] /\ ~Used(ip)
    /\ \A j \in 1..(k - 1) : Used(Pool[j])

\* Create: a new id and the rules of the request or the default ones.  It goes
\* on without an address if the pool is empty, and also if it cannot be read.
BeginCreate(w, v) ==
  /\ Request(w)
  /\ v \notin issued
  /\ issued' = issued \cup {v}
  /\ \E fw \in (SUBSET Rules \ {{}}) \cup {DefaultFirewall} :
       inst' = [inst EXCEPT ![w] = [NewRecord EXCEPT !.fw = fw]]
  /\ \/ /\ Pool # <<>> /\ "pool" \notin torn
        /\ todo' = [todo EXCEPT ![w] = Steps("create")]
        /\ UNCHANGED faults
     \/ /\ todo' = [todo EXCEPT ![w] = Tail(Steps("create"))]
        /\ \/ (Pool = <<>> \/ "pool" \in torn) /\ UNCHANGED faults
           \/ faults < MaxFaults /\ faults' = faults + 1
  /\ vm' = [vm EXCEPT ![w] = v]
  /\ UNCHANGED <<record, assigned, usage, torn, failed, host, crashes, up, deleted>>

----------------------------------------------------------------------------
(* Steps. *)

Now(w, step) == todo[w] # <<>> /\ Head(todo[w]) = step
Continue(w) == todo' = [todo EXCEPT ![w] = Tail(@)]
Return(w) == todo' = [todo EXCEPT ![w] = <<>>]
Copy(w, i) == inst' = [inst EXCEPT ![w] = i]
Same == UNCHANGED <<vm, bounds, issued>>

\* One access to a file, under its mutex: the file is read, changed and written
\* by os.WriteFile, which truncates it first.  An access that fails has changed
\* nothing, or leaves the file torn, or was done (only Close failed); all that
\* follow on a torn file fail.
Access(w, f, ok, done) ==
  \/ ok /\ done /\ f \notin torn /\ UNCHANGED disk
  \/ /\ ~ok /\ failed' = failed \cup {<<Head(todo[w]), vm[w]>>}
     /\ \/ f \in torn /\ ~done /\ UNCHANGED <<torn, faults>>
        \/ /\ f \notin torn /\ faults < MaxFaults /\ faults' = faults + 1
           /\ UNCHANGED torn \/ (~done /\ torn' = torn \cup {f})

\* Create ends without a record when the pool is exhausted or Assign fails.
Assign(w) ==
  /\ Now(w, "assign")
  /\ \/ \E ip \in IPs, ok, done \in BOOLEAN :
          /\ Free(ip)
          /\ Access(w, "pool", ok, done)
          /\ assigned' = IF done THEN [assigned EXCEPT ![vm[w]] = ip] ELSE assigned
          /\ IF ok THEN Copy(w, [inst[w] EXCEPT !.ip = ip]) /\ Continue(w)
                   ELSE UNCHANGED inst /\ Return(w)
     \/ /\ "pool" \in torn \/ \A ip \in IPs : Used(ip)
        /\ Return(w) /\ UNCHANGED <<assigned, inst, disk>>
  /\ UNCHANGED <<record, usage, host, deleted>> /\ Same

FreshAddr(v) == {a \in Addrs : \A u \in VMs \ {v} : box[u].addr # a}
\* What docker run and docker start, docker stop, and docker rm do to a container.
Up(v) == \E a \in FreshAddr(v) : box' = [box EXCEPT ![v] = [state |-> "running", addr |-> a]]
Down(v) == box' = [box EXCEPT ![v] = [state |-> "stopped", addr |-> NoAddr]]
Gone(v) == box' = [box EXCEPT ![v] = NoBox]

\* The rules of the host that stand for firewall rules fw of a VM.
DnatOf(i, fw) ==
  IF i.ip = NoIP \/ i.addr = NoAddr THEN {} ELSE {i.ip} \X fw \X {i.addr}

\* A command that fails may have done its work: a failed docker run leaves a
\* container behind, and when the client hangs up the docker command is killed
\* but the daemon goes on.
Make(w) ==
  /\ Now(w, "make")
  /\ \/ /\ Up(vm[w])
        /\ Copy(w, [inst[w] EXCEPT !.status = "running", !.started = TRUE])
        /\ Continue(w)
     \/ /\ UNCHANGED box \/ (CommandsFail /\ (Up(vm[w]) \/ Down(vm[w])))
        /\ Copy(w, [inst[w] EXCEPT !.status = "error"])
        /\ todo' = [todo EXCEPT ![w] = Steps("undo")]
  /\ UNCHANGED <<files, images, dnat, deleted>> /\ Same

\* docker start gives a stopped container a new address.
Started(v) ==
  \/ box[v].state = "running" /\ UNCHANGED box
  \/ box[v].state = "stopped" /\ Up(v)

Start(w) ==
  /\ Now(w, "start")
  /\ \/ /\ Started(vm[w])
        /\ Copy(w, [inst[w] EXCEPT !.status = "running", !.started = TRUE])
        /\ Continue(w)
     \/ /\ CommandsFail \/ box[vm[w]].state = "none"
        /\ UNCHANGED box \/ Started(vm[w])
        /\ Return(w) /\ UNCHANGED inst
  /\ UNCHANGED <<files, images, dnat, deleted>> /\ Same

Stopped(v) == box[v].state # "none" /\ Down(v)

Stop(w) ==
  /\ Now(w, "stop")
  /\ \/ /\ Stopped(vm[w])
        /\ Copy(w, [inst[w] EXCEPT !.status = "stopped"])
        /\ Continue(w)
     \/ /\ CommandsFail \/ box[vm[w]].state = "none"
        /\ UNCHANGED box \/ Stopped(vm[w])
        /\ Return(w) /\ UNCHANGED inst
  /\ UNCHANGED <<files, images, dnat, deleted>> /\ Same

\* Delete of the provider removes the rules again, then the snapshots of the VM
\* and its container.
Destroy(w) ==
  /\ Now(w, "destroy")
  /\ dnat' = dnat \ DnatOf(inst[w], inst[w].fw)
  /\ \/ Gone(vm[w]) /\ images' = images \ {vm[w]} /\ Continue(w)
     \/ /\ CommandsFail \/ box[vm[w]].state = "none"
        /\ UNCHANGED box \/ Gone(vm[w])
        /\ images' \in {images, images \ {vm[w]}}
        /\ Return(w)
  /\ UNCHANGED <<files, inst, deleted>> /\ Same

Commit(w) ==
  /\ Now(w, "commit")
  /\ \/ box[vm[w]].state # "none" /\ images' = images \cup {vm[w]} /\ Continue(w)
     \/ /\ CommandsFail \/ box[vm[w]].state = "none"
        /\ UNCHANGED images \/ (box[vm[w]].state # "none" /\ images' = images \cup {vm[w]})
        /\ Return(w)
  /\ UNCHANGED <<files, box, dnat, inst, deleted>> /\ Same

\* The container is stopped and removed, then a new one is run from the image of
\* the snapshot, if the id in the request is that of one.
Restore(w) ==
  /\ Now(w, "restore")
  /\ \/ vm[w] \in images /\ Up(vm[w]) /\ Continue(w)
     \/ /\ Gone(vm[w]) \/ (CommandsFail /\ (UNCHANGED box \/ Stopped(vm[w])))
        /\ Return(w)
  /\ UNCHANGED <<files, images, dnat, inst, deleted>> /\ Same

\* A missing container is an error, and so is any failure of docker inspect; a
\* stopped one has no address.
Synced(i, b) ==
  IF b.state = "none" THEN [i EXCEPT !.status = "error"]
                      ELSE [i EXCEPT !.status = b.state, !.addr = b.addr]

Sync(w) ==
  /\ Now(w, "sync")
  /\ \/ Copy(w, Synced(inst[w], box[vm[w]]))
     \/ CommandsFail /\ Copy(w, [inst[w] EXCEPT !.status = "error"])
  /\ Continue(w)
  /\ UNCHANGED <<files, host, deleted>> /\ Same

Unfire(w) ==
  /\ Now(w, "unfire")
  /\ dnat' = dnat \ DnatOf(inst[w], inst[w].fw)
  /\ Continue(w)
  /\ UNCHANGED <<files, box, images, inst, deleted>> /\ Same

\* The rules ApplyFirewall may have added when it returns.
Applied(i) == IF CommandsFail /\ DnatOf(i, i.fw) # {} THEN SUBSET i.fw ELSE {i.fw}
ApplyFirewall(i, done) == dnat' = (dnat \ DnatOf(i, i.fw)) \cup DnatOf(i, done)

\* Create ignores the error of ApplyFirewall.
Fire(w) ==
  /\ Now(w, "fire")
  /\ \E done \in Applied(inst[w]) : ApplyFirewall(inst[w], done)
  /\ Continue(w)
  /\ UNCHANGED <<files, box, images, inst, deleted>> /\ Same

\* UpdateFirewall takes the rules of the request and ends when they fail.
Refire(w) ==
  /\ Now(w, "refire")
  /\ \E fw \in SUBSET Rules :
       LET i == [inst[w] EXCEPT !.fw = fw] IN
       /\ Copy(w, i)
       /\ \E done \in Applied(i) :
            /\ ApplyFirewall(i, done)
            /\ IF done = fw THEN Continue(w) ELSE Return(w)
  /\ UNCHANGED <<files, box, images, deleted>> /\ Same

\* Most callers ignore the error of Put, which is the last thing they do; Create
\* ends there.
Put(w) ==
  /\ Now(w, "put")
  /\ \E ok, done \in BOOLEAN :
       /\ Access(w, "vms", ok, done)
       /\ record' = IF done THEN [record EXCEPT ![vm[w]] = inst[w]] ELSE record
       /\ IF ok THEN Continue(w) ELSE Return(w)
  /\ UNCHANGED <<assigned, usage, host, inst, deleted>> /\ Same

\* UpdateUsageHours closes the open usage record of a VM that was started; its
\* error is ignored.
Bill(w) ==
  /\ Now(w, "bill")
  /\ IF inst[w].started /\ usage[vm[w]] = "open"
     THEN \E ok, done \in BOOLEAN :
            /\ Access(w, "ledger", ok, done)
            /\ usage' = IF done THEN [usage EXCEPT ![vm[w]] = "closed"] ELSE usage
     ELSE UNCHANGED <<usage, disk>>
  /\ IF todo[w] = <<"bill", "put">> THEN Copy(w, [inst[w] EXCEPT !.started = FALSE])
                                    ELSE UNCHANGED inst
  /\ Continue(w)
  /\ UNCHANGED <<record, assigned, host, deleted>> /\ Same

\* RecordUsage of a new VM; its error is ignored.
Meter(w) ==
  /\ Now(w, "meter")
  /\ \E ok, done \in BOOLEAN :
       /\ Access(w, "ledger", ok, done)
       /\ usage' = IF done THEN [usage EXCEPT ![vm[w]] = "open"] ELSE usage
  /\ Continue(w)
  /\ UNCHANGED <<record, assigned, host, inst, deleted>> /\ Same

\* Pool.Release returns no error.
Release(w) ==
  /\ Now(w, "release")
  /\ \E ok, done \in BOOLEAN :
       /\ Access(w, "pool", ok, done)
       /\ assigned' = IF done THEN [assigned EXCEPT ![vm[w]] = NoIP] ELSE assigned
  /\ Continue(w)
  /\ UNCHANGED <<record, usage, host, inst, deleted>> /\ Same

Erase(w) ==
  /\ Now(w, "erase")
  /\ \E ok, done \in BOOLEAN :
       /\ Access(w, "vms", ok, done)
       /\ record' = IF done THEN [record EXCEPT ![vm[w]] = NoRecord] ELSE record
       /\ deleted' = IF ok THEN deleted \cup {vm[w]} ELSE deleted
       /\ IF ok THEN Continue(w) ELSE Return(w)
  /\ UNCHANGED <<assigned, usage, host, inst>> /\ Same

----------------------------------------------------------------------------
(* The environment. *)

BoxStops(v) ==
  /\ box[v].state = "running"
  /\ Down(v)
  /\ UNCHANGED <<files, images, dnat, todo, vm, inst, bounds, history>>

\* The file that a request is at, if any.
Writing(w) ==
  IF todo[w] = <<>> THEN {}
  ELSE {f \in File :
          \/ f = "vms" /\ Head(todo[w]) \in {"put", "erase"}
          \/ f = "pool" /\ Head(todo[w]) \in {"assign", "release"}
          \/ f = "ledger" /\ Head(todo[w]) \in {"bill", "meter"}}

\* The server dies with the requests it works on; files and host stay, but a
\* file that a request has truncated is torn.  The next server opens the pool
\* first and does not come up if it cannot read it.
Crash ==
  /\ crashes < MaxCrashes /\ up
  /\ crashes' = crashes + 1
  /\ todo' = [w \in Workers |-> <<>>]
  /\ \E cut \in SUBSET UNION {Writing(w) : w \in Workers} : torn' = torn \cup cut
  /\ up' = ("pool" \notin torn')
  /\ UNCHANGED <<record, assigned, usage, faults, failed, host, vm, inst, requests, history>>

Next ==
  \/ \E w \in Workers :
       \/ \E v \in VMs : BeginCreate(w, v)
       \/ \E v \in VMs, o \in Op \ {"create", "undo"} : ReadRecord(w, v, o)
       \/ Assign(w) \/ Make(w) \/ Start(w) \/ Stop(w) \/ Destroy(w) \/ Commit(w) \/ Restore(w)
       \/ Sync(w) \/ Unfire(w) \/ Fire(w) \/ Refire(w)
       \/ Put(w) \/ Bill(w) \/ Meter(w) \/ Release(w) \/ Erase(w)
  \/ \E v \in VMs : BoxStops(v)
  \/ Crash

Spec == Init /\ [][Next]_vars

----------------------------------------------------------------------------
(* Properties. *)

\* However requests interleave and the server restarts, no two VMs hold the
\* same public address (Assign, Release).
AddressesExclusive ==
  \A v, u \in VMs : assigned[v] # NoIP /\ assigned[v] = assigned[u] => v = u

Busy(w, v) == todo[w] # <<>> /\ vm[w] = v
Creating(w, v) == Busy(w, v) /\ v \in issued /\ record[v] = NoRecord

\* As long as the server has not died, an address is held by a VM that has a
\* record, so that it can be deleted, or by one that is being created; it leaks
\* only where an access to a file failed: Assign, which had written the pool, Put
\* at the end of Create (control.go:141), or Release, which drops its errors.
AssignedIsKnown ==
  crashes = 0 =>
    \A v \in VMs : assigned[v] # NoIP =>
      \/ record[v] # NoRecord \/ \E w \in Workers : Creating(w, v)
      \/ \E step \in {"assign", "put", "release"} : <<step, v>> \in failed

\* The same for containers, when one request is served at a time: whatever
\* docker does, a container without a record is one under construction, or one
\* whose record could not be written.
BoxIsKnown ==
  \A v \in VMs : box[v].state # "none" =>
    \/ record[v] # NoRecord \/ \E w \in Workers : Busy(w, v) /\ v \notin deleted
    \/ <<"put", v>> \in failed

\* One request at a time: a VM that was billed once, which is one whose creation
\* succeeded, holds the public address it shows for as long as it is on record,
\* whatever fails in later requests, except that Delete could not erase the
\* record after it had released the address (control.go:220-222).
ShownIsHeld ==
  \A v \in VMs : usage[v] # "none" /\ record[v] # NoRecord =>
    \/ record[v].ip = assigned[v] \/ \E w \in Workers : Busy(w, v)
    \/ <<"erase", v>> \in failed

\* One request at a time: a usage record is open only while its VM is on
\* record as started, so Stop or Delete will close it, except that closing it
\* has failed: Stop and Delete go on then (control.go:193, 212).
OpenUsageCloses ==
  \A v \in VMs : usage[v] = "open" =>
    \/ record[v] # NoRecord /\ record[v].started
    \/ \E w \in Workers : Busy(w, v)
    \/ <<"bill", v>> \in failed

\* A VM that was deleted (DELETE /v1/vms/{id}) is gone from the records.
DeletedStaysDeleted == \A v \in deleted : record[v] = NoRecord

=============================================================================
