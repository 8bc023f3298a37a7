------------------------------ MODULE PlateApi ------------------------------
(* plate's HTTP API and panel, its accounts store and its address pool, as  *)
(* a client sees them: who a request acts for, what was answered and is     *)
(* still there after a crash, and what is billed to whom.  The control      *)
(* plane's own races over one VM are the subject of PlateControl; here its  *)
(* operations are only as detailed as accounts and billing need.            *)
EXTENDS Integers, Sequences, FiniteSets, Ipv4

CONSTANTS Scripts,     \* the sequences of requests that may come: [op, tok, acct, vm, plan, blank];
                       \* accounts, tokens and VMs are named by the number of the request that
                       \* made them, 0 is none, and no request makes what is named -1
          Plans, Specs,\* the plans' names; what PLATE_IP_POOL may be
          MaxFailed    \* bound: requests for which an access to a file fails

VARIABLES script, up,  \* the server runs
          asked,       \* a server has run that was given a text for its pool (history)
          proc,        \* the step of each request, or its status once it is answered
          acts,        \* the account its token stands for; 0 for none
          inst,        \* its copy of the VM record
          answer,      \* the usage records a billing request was given
          files,       \* accounts, tokens, ledger, vms, pool (the assignments): [cut, rows]
          pool,        \* the addresses of the pool, in the pool's file
          holder, mem, \* who holds the mutex of the accounts store, and what it is to write
          before,      \* the requests that were answered when a request came (history)
          failed       \* the requests for which an access to a file has failed (history)
vars == <<script, up, asked, proc, acts, inst, answer, files, pool, holder, mem, before, failed>>
mutex == <<holder, mem>>
server == <<script, up, asked, pool, before>>

Procs == DOMAIN script
File == {"accounts", "tokens", "ledger", "vms", "pool"}
Whole(rows) == [cut |-> FALSE, rows |-> rows]
Cut == [cut |-> TRUE, rows |-> {}]
NoVm == [id |-> 0, account |-> 0, status |-> "none", started |-> FALSE]
NoRows == [name |-> "none", rows |-> {}]
Op(p) == script[p].op

Init ==
  /\ script \in Scripts /\ up = FALSE /\ asked = FALSE /\ pool = <<>>
  /\ proc = [p \in Procs |-> "new"] /\ acts = [p \in Procs |-> 0] /\ inst = [p \in Procs |-> NoVm]
  /\ answer = [p \in Procs |-> {}] /\ before = [p \in Procs |-> {}] /\ failed = {}
  /\ files = [f \in File |-> Whole({})] /\ holder = 0 /\ mem = NoRows

Goto(p, s) == proc' = [proc EXCEPT ![p] = s]
At(p, s) == up /\ proc[p] = s
Ok(p) == proc[p] = "200"

----------------------------------------------------------------------------
(* A request comes, naming only what its client was told of.                *)
Named(p) == {script[p].tok, script[p].acct, script[p].vm} \ {0, -1}
Begin(p) ==
  /\ At(p, "new") /\ \A q \in Procs : q < p => proc[q] # "new"
  /\ \A q \in Named(p) : Ok(q)
  /\ before' = [before EXCEPT ![p] = {q \in Procs : Ok(q)}]
  /\ Goto(p, CASE Op(p) = "account" -> IF script[p].blank THEN "400" ELSE "handle"
               [] Op(p) = "panel create" -> "handle"
               [] OTHER -> "has tokens")
  /\ UNCHANGED <<script, up, asked, acts, inst, answer, files, pool, mutex, failed>>

(* An access to a file fails.  A file that was left half written cannot be  *)
(* read again, and so is never written again.                               *)
Fault(p) == failed' = failed \cup {p} /\ Cardinality(failed') <= MaxFailed
Reads(p, fs) == (\A f \in fs : ~files[f].cut) /\ UNCHANGED failed
ReadFails(p, fs) == ((\E f \in fs : files[f].cut) /\ UNCHANGED failed) \/ Fault(p)
NoneOr(none, p, fs) == (none /\ UNCHANGED failed) \/ ReadFails(p, fs)

(* auth, and the head of handleCreateToken: two calls of the store, each    *)
(* under its mutex.                                                         *)
Anyhow == TRUE                    \* without the mutex; used by a mutant
Free == holder = 0
HasTokens(p) ==
  /\ At(p, "has tokens") /\ Free
  /\ \/ Reads(p, {"tokens"}) /\ Goto(p, IF files.tokens.rows = {} THEN "handle" ELSE "authenticate")
     \/ ReadFails(p, {"tokens"}) /\ Goto(p, "500")
  /\ UNCHANGED <<server, acts, inst, answer, files, mutex>>
Accepted(p) == {t \in files.tokens.rows : t.id = script[p].tok /\ t.account \in files.accounts.rows}
Authenticate(p) ==
  /\ At(p, "authenticate") /\ Free
  /\ \/ /\ Reads(p, {"tokens", "accounts"}) /\ Goto(p, "handle")
        /\ \E t \in Accepted(p) : acts' = [acts EXCEPT ![p] = t.account]
     \/ NoneOr(Accepted(p) = {}, p, {"tokens", "accounts"})
        /\ Goto(p, "401") /\ UNCHANGED acts
  /\ UNCHANGED <<server, inst, answer, files, mutex>>

----------------------------------------------------------------------------
(* The accounts store: a file is read, truncated and written, all under the *)
(* one mutex of its three files.                                            *)
Change(p, f, rows) == Goto(p, "truncate") /\ holder' = p /\ mem' = [name |-> f, rows |-> rows]
CreateAccount(p) ==
  /\ At(p, "handle") /\ Op(p) = "account" /\ Free
  /\ \/ Reads(p, {"accounts"}) /\ Change(p, "accounts", files.accounts.rows \cup {p})
     \/ ReadFails(p, {"accounts"}) /\ Goto(p, "400") /\ UNCHANGED mutex
  /\ UNCHANGED <<server, acts, inst, answer, files>>
CreateToken(p) ==
  /\ At(p, "handle") /\ Op(p) = "token" /\ Free
  /\ \/ /\ Reads(p, {"accounts", "tokens"}) /\ script[p].acct \in files.accounts.rows
        /\ Change(p, "tokens", files.tokens.rows \cup {[id |-> p, account |-> script[p].acct]})
     \/ /\ ReadFails(p, {"accounts", "tokens"}) /\ Goto(p, "400") /\ UNCHANGED mutex
  /\ UNCHANGED <<server, acts, inst, answer, files>>

(* Where a request goes on after a write, and when its error is told.       *)
After(p) == CASE Op(p) \in {"account", "token", "create"} -> "200"
              [] Op(p) = "stop" -> "put" [] OTHER -> "destroy"
Failed(p) == IF Op(p) \in {"account", "token"} THEN "400" ELSE After(p)
Unlock == holder' = 0 /\ mem' = NoRows
Truncate(p) ==
  /\ At(p, "truncate")
  /\ \/ Goto(p, "write") /\ files' = [files EXCEPT ![mem.name] = Cut] /\ UNCHANGED <<mutex, failed>>
     \/ Goto(p, Failed(p)) /\ Fault(p) /\ Unlock /\ UNCHANGED files
  /\ UNCHANGED <<server, acts, inst, answer>>
Write(p) ==
  /\ At(p, "write") /\ Unlock
  /\ \/ Goto(p, After(p)) /\ files' = [files EXCEPT ![mem.name] = Whole(mem.rows)] /\ UNCHANGED failed
     \/ Goto(p, Failed(p)) /\ Fault(p) /\ files' \in {files, [files EXCEPT ![mem.name] = Whole(mem.rows)]}
  /\ UNCHANGED <<server, acts, inst, answer>>

----------------------------------------------------------------------------
(* vms.json and ip-pool.json: one access, under the mutex of the file.      *)
Save(p, f, rows, ok) ==
  \/ ok /\ ~files[f].cut /\ files' = [files EXCEPT ![f] = Whole(rows)] /\ UNCHANGED failed
  \/ ~ok /\ files[f].cut /\ UNCHANGED <<files, failed>>
  \/ ~ok /\ ~files[f].cut /\ Fault(p) /\ files' \in {files} \cup {[files EXCEPT ![f] = c] : c \in {Cut, Whole(rows)}}

(* handleCreate and the panel's, which knows no account: the account is the *)
(* one the body names, or else the token's.  Without an address if the pool *)
(* is empty or cannot be read.                                              *)
AccountOf(p) == IF script[p].acct # 0 THEN script[p].acct ELSE acts[p]
Create(p) ==
  /\ At(p, "handle") /\ Op(p) \in {"create", "panel create"}
  /\ IF script[p].blank \/ script[p].plan \notin Plans THEN Goto(p, "400") /\ UNCHANGED <<inst, failed>>
     ELSE /\ inst' = [inst EXCEPT ![p] = [NoVm EXCEPT !.id = p, !.account = AccountOf(p)]]
          /\ \/ pool # <<>> /\ Reads(p, {"pool"}) /\ Goto(p, "assign")
             \/ NoneOr(pool = <<>>, p, {"pool"}) /\ Goto(p, "make")
  /\ UNCHANGED <<server, acts, answer, files, mutex>>
Taken == {a.ip : a \in files.pool.rows}
FreeAt == {i \in DOMAIN pool : pool[i] \notin Taken}
NextIP == pool[CHOOSE i \in FreeAt : \A j \in FreeAt : i <= j]
Assign(p) ==
  /\ At(p, "assign")
  /\ IF FreeAt = {} THEN Goto(p, "400") /\ UNCHANGED <<files, failed>>
     ELSE \E ok \in BOOLEAN : /\ Save(p, "pool", files.pool.rows \cup {[vm |-> p, ip |-> NextIP]}, ok)
                              /\ Goto(p, IF ok THEN "make" ELSE "400")
  /\ UNCHANGED <<server, acts, inst, answer, mutex>>

(* What the backend does, or refuses to do.                                 *)
Backend(p, status, next) == inst' = [inst EXCEPT ![p].status = status, ![p].started = (status = "running")] /\ Goto(p, next)
Make(p) ==
  /\ At(p, "make")
  /\ Backend(p, "running", "put") \/ Backend(p, "error", "release")
  /\ UNCHANGED <<server, acts, answer, files, mutex, failed>>
Start(p) ==
  /\ At(p, "starting")
  /\ Backend(p, "running", "put") \/ (Goto(p, "400") /\ UNCHANGED inst)
  /\ UNCHANGED <<server, acts, answer, files, mutex, failed>>
Stop(p) ==
  /\ At(p, "stopping")
  /\ \/ Backend(p, "stopped", IF inst[p].account # 0 /\ inst[p].started THEN "close usage" ELSE "put")
     \/ Goto(p, "400") /\ UNCHANGED inst
  /\ UNCHANGED <<server, acts, answer, files, mutex, failed>>
Destroy(p) ==
  /\ At(p, "destroy") /\ (Goto(p, "release") \/ Goto(p, "400"))
  /\ UNCHANGED <<server, acts, inst, answer, files, mutex, failed>>

(* Release tells no error, and only Create and Delete tell one of the       *)
(* record's.                                                                *)
Release(p) ==
  /\ At(p, "release") /\ Goto(p, IF Op(p) = "delete" THEN "erase" ELSE "put")
  /\ \E ok \in BOOLEAN : Save(p, "pool", {a \in files.pool.rows : a.vm # inst[p].id}, ok)
  /\ UNCHANGED <<server, acts, inst, answer, mutex>>
Put(p) ==
  /\ At(p, "put")
  /\ \E ok \in BOOLEAN :
       /\ Save(p, "vms", {w \in files.vms.rows : w.id # inst[p].id} \cup {inst[p]}, ok)
       /\ Goto(p, IF Op(p) \in {"start", "stop"} THEN "200"
                  ELSE IF ~ok \/ inst[p].status = "error" THEN "400"
                  ELSE IF inst[p].account = 0 THEN "200" ELSE "record usage")
  /\ UNCHANGED <<server, acts, inst, answer, mutex>>
Erase(p) ==
  /\ At(p, "erase")
  /\ \E ok \in BOOLEAN : /\ Save(p, "vms", {w \in files.vms.rows : w.id # inst[p].id}, ok)
                         /\ Goto(p, IF ok THEN "200" ELSE "400")
  /\ UNCHANGED <<server, acts, inst, answer, mutex>>

(* start, stop and delete: the record is read, and written at the end.      *)
Read(p) ==
  LET found == {v \in files.vms.rows : v.id = script[p].vm} IN
  /\ At(p, "handle") /\ Op(p) \in {"start", "stop", "delete"}
  /\ \/ ReadFails(p, {"vms"}) /\ Goto(p, "400") /\ UNCHANGED inst
     \/ /\ Reads(p, {"vms"}) /\ found = {}
        /\ Goto(p, IF Op(p) = "delete" THEN "404" ELSE "400") /\ UNCHANGED inst
     \/ /\ Reads(p, {"vms"})
        /\ \E v \in found :
             /\ inst' = [inst EXCEPT ![p] = v]
             /\ Goto(p, CASE Op(p) = "start" -> "starting"
                          [] Op(p) = "stop" -> "stopping"
                          [] OTHER -> IF v.account # 0 /\ v.started THEN "close usage" ELSE "destroy")
  /\ UNCHANGED <<server, acts, answer, files, mutex>>

(* The errors of the two are dropped.                                       *)
RecordUsage(p) ==
  /\ At(p, "record usage") /\ Free
  /\ \/ /\ Reads(p, {"ledger"})
        /\ Change(p, "ledger", files.ledger.rows \cup {[vm |-> p, account |-> inst[p].account, open |-> TRUE]})
     \/ ReadFails(p, {"ledger"}) /\ Goto(p, "200") /\ UNCHANGED mutex
  /\ UNCHANGED <<server, acts, inst, answer, files>>
CloseUsage(p) ==
  LET open == {u \in files.ledger.rows : u.vm = inst[p].id /\ u.open} IN
  /\ At(p, "close usage") /\ Free
  /\ \/ /\ Reads(p, {"ledger"})
        /\ \E u \in open : Change(p, "ledger", (files.ledger.rows \ {u}) \cup {[u EXCEPT !.open = FALSE]})
     \/ NoneOr(open = {}, p, {"ledger"}) /\ Goto(p, After(p)) /\ UNCHANGED mutex
  /\ UNCHANGED <<server, acts, inst, answer, files>>

(* handleBilling: the account that was asked for, or else the token's, or   *)
(* all; and the pool's status.                                              *)
Billing(p) ==
  /\ At(p, "handle") /\ Op(p) = "billing" /\ Free
  /\ \/ /\ Reads(p, {"ledger"}) /\ Goto(p, "200")
        /\ answer' = [answer EXCEPT ![p] = {u \in files.ledger.rows : AccountOf(p) \in {0, u.account}}]
     \/ ReadFails(p, {"ledger"}) /\ Goto(p, "500") /\ UNCHANGED answer
  /\ UNCHANGED <<server, acts, inst, files, mutex>>
PoolStatus == [total |-> Len(pool), used |-> Cardinality(files.pool.rows),
               free |-> Len(pool) - Cardinality(files.pool.rows)]

(* The server stops at any instruction; requests it was serving are lost,   *)
(* and a file one of them was writing may be left half written.             *)
Answered == {"200", "400", "401", "404", "500"}
Writing(p) == CASE proc[p] \in {"assign", "release"} -> {"pool"} [] proc[p] \in {"put", "erase"} -> {"vms"} [] OTHER -> {}
Crash ==
  /\ up /\ up' = FALSE /\ Unlock
  /\ \E cut \in SUBSET UNION {Writing(p) : p \in Procs} :
       files' = [f \in File |-> IF f \in cut THEN Cut ELSE files[f]]
  /\ proc' = [p \in Procs |-> IF proc[p] \in {"new"} \cup Answered THEN proc[p] ELSE "lost"]
  /\ UNCHANGED <<script, asked, acts, inst, answer, pool, before, failed>>

(* A server starts, perhaps with another text for its pool, which counts    *)
(* only while the pool is empty.  It ends at once if it cannot read the     *)
(* pool, the text is refused or the pool cannot be written.                 *)
Boot ==
  \E spec \in Specs :
    /\ ~up /\ ~files.pool.cut
    /\ \/ /\ pool # <<>> \/ spec = <<>>
          /\ up' = TRUE /\ UNCHANGED <<files, pool>>
       \/ /\ pool = <<>> /\ spec # <<>> /\ ParsePoolSpec(spec) # <<>>
          /\ up' = TRUE /\ pool' = ParsePoolSpec(spec) /\ UNCHANGED files
       \/ /\ pool = <<>> /\ spec # <<>> /\ UNCHANGED <<up, pool>>
          /\ UNCHANGED files \/ (ParsePoolSpec(spec) # <<>> /\ files' = [files EXCEPT !.pool = Cut])
    /\ asked' = (asked \/ (up' /\ spec # <<>>))
    /\ UNCHANGED <<script, proc, acts, inst, answer, mutex, before, failed>>

Next == \/ Crash \/ Boot
        \/ \E p \in Procs : \/ Begin(p) \/ HasTokens(p) \/ Authenticate(p)
                            \/ CreateAccount(p) \/ CreateToken(p) \/ Truncate(p) \/ Write(p)
                            \/ Create(p) \/ Assign(p) \/ Make(p) \/ Release(p) \/ Put(p) \/ Erase(p)
                            \/ RecordUsage(p) \/ Read(p) \/ Start(p) \/ Stop(p)
                            \/ CloseUsage(p) \/ Destroy(p) \/ Billing(p)

----------------------------------------------------------------------------
(* What was answered stays: while a file was never left half written, every *)
(* account and token that was answered is in it, with the account it was    *)
(* made for, and every VM that was answered for an account has one usage    *)
(* record under that account, unless an access to a file failed for that    *)
(* very request, whose error RecordUsage's caller drops (control.go:146);   *)
(* whatever requests ran at once and wherever the server stopped.           *)
AnswersLast ==
  \A p \in Procs : Ok(p) =>
    /\ Op(p) = "account" /\ ~files.accounts.cut => p \in files.accounts.rows
    /\ Op(p) = "token" /\ ~files.tokens.cut => [id |-> p, account |-> script[p].acct] \in files.tokens.rows
    /\ Op(p) = "create" /\ inst[p].account # 0 /\ ~files.ledger.cut /\ p \notin failed =>
         Cardinality({u \in files.ledger.rows : u.vm = p /\ u.account = inst[p].account}) = 1

(* A request that came after a token had been answered is served only with  *)
(* a token that was answered, but for new accounts and the panel; also when *)
(* the server stopped in between and a file no longer parses (auth,         *)
(* handleCreateToken).                                                      *)
Guarded(p) == \E q \in before[p] : Op(q) = "token"
TokenRequired ==
  \A p \in Procs : Guarded(p) /\ proc[p] \notin {"has tokens", "authenticate", "401", "500", "lost"} =>
    Op(p) \in {"account", "panel create"} \/ (script[p].tok > 0 /\ Op(script[p].tok) = "token")

(* What a VM made with a token costs is billed to the account the request   *)
(* named, or else to the token's own; an account that asks for its usage    *)
(* gets its own records only, and one of every VM that had been answered to *)
(* it before it asked, but for those of AnswersLast's exception             *)
(* (handleCreate, handleBilling).                                           *)
BilledRight ==
  /\ \A p \in Procs : Op(p) = "create" /\ script[p].tok > 0 /\ Guarded(p) =>
       \A u \in files.ledger.rows : u.vm = p =>
         u.account = IF script[p].acct # 0 THEN script[p].acct ELSE script[script[p].tok].acct
  /\ \A p \in Procs : Op(p) = "billing" /\ Ok(p) /\ Guarded(p) /\ script[p].acct = 0 =>
       LET own == script[script[p].tok].acct IN
       /\ \A u \in answer[p] : u.account = own
       /\ \A q \in before[p] \ failed : Op(q) = "create" /\ inst[q].account = own =>
            \E u \in answer[p] : u.vm = q

(* A pool is the hosts of a text that was accepted, each once, and once a   *)
(* server has run with a text there is one; no two VMs have one address,    *)
(* and no more are used than the pool has (parsePoolSpec, init, Assign,     *)
(* Status).                                                                 *)
Accepts(s) == s # <<>> /\ \A i \in DOMAIN s : s[i].kind \notin {"malformed", "ipv6 cidr"}
PoolsMeant == {UNION {HostsOf(s[i]) : i \in DOMAIN s} : s \in {t \in Specs : Accepts(t)}}
PoolIsSpec ==
  /\ pool # <<>> => Len(pool) = Cardinality(Range(pool)) /\ Range(pool) \in PoolsMeant
  /\ asked => pool # <<>>
  /\ PoolStatus.free >= 0 /\ Cardinality(Taken) = PoolStatus.used
=============================================================================
