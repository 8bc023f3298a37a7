-------------------------- MODULE MovieOrchestrator --------------------------
(* The task orchestrator of the movie finder (movie/internal/orchestrator,  *)
(* cmd/orchestrator): API handlers that record a task in a map without a    *)
(* lock and put it in the manager's channel, the scheduler loop, and one    *)
(* worker whose tasks run as processes.  A write of a Go map that overlaps  *)
(* another may stop the program ("fatal error: concurrent map writes").     *)
EXTENDS Integers, Sequences, FiniteSets, SequencesExt

CONSTANTS Posts,       \* the POST requests that may come
          IdOf,        \* of each, the task id it asks for
          PendingCap, QueueCap

VARIABLES post,        \* the state of each handler
          pending,     \* the manager's channel
          manager,     \* the task the scheduler holds: a sequence of at most one
          queue,       \* the worker's channel
          worker,      \* the task its loop holds, with its step
          proc,        \* the state of each started process
          taskDb, workerDb,  \* the two maps: the state last written for an id
          crashed,     \* the runtime stopped the program
          accepted, started  \* the tasks in the order they entered the channel, and were started (history)
vars == <<post, pending, manager, queue, worker, proc, taskDb, workerDb, crashed, accepted, started>>

Put(f, k, v) == [x \in DOMAIN f \cup {k} |-> IF x = k THEN v ELSE f[x]]
Idle == [p |-> <<>>, step |-> "take"]

Init ==
  /\ post = [p \in Posts |-> "new"] /\ proc = [p \in Posts |-> "none"]
  /\ pending = <<>> /\ manager = <<>> /\ queue = <<>> /\ worker = Idle
  /\ taskDb = [i \in {} |-> 0] /\ workerDb = [i \in {} |-> 0] /\ crashed = FALSE
  /\ accepted = <<>> /\ started = <<>>

----------------------------------------------------------------------------
(* SubmitTaskHandler.  A wrong method or a body that is no task is refused; *)
(* otherwise the task is written to the map and then sent to the channel,   *)
(* where the handler waits while it is full.                                *)
Decode(p) ==
  /\ post[p] = "new"
  /\ post' = [post EXCEPT ![p] = "refused"] \/ post' = [post EXCEPT ![p] = "writing"]
  /\ UNCHANGED <<pending, manager, queue, worker, proc, taskDb, workerDb, crashed, accepted, started>>
Record(p) ==
  /\ post[p] = "writing"
  /\ crashed' \in IF \E q \in Posts \ {p} : post[q] = "writing" THEN BOOLEAN ELSE {FALSE}
  /\ taskDb' = Put(taskDb, IdOf[p], "pending") /\ post' = [post EXCEPT ![p] = "sending"]
  /\ UNCHANGED <<pending, manager, queue, worker, proc, workerDb, accepted, started>>
Room == Len(pending) < PendingCap
Sent(p) == Append(pending, p)
Submit(p) ==
  /\ post[p] = "sending" /\ Room
  /\ pending' = Sent(p) /\ accepted' = Append(accepted, p)
  /\ post' = [post EXCEPT ![p] = "created"]
  /\ UNCHANGED <<manager, queue, worker, proc, taskDb, workerDb, crashed, started>>

(* The scheduler takes the next task, and gives it to the first worker,     *)
(* waiting while the worker's channel is full.                              *)
Schedule ==
  /\ manager = <<>> /\ pending # <<>> /\ manager' = <<Head(pending)>> /\ pending' = Tail(pending)
  /\ UNCHANGED <<post, queue, worker, proc, taskDb, workerDb, crashed, accepted, started>>
Jumped(t) == <<t>> \o queue                      \* puts the newest first; used by a mutant
Enqueued(t) == Append(queue, t)
SendWork ==
  /\ manager # <<>> /\ Len(queue) < QueueCap /\ queue' = Enqueued(Head(manager)) /\ manager' = <<>>
  /\ UNCHANGED <<post, pending, worker, proc, taskDb, workerDb, crashed, accepted, started>>

(* The worker's loop and RunTask: a record, the start of the process, a     *)
(* second record.  The goroutine that waits for a process writes the same   *)
(* map when it ends.                                                        *)
Ending == {p \in Posts : proc[p] \in {"ended ok", "ended failed"}}
Take ==
  /\ worker.step = "take" /\ queue # <<>>
  /\ worker' = [p |-> <<Head(queue)>>, step |-> "record"] /\ queue' = Tail(queue)
  /\ UNCHANGED <<post, pending, manager, proc, taskDb, workerDb, crashed, accepted, started>>
RunTask ==
  LET p == Head(worker.p) IN
  /\ worker.step = "record"
  /\ crashed' \in IF Ending # {} THEN BOOLEAN ELSE {FALSE}
  /\ started' = Append(started, p)
  /\ \/ /\ proc' = [proc EXCEPT ![p] = "running"] /\ workerDb' = Put(workerDb, IdOf[p], <<p, "running">>)
     \/ /\ proc' = [proc EXCEPT ![p] = "not started"] /\ workerDb' = Put(workerDb, IdOf[p], <<p, "failed">>)
  /\ worker' = Idle
  /\ UNCHANGED <<post, pending, manager, queue, taskDb, accepted>>
Ends(p) ==
  /\ proc[p] = "running"
  /\ proc' = [proc EXCEPT ![p] = "ended ok"] \/ proc' = [proc EXCEPT ![p] = "ended failed"]
  /\ UNCHANGED <<post, pending, manager, queue, worker, taskDb, workerDb, crashed, accepted, started>>
Outcome(p) == IF proc[p] = "ended ok" THEN "completed" ELSE "failed"
Waited(p) ==
  /\ proc[p] \in {"ended ok", "ended failed"}
  /\ crashed' \in IF Ending # {p} \/ worker.step = "record" THEN BOOLEAN ELSE {FALSE}
  /\ workerDb' = Put(workerDb, IdOf[p], <<p, Outcome(p)>>)
  /\ proc' = [proc EXCEPT ![p] = Outcome(p)]
  /\ UNCHANGED <<post, pending, manager, queue, worker, taskDb, accepted, started>>

Next == /\ ~crashed
        /\ \/ Schedule \/ SendWork \/ Take \/ RunTask
           \/ \E p \in Posts : Decode(p) \/ Record(p) \/ Submit(p) \/ Ends(p) \/ Waited(p)
Spec == Init /\ [][Next]_vars

----------------------------------------------------------------------------
(* A task that was accepted is started once, in the order of acceptance,    *)
(* unless the program stops: between the two channels and the two loops     *)
(* none is lost, doubled or overtaken (Manager.Start, SendWork, main).      *)
TasksInOrder ==
  /\ started \o worker.p \o queue \o manager \o pending = accepted
  /\ \A k, n \in DOMAIN accepted : k # n => accepted[k] # accepted[n]
  /\ \A p \in Posts : post[p] = "created" <=> p \in Range(accepted)

(* Once everything is over the worker's map tells, of a task id that was    *)
(* used once, how its process ended; of one used twice it tells of the one  *)
(* whose record was written last, which need not be the later task.         *)
WorkerKnows ==
  \A p \in Posts : proc[p] \in {"completed", "failed", "not started"}
                   /\ (\A q \in Posts \ {p} : IdOf[q] # IdOf[p] \/ proc[q] = "none")
    => workerDb[IdOf[p]] = <<p, IF proc[p] = "completed" THEN "completed" ELSE "failed">>
=============================================================================
