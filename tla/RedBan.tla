------------------------------- MODULE RedBan -------------------------------
(* redban: a token bucket whose balance lives in a file, taken from by one  *)
(* process per command.  A process reads the file, takes its tokens, saves  *)
(* the balance through a temporary file and a rename, sleeps, and runs its  *)
(* command.  No lock is held on the file.  Time is counted in ticks, and    *)
(* tokens in what a tick refills (-rpm).                                    *)
EXTENDS Integers, Sequences

CONSTANTS Procs,       \* the processes, numbered in the order they are started
          Need,        \* of each, what it takes (-n)
          Args,        \* of each, "none", "dashes" or "command"
          Burst,       \* -burst
          MaxTime      \* bound: ticks

VARIABLES now,
          file, tmp,   \* the two files
          fd,          \* what the temporary file that a process has open has become
          proc,        \* the step of each process
          bal,         \* of each process, its Bucket: [tokens, last]
          wake,        \* of each process, when its sleep is over
          granted,     \* the takes whose save is over: the process, the time it was granted for,
                       \* and what all up to it took (history)
          alone        \* no two processes were between their load and their rename at once,
                       \* and every save succeeded (history)
vars == <<now, file, tmp, fd, proc, bal, wake, granted, alone>>

NoBucket == [tokens |-> 0, last |-> 0]
Absent == [is |-> "absent", b |-> NoBucket]
Empty == [is |-> "empty", b |-> NoBucket]         \* truncated and not written yet
Garbled == [is |-> "garbled", b |-> NoBucket]     \* two writers wrote over each other
Saved(b) == [is |-> "saved", b |-> b]

Init ==
  /\ now = 0 /\ file = Absent /\ tmp = Absent
  /\ fd = [p \in Procs |-> "none"] /\ proc = [p \in Procs |-> "new"]
  /\ bal = [p \in Procs |-> NoBucket] /\ wake = [p \in Procs |-> 0]
  /\ granted = <<>> /\ alone = TRUE

Tick == now < MaxTime /\ now' = now + 1 /\ UNCHANGED <<file, tmp, fd, proc, bal, wake, granted, alone>>

----------------------------------------------------------------------------
(* Open: a missing file means a full bucket; one that does not parse ends   *)
(* the program.                                                             *)
Busy == {"loaded", "saving", "written"}
Loaded == IF file = Absent THEN [tokens |-> Burst, last |-> now] ELSE file.b
Open(p) ==
  /\ proc[p] = "new" /\ \A q \in Procs : q < p => proc[q] # "new"
  /\ \/ /\ file \in {Empty, Garbled} /\ proc' = [proc EXCEPT ![p] = "failed"] /\ UNCHANGED <<bal, alone>>
     \/ /\ file \notin {Empty, Garbled}
        /\ proc' = [proc EXCEPT ![p] = "loaded"] /\ bal' = [bal EXCEPT ![p] = Loaded]
        /\ alone' = (alone /\ \A q \in Procs : proc[q] \notin Busy)
  /\ UNCHANGED <<now, file, tmp, fd, wake, granted>>

(* Take: refill up to the burst; what is missing is waited for, and the     *)
(* clock of the bucket is put at the end of the wait, so that the next      *)
(* process starts from a debt.                                              *)
Refilled(b) == LET t == b.tokens + (now - b.last) IN IF t > Burst THEN Burst ELSE t
Wait(b, n) == n - Refilled(b)
NowAfter(b, n) ==           \* leaves the clock where it was; used by a mutant
  IF Refilled(b) >= n THEN [tokens |-> Refilled(b) - n, last |-> now] ELSE [tokens |-> 0, last |-> now]
After(b, n) ==
  IF Refilled(b) >= n THEN [tokens |-> Refilled(b) - n, last |-> now]
  ELSE [tokens |-> 0, last |-> now + Wait(b, n)]
Take(p) ==
  /\ proc[p] = "loaded" /\ proc' = [proc EXCEPT ![p] = "saving"]
  /\ bal' = [bal EXCEPT ![p] = After(@, Need[p])]
  /\ wake' = [wake EXCEPT ![p] = now + (IF Refilled(bal[p]) >= Need[p] THEN 0 ELSE Wait(bal[p], Need[p]))]
  /\ UNCHANGED <<now, file, tmp, fd, granted, alone>>

(* saveLocked: the temporary file is truncated or created, written, and     *)
(* renamed over the balance.  Its name is the same for all processes: a     *)
(* process may find that what it has open was renamed or replaced by others.*)
Truncate(p) ==
  /\ proc[p] = "saving" /\ fd[p] = "none"
  /\ tmp' = Empty /\ fd' = [fd EXCEPT ![p] = "tmp"]
  /\ UNCHANGED <<now, file, proc, bal, wake, granted, alone>>
Written(p, old) == IF old = Empty THEN {Saved(bal[p])} ELSE {Saved(bal[p]), Garbled}
WriteTmp(p) ==
  /\ proc[p] = "saving" /\ fd[p] # "none" /\ proc' = [proc EXCEPT ![p] = "written"]
  /\ \/ fd[p] = "tmp" /\ tmp' \in Written(p, tmp) /\ UNCHANGED file
     \/ fd[p] = "file" /\ file' \in Written(p, file) /\ UNCHANGED tmp
     \/ fd[p] = "gone" /\ UNCHANGED <<file, tmp>>
  /\ UNCHANGED <<now, fd, bal, wake, granted, alone>>
Spent == IF granted = <<>> THEN 0 ELSE granted[Len(granted)].upto
Granted(p) == granted' = Append(granted, [p |-> p, at |-> wake[p], upto |-> Spent + Need[p]])
Rename(p) ==
  /\ proc[p] = "written" /\ proc' = [proc EXCEPT ![p] = "sleeping"] /\ Granted(p)
  /\ IF tmp = Absent THEN UNCHANGED <<file, tmp, fd>>
     ELSE /\ file' = tmp /\ tmp' = Absent
          /\ fd' = [q \in Procs |-> CASE q = p -> "none" [] q # p /\ fd[q] = "tmp" -> "file"
                                      [] q # p /\ fd[q] = "file" -> "gone" [] OTHER -> fd[q]]
  /\ UNCHANGED <<now, bal, wake, alone>>
(* The error of a save is ignored.                                          *)
SaveFails(p) ==
  /\ proc[p] \in {"saving", "written"} /\ proc' = [proc EXCEPT ![p] = "sleeping"] /\ Granted(p)
  /\ alone' = FALSE /\ fd' = [fd EXCEPT ![p] = "none"]
  /\ UNCHANGED <<now, file, tmp, bal, wake>>

Forget(p) == bal' = [bal EXCEPT ![p] = NoBucket] /\ wake' = [wake EXCEPT ![p] = 0]

(* main: after the sleep the command is run, if there is one.               *)
Run(p) ==
  /\ proc[p] = "sleeping" /\ now >= wake[p]
  /\ \E end \in CASE Args[p] = "none" -> {"ok"} [] Args[p] = "dashes" -> {"nothing to run"}
                  [] OTHER -> {"ok", "failed command"} :
       proc' = [proc EXCEPT ![p] = end]
  /\ Forget(p) /\ UNCHANGED <<now, file, tmp, fd, granted, alone>>

(* A process is killed while it works on the file; the files stay as they   *)
(* are.  One that is killed in its sleep just does not run its command.     *)
Kill(p) ==
  /\ proc[p] \in Busy /\ proc' = [proc EXCEPT ![p] = "killed"]
  /\ fd' = [fd EXCEPT ![p] = "none"]
  /\ Forget(p) /\ UNCHANGED <<now, file, tmp, granted, alone>>

Next == Tick \/ \E p \in Procs : \/ Open(p) \/ Take(p) \/ Truncate(p) \/ WriteTmp(p) \/ Rename(p)
                                 \/ SaveFails(p) \/ Run(p) \/ Kill(p)

----------------------------------------------------------------------------
(* Restarts do not reset the budget: while processes come one at a time,    *)
(* killed ones among them, every stretch of granted takes stays within the  *)
(* burst, or the first take when that is larger, and what the stretch       *)
(* refills (Take, load, saveLocked).                                        *)
Larger(m, n) == IF m > n THEN m ELSE n
BudgetSurvives ==
  alone => \A i, j \in DOMAIN granted : i <= j =>
    granted[j].upto - granted[i].upto + Need[granted[i].p]
      <= Larger(Need[granted[i].p], Burst) + (granted[j].at - granted[i].at)

(* No process is stopped by what another left in the file, wherever that    *)
(* one was killed; only processes that run at once can spoil it (rename).   *)
BalanceIsReadable == alone => file \notin {Empty, Garbled}
=============================================================================
