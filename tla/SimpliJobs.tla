----------------------------- MODULE SimpliJobs -----------------------------
(* simplijobs: shows the job postings that are new since the last check of  *)
(* their source.  The time of the last check is kept in a file that every   *)
(* command reads and writes as a whole; the postings are fetched from a     *)
(* repository that changes meanwhile.  Time is counted in seconds.          *)
EXTENDS Integers, Sequences, FiniteSets

CONSTANTS Listings,    \* the postings: [id, source, company, places]
          Commands,    \* what may be run: [op, source, all, company, place, limit]
          Sources,     \* the keys of sourceURLs
          Updates,     \* bound: how its date may change, <<posting, from, to>>
          Procs, MaxTime   \* the commands that are run, numbered in their order; bound: seconds

VARIABLES now,         \* time.Now of the commands
          repo,        \* of each posting, [at, visible]: its date_updated, 0 for not there yet
          file,        \* the state file: Absent, Truncated, or Saved with the times of the last checks
          proc,        \* of each process its step, its command and what it has read
          shown,       \* what was shown: [l, at], by whom and when (history)
          excused,     \* [l, at]: postings that a check left out by its options, or that appeared
                       \* too late for their date (history)
          alone        \* no two processes overlapped, none was killed and nothing was reset (history)
vars == <<now, repo, file, proc, shown, excused, alone>>

Fresh == [s \in {} |-> 0]
Absent == [is |-> "absent", state |-> Fresh]
Truncated == [is |-> "truncated", state |-> Fresh]
Saved(state) == [is |-> "saved", state |-> state]
NoCommand == [op |-> "none"]
Unstarted == [pc |-> "new", c |-> NoCommand, state |-> Fresh, got |-> {}]
Version(l) == [l |-> l, at |-> repo[l].at]

Init ==
  /\ now = 1 /\ repo = [l \in Listings |-> [at |-> 0, visible |-> FALSE]] /\ file = Absent
  /\ proc = [p \in Procs |-> Unstarted] /\ shown = {} /\ excused = {} /\ alone = TRUE

GetLastChecked(state, s) == IF s \in DOMAIN state THEN state[s] ELSE 0
SetLastChecked(state, s, t) == [x \in DOMAIN state \cup {s} |-> IF x = s THEN t ELSE state[x]]

Tick == now < MaxTime /\ now' = now + 1 /\ UNCHANGED <<repo, file, proc, shown, excused, alone>>

(* The repository gets a posting, or a posting gets a date.  Its            *)
(* date_updated is set there and need not be the time at which a check can  *)
(* find it: it may be of the past, or of the future.  A posting is too late *)
(* when a check of its source has fetched and not saved, or when it is not  *)
(* dated after a time that the file or a command remembers.                 *)
Fetched(p, s) == proc[p].pc \in {"fetched", "shown"} /\ proc[p].c.op = "check" /\ proc[p].c.source = s
Remembered == {file.state} \cup {proc[p].state : p \in Procs}
TooLate(s, d) == (\E p \in Procs : Fetched(p, s)) \/ \E state \in Remembered : d <= GetLastChecked(state, s)
Publish(l, d) ==
  /\ <<l, repo[l].at, d>> \in Updates
  /\ \E v \in BOOLEAN : repo' = [repo EXCEPT ![l] = [at |-> d, visible |-> v]]
  /\ excused' = IF TooLate(l.source, d) THEN excused \cup {[l |-> l, at |-> d]} ELSE excused
  /\ UNCHANGED <<now, file, proc, shown, alone>>

----------------------------------------------------------------------------
(* The filters of a check, and what they leave.                             *)
MatchesCompany(l, c) == c.company = "" \/ l.company = c.company
MatchesLocation(l, c) == c.place = "" \/ c.place \in l.places
SameOrNewer(c, last, at) == c.all \/ last = 0 \/ at >= last      \* used by a mutant
NewerThan(c, last, at) == c.all \/ last = 0 \/ at > last
Visible(r, s) == {l \in Listings : l.source = s /\ r[l].at > 0 /\ r[l].visible}
Filtered(c, got, last) == {v \in got : NewerThan(c, last, v.at) /\ MatchesCompany(v.l, c) /\ MatchesLocation(v.l, c)}
(* SortByDate and the limit: the newest ones, whichever of those of one date.*)
Limited(c, vs) ==
  IF c.limit = 0 \/ Cardinality(vs) <= c.limit THEN {vs}
  ELSE {o \in SUBSET vs : Cardinality(o) = c.limit /\ \A x \in o, y \in vs \ o : x.at >= y.at}

Running(p) == proc[p].pc \in {"loaded", "fetched", "shown", "write"}
Moves(p, pc, state, got) == proc' = [proc EXCEPT ![p] = [pc |-> pc, c |-> @.c, state |-> state, got |-> got]]
Ends(p, pc) == Moves(p, pc, Fresh, {})

(* store.Load: a file that does not parse ends the command.                 *)
Loaded == file.state
Start(p) ==
  /\ proc[p].pc = "new" /\ \A q \in Procs : q < p => proc[q].pc # "new"
  /\ \E c \in Commands :
       proc' = [proc EXCEPT ![p] =
         [c |-> c, got |-> {}, state |-> IF c.op = "check" THEN Loaded ELSE Fresh,
          pc |-> IF c.op = "check" /\ c.source \notin Sources THEN "invalid source"
                 ELSE IF file.is = "truncated" THEN "failed"
                 ELSE IF c.op = "status" THEN "done" ELSE "loaded"]]
  /\ alone' = (alone /\ \A q \in Procs : ~Running(q))
  /\ UNCHANGED <<now, repo, file, shown, excused>>

(* FetchListings may fail; then the time of the last check stays.           *)
Fetch(p) ==
  /\ proc[p].pc = "loaded" /\ proc[p].c.op = "check"
  /\ \/ Ends(p, "failed")
     \/ Moves(p, "fetched", proc[p].state,
              {[l |-> l, at |-> repo[l].at] : l \in Visible(repo, proc[p].c.source)})
  /\ UNCHANGED <<now, repo, file, shown, excused, alone>>

(* The result is shown, and what the options cut off will not come again.   *)
Show(p) ==
  LET c == proc[p].c
      last == GetLastChecked(proc[p].state, c.source)
      new == {v \in proc[p].got : NewerThan(c, last, v.at)} IN
  /\ proc[p].pc = "fetched"
  /\ \E out \in Limited(c, Filtered(c, proc[p].got, last)) :
       /\ shown' = shown \cup {[l |-> v.l, at |-> v.at, by |-> p, when |-> now] : v \in out}
       /\ excused' = excused \cup (new \ out)
  /\ Moves(p, "shown", proc[p].state, {}) /\ UNCHANGED <<now, repo, file, alone>>

(* The end of a check, and reset: the file is truncated and written.        *)
BeginSave(p) ==
  /\ \/ /\ proc[p].pc = "shown"
        /\ Moves(p, "write", SetLastChecked(proc[p].state, proc[p].c.source, now), {})
        /\ alone' = alone
     \/ /\ proc[p].pc = "loaded" /\ proc[p].c.op = "reset"
        /\ Moves(p, "write", Fresh, {}) /\ alone' = FALSE
  /\ file' = Truncated /\ UNCHANGED <<now, repo, shown, excused>>
EndSave(p) ==
  /\ proc[p].pc = "write" /\ file' = Saved(proc[p].state) /\ Ends(p, "done")
  /\ UNCHANGED <<now, repo, shown, excused, alone>>
SaveFails(p) ==
  /\ proc[p].pc = "shown" /\ Ends(p, "failed") /\ alone' = FALSE
  /\ UNCHANGED <<now, repo, file, shown, excused>>
Kill(p) ==
  /\ Running(p) /\ Ends(p, "failed") /\ alone' = FALSE
  /\ UNCHANGED <<now, repo, file, shown, excused>>

Next == \/ Tick \/ \E u \in Updates : Publish(u[1], u[3])
        \/ \E p \in Procs : Start(p) \/ Fetch(p) \/ Show(p) \/ BeginSave(p) \/ EndSave(p) \/ SaveFails(p) \/ Kill(p)

----------------------------------------------------------------------------
(* A posting that is not dated after the last check of its source was       *)
(* shown, unless the options of a check cut it off or it appeared too late: *)
(* between a check's fetch and its save, or with a date that was already    *)
(* checked.  This holds also when commands overlap, fail or are killed.     *)
(* And no check shows a posting again that an earlier one showed, unless    *)
(* all are asked for, the history was lost, or the posting was dated later  *)
(* than the time it was first shown at (runCheck, NewerThan, Save).         *)
NewIsShown ==
  /\ \A l \in Listings :
       repo[l].visible /\ repo[l].at > 0 /\ repo[l].at <= GetLastChecked(file.state, l.source)
         => Version(l) \in excused \/ \E s \in shown : s.l = l /\ s.at = repo[l].at
  /\ alone => \A s, t \in shown :
       s.by < t.by /\ s.l = t.l /\ s.at = t.at /\ s.at <= s.when => proc[t.by].c.all
=============================================================================
