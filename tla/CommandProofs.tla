---------------------------- MODULE CommandProofs ----------------------------
(***************************************************************************)
(* Proofs about the programs of Network whose processes meet in a file:    *)
(* simplijobs, redban and ipv1.  The last section has their theorems.      *)
(***************************************************************************)
EXTENDS Network, SequenceTheorems, TLAPS

----------------------------------------------------------------------------
(* simplijobs: each time that is remembered, in the file or by a process,   *)
(* is one up to which everything was told; and while the commands run one   *)
(* after the other, the file's time covers all that was shown and was not  *)
(* dated later.                                                             *)

Times == UNION {[S -> Nat] : S \in SUBSET Sources}
JobSteps == {"new", "invalid source", "failed", "done", "loaded", "fetched", "shown", "write"}
JobsTypes ==
  /\ clock \in Nat
  /\ repo \in [Listings -> [at : Nat, visible : BOOLEAN]]
  /\ file \in [is : {"absent", "truncated", "saved"}, state : Times]
  /\ command \in [Turns -> [pc : JobSteps, c : Commands \cup {SJ!NoCommand}, state : Times,
                            got : SUBSET [l : Listings, at : Nat]]]
  /\ shown \subseteq [l : Listings, at : Nat, by : Turns, when : Nat]

(* What a check holds is of its source, and shown before now.               *)
NoneLater == \A s \in shown : s.when <= clock
Checking(p) == command[p].pc \in {"fetched", "shown"} \/ (command[p].pc = "loaded" /\ command[p].c.op = "check")
OfItsSource ==
  /\ \A p \in Turns : Checking(p) => command[p].c.op = "check" /\ command[p].c.source \in Sources
  /\ \A p \in Turns : \A v \in command[p].got : v.l.source = command[p].c.source /\ v.at > 0
  /\ \A s \in shown : command[s.by].pc \in {"shown", "write", "done", "failed"}
  /\ \A s \in shown : command[s.by].pc = "shown" => s.l.source = command[s.by].c.source

(* A posting in its present version was shown or is excused.                *)
PostingTold(l) == SJ!Version(l) \in excused \/ \E s \in shown : s.l = l /\ s.at = repo[l].at
MustTell(l) == repo[l].visible /\ repo[l].at > 0
Told ==
  /\ \A state \in SJ!Remembered : \A l \in Listings :
       MustTell(l) /\ repo[l].at <= SJ!GetLastChecked(state, l.source) => PostingTold(l)
  /\ \A p \in Turns : command[p].pc = "fetched" => \A l \in Listings :
       MustTell(l) /\ l.source = command[p].c.source => SJ!Version(l) \in excused \cup command[p].got
  /\ \A p \in Turns : command[p].pc = "shown" => \A l \in Listings :
       MustTell(l) /\ l.source = command[p].c.source => PostingTold(l)

(* One after the other.                                                     *)
InTurn == \A p, q \in Turns : q < p /\ command[p].pc # "new" => command[q].pc # "new"
OneByOne == alone => \A p, q \in Turns : q < p /\ command[p].pc # "new" => ~SJ!Running(q)
Covers(state, s) == s.at <= s.when => s.at <= SJ!GetLastChecked(state, s.l.source)
Covered ==
  alone =>
    /\ file.is # "truncated" => \A s \in shown : command[s.by].pc = "shown" \/ Covers(file.state, s)
    /\ \A p \in Turns : command[p].pc = "write" => \A s \in shown : Covers(command[p].state, s)
    /\ \A p \in Turns : Checking(p) => file.is # "truncated" /\ command[p].state = file.state
ShownOnce ==
  alone => \A s, t \in shown : s.by < t.by /\ s.l = t.l /\ s.at = t.at /\ s.at <= s.when => command[t.by].c.all

JobsInv == JobsTypes /\ NoneLater /\ OfItsSource /\ Told /\ InTurn /\ OneByOne /\ Covered /\ ShownOnce

(* The times of a state.                                                    *)
LEMMA TimesOf ==
  ASSUME NEW state \in Times, NEW s
  PROVE SJ!GetLastChecked(state, s) \in Nat /\ (s \notin DOMAIN state => SJ!GetLastChecked(state, s) = 0)
BY DEF Times, SJ!GetLastChecked

LEMMA NewTime ==
  ASSUME NEW state \in Times, NEW s \in Sources, NEW t \in Nat
  PROVE /\ SJ!SetLastChecked(state, s, t) \in Times
        /\ \A x : SJ!GetLastChecked(SJ!SetLastChecked(state, s, t), x)
                    = IF x = s THEN t ELSE SJ!GetLastChecked(state, x)
        /\ \A x \in DOMAIN SJ!SetLastChecked(state, s, t) :
             SJ!SetLastChecked(state, s, t)[x] = IF x = s THEN t ELSE state[x]
        /\ DOMAIN SJ!SetLastChecked(state, s, t) = DOMAIN state \cup {s}
<1> DEFINE new == SJ!SetLastChecked(state, s, t)
<1>1. PICK S \in SUBSET Sources : state \in [S -> Nat]
  BY DEF Times
<1>2. new \in [S \cup {s} -> Nat] /\ \A x \in S \cup {s} : new[x] = IF x = s THEN t ELSE state[x]
  BY <1>1 DEF SJ!SetLastChecked
<1>3. S \cup {s} \in SUBSET Sources
  OBVIOUS
<1>4. new \in Times
  BY <1>2, <1>3 DEF Times
<1>5. DOMAIN new = S \cup {s} /\ DOMAIN state = S
  BY <1>1, <1>2
<1> HIDE DEF new
<1>6. \A x : SJ!GetLastChecked(new, x) = IF x = s THEN t ELSE SJ!GetLastChecked(state, x)
  BY <1>2, <1>5 DEF SJ!GetLastChecked
<1> QED BY <1>2, <1>4, <1>5, <1>6 DEF new

LEMMA FreshTimes ==
  SJ!Fresh \in Times /\ DOMAIN SJ!Fresh = {} /\ \A s : SJ!GetLastChecked(SJ!Fresh, s) = 0
<1>1. SJ!Fresh \in [{} -> Nat] /\ {} \in SUBSET Sources
  BY DEF SJ!Fresh
<1> QED BY <1>1 DEF Times, SJ!GetLastChecked, SJ!Fresh

LEMMA JobsInvInit == SJ!Init => JobsInv
<1> SUFFICES ASSUME SJ!Init PROVE JobsInv
  OBVIOUS
<1> USE DEF SJ!Init
<1>1. \A p \in Turns : command[p] = [pc |-> "new", c |-> SJ!NoCommand, state |-> SJ!Fresh, got |-> {}]
  BY DEF SJ!Unstarted
<1>2. JobsTypes
  BY FreshTimes DEF JobsTypes, JobSteps, SJ!Unstarted, SJ!Absent
<1>3. \A state \in SJ!Remembered : state = SJ!Fresh
  BY <1>1 DEF SJ!Remembered, SJ!Absent
<1>4. NoneLater
  BY DEF NoneLater
<1>5. OfItsSource /\ InTurn /\ OneByOne /\ ShownOnce
  BY <1>1 DEF OfItsSource, Checking, InTurn, OneByOne, ShownOnce
<1>6. Told
  BY <1>1, <1>3 DEF Told, MustTell
<1>7. Covered
  BY <1>1 DEF Covered, Checking
<1> QED BY <1>2, <1>4, <1>5, <1>6, <1>7 DEF JobsInv

LEMMA TickKeepsJobs == ASSUME JobsInv, SJ!Tick PROVE JobsInv'
<1> USE DEF JobsInv, SJ!Tick
<1>1. JobsTypes' /\ clock \in Nat /\ clock' = clock + 1
  BY DEF JobsTypes
<1>2. SJ!Remembered' = SJ!Remembered
  BY DEF SJ!Remembered
<1>3. NoneLater'
  BY <1>1 DEF NoneLater, JobsTypes
<1>4. OfItsSource' /\ InTurn' /\ OneByOne' /\ ShownOnce' /\ Covered'
  BY DEF OfItsSource, Checking, InTurn, OneByOne, SJ!Running, ShownOnce, Covered, Covers
<1>5. Told'
  BY <1>2 DEF Told, MustTell, PostingTold, SJ!Version
<1> QED BY <1>1, <1>3, <1>4, <1>5

LEMMA PublishKeepsJobs ==
  ASSUME JobsInv, NEW m \in Listings, NEW d \in Nat, SJ!Publish(m, d)
  PROVE JobsInv'
<1> USE DEF JobsInv, SJ!Publish
<1>1. PICK v \in BOOLEAN : repo' = [repo EXCEPT ![m] = [at |-> d, visible |-> v]]
  OBVIOUS
<1>2. /\ clock \in Nat /\ clock' = clock /\ file' = file /\ command' = command /\ shown' = shown /\ alone' = alone
      /\ excused \subseteq excused'
  BY DEF JobsTypes
<1>3. repo'[m] = [at |-> d, visible |-> v] /\ \A l \in Listings \ {m} : repo'[l] = repo[l]
  BY <1>1 DEF JobsTypes
<1>4. JobsTypes'
  BY <1>1, <1>2 DEF JobsTypes
<1>5. SJ!Remembered' = SJ!Remembered
  BY <1>2 DEF SJ!Remembered
<1>6. NoneLater'
  BY <1>2 DEF NoneLater
<1>7. OfItsSource' /\ InTurn' /\ OneByOne' /\ ShownOnce' /\ Covered'
  BY <1>2 DEF OfItsSource, Checking, InTurn, OneByOne, SJ!Running, ShownOnce, Covered, Covers
<1>8. \A l \in Listings \ {m} : /\ MustTell(l)' <=> MustTell(l)
                               /\ SJ!Version(l)' = SJ!Version(l)
                               /\ PostingTold(l) => PostingTold(l)'
  BY <1>2, <1>3 DEF MustTell, SJ!Version, PostingTold
<1>9. SJ!TooLate(m.source, d) => SJ!Version(m)' \in excused' /\ PostingTold(m)'
  BY <1>3 DEF SJ!Version, PostingTold
<1>10. Told'
  <2>1. ASSUME NEW state \in SJ!Remembered, NEW l \in Listings, MustTell(l)',
               repo'[l].at <= SJ!GetLastChecked(state, l.source)
        PROVE PostingTold(l)'
    <3>1. CASE l # m
      BY <1>3, <1>8, <2>1, <3>1 DEF Told, MustTell, PostingTold, SJ!Version
    <3>2. CASE l = m
      <4>1. SJ!TooLate(m.source, d)
        BY <1>3, <2>1, <3>2 DEF SJ!TooLate
      <4> QED BY <1>9, <3>2, <4>1
    <3> QED BY <3>1, <3>2
  <2>2. ASSUME NEW p \in Turns, command[p].pc \in {"fetched", "shown"}, NEW l \in Listings, MustTell(l)',
               l.source = command[p].c.source, l = m
        PROVE SJ!Version(l)' \in excused' /\ PostingTold(l)'
    <3>1. command[p].c.op = "check"
      BY <2>2 DEF OfItsSource, Checking
    <3>2. SJ!TooLate(m.source, d)
      BY <2>2, <3>1 DEF SJ!TooLate, SJ!Fetched
    <3> QED BY <1>9, <2>2, <3>2
  <2>3. ASSUME NEW p \in Turns, command[p].pc = "fetched", NEW l \in Listings, MustTell(l)', l.source = command[p].c.source
        PROVE SJ!Version(l)' \in excused' \cup command[p].got
    BY <1>2, <1>8, <2>2, <2>3 DEF Told, MustTell, PostingTold, SJ!Version
  <2>4. ASSUME NEW p \in Turns, command[p].pc = "shown", NEW l \in Listings, MustTell(l)', l.source = command[p].c.source
        PROVE PostingTold(l)'
    BY <1>2, <1>8, <2>2, <2>4 DEF Told, MustTell, PostingTold, SJ!Version
  <2> QED BY <1>2, <1>5, <2>1, <2>3, <2>4 DEF Told
<1> QED BY <1>4, <1>6, <1>7, <1>10

(* What a step of one process leaves as it is.                              *)
LEMMA ProcessMoves ==
  ASSUME JobsInv, NEW p \in Turns, NEW new, command' = [command EXCEPT ![p] = new],
         UNCHANGED <<clock, repo, shown, excused>>
  PROVE /\ command'[p] = new /\ \A q \in Turns \ {p} : command'[q] = command[q]
        /\ \A l : /\ MustTell(l)' <=> MustTell(l)
                  /\ SJ!Version(l)' = SJ!Version(l)
                  /\ PostingTold(l)' <=> PostingTold(l)
        /\ SJ!Remembered' \subseteq SJ!Remembered \cup {file'.state, new.state}
BY DEF JobsInv, JobsTypes, MustTell, SJ!Version, PostingTold, SJ!Remembered

LEMMA StartKeepsJobs == ASSUME JobsInv, NEW p \in Turns, SJ!Start(p) PROVE JobsInv'
<1> USE DEF JobsInv
<1>1. PICK c \in Commands : command' = [command EXCEPT ![p] =
         [c |-> c, got |-> {}, state |-> IF c.op = "check" THEN SJ!Loaded ELSE SJ!Fresh,
          pc |-> IF c.op = "check" /\ c.source \notin Sources THEN "invalid source"
                 ELSE IF file.is = "truncated" THEN "failed"
                 ELSE IF c.op = "status" THEN "done" ELSE "loaded"]]
  BY DEF SJ!Start
<1> DEFINE new ==
         [c |-> c, got |-> {}, state |-> IF c.op = "check" THEN SJ!Loaded ELSE SJ!Fresh,
          pc |-> IF c.op = "check" /\ c.source \notin Sources THEN "invalid source"
                 ELSE IF file.is = "truncated" THEN "failed"
                 ELSE IF c.op = "status" THEN "done" ELSE "loaded"]
<1>2. /\ command[p].pc = "new" /\ \A q \in Turns : q < p => command[q].pc # "new"
      /\ clock' = clock /\ repo' = repo /\ file' = file /\ shown' = shown /\ excused' = excused
      /\ alone' => alone /\ \A q \in Turns : ~SJ!Running(q)
  BY DEF SJ!Start
<1>3. /\ new.got = {} /\ new.c = c /\ new.state \in {SJ!Fresh, file.state}
      /\ new.pc \in {"invalid source", "failed", "done", "loaded"}
      /\ new.pc = "loaded" => file.is # "truncated"
      /\ new.pc = "loaded" /\ c.op = "check" => c.source \in Sources /\ new.state = file.state
      /\ new = [pc |-> new.pc, c |-> c, state |-> new.state, got |-> {}]
  BY DEF SJ!Loaded
<1>4. command' = [command EXCEPT ![p] = new]
  BY <1>1
<1> HIDE DEF new
<1>5. /\ command'[p] = new /\ \A q \in Turns \ {p} : command'[q] = command[q]
      /\ \A l : /\ MustTell(l)' <=> MustTell(l)
                /\ SJ!Version(l)' = SJ!Version(l)
                /\ PostingTold(l)' <=> PostingTold(l)
      /\ SJ!Remembered' \subseteq SJ!Remembered \cup {file'.state, new.state}
  BY <1>2, <1>4, ProcessMoves
<1>6. SJ!Remembered' \subseteq SJ!Remembered \cup {SJ!Fresh}
  BY <1>2, <1>3, <1>5 DEF SJ!Remembered
<1>7. JobsTypes'
  <2>1. new.state \in Times
    BY <1>3, FreshTimes DEF JobsTypes
  <2>2. new \in [pc : JobSteps, c : Commands \cup {SJ!NoCommand}, state : Times, got : SUBSET [l : Listings, at : Nat]]
    BY <1>3, <2>1 DEF JobSteps
  <2> QED BY <1>2, <1>4, <2>2 DEF JobsTypes
<1>8. NoneLater'
  BY <1>2 DEF NoneLater
<1>9. \A s \in shown : s.by \in Turns \ {p}
  BY <1>2 DEF OfItsSource, JobsTypes
<1>10. OfItsSource'
  <2>1. /\ command'[p].got = {} /\ command'[p].pc \notin {"fetched", "shown"}
        /\ Checking(p)' => command'[p].c.op = "check" /\ command'[p].c.source \in Sources
    BY <1>3, <1>5 DEF Checking
  <2>2. \A q \in Turns : Checking(q)' => command'[q].c.op = "check" /\ command'[q].c.source \in Sources
    BY <1>5, <2>1 DEF OfItsSource, Checking
  <2>3. \A q \in Turns : \A v \in command'[q].got : v.l.source = command'[q].c.source /\ v.at > 0
    BY <1>5, <2>1 DEF OfItsSource
  <2>4. \A s \in shown' : command'[s.by] = command[s.by]
    BY <1>2, <1>5, <1>9
  <2> QED BY <1>2, <2>2, <2>3, <2>4 DEF OfItsSource
<1>11. Told'
  <2>1. \A l \in Listings : MustTell(l) => repo[l].at \in Nat /\ repo[l].at > 0
    BY DEF MustTell, JobsTypes
  <2>2. ASSUME NEW state \in SJ!Remembered', NEW l \in Listings, MustTell(l)', repo'[l].at <= SJ!GetLastChecked(state, l.source)
        PROVE PostingTold(l)'
    <3>1. state # SJ!Fresh
      BY <1>2, <2>1, <2>2, FreshTimes DEF MustTell
    <3> QED BY <1>2, <1>6, <2>2, <3>1 DEF Told, MustTell, PostingTold, SJ!Version
  <2>3. \A q \in Turns : command'[q].pc \in {"fetched", "shown"} => q # p /\ command'[q] = command[q]
    BY <1>3, <1>5
  <2>4. ASSUME NEW q \in Turns, command'[q].pc = "fetched", NEW l \in Listings, MustTell(l)', l.source = command'[q].c.source
        PROVE SJ!Version(l)' \in excused' \cup command'[q].got
    BY <1>2, <2>3, <2>4 DEF Told, MustTell, SJ!Version
  <2>5. ASSUME NEW q \in Turns, command'[q].pc = "shown", NEW l \in Listings, MustTell(l)', l.source = command'[q].c.source
        PROVE PostingTold(l)'
    BY <1>2, <2>3, <2>5 DEF Told, MustTell, PostingTold, SJ!Version
  <2> QED BY <2>2, <2>4, <2>5 DEF Told
<1>12. InTurn'
  BY <1>2, <1>3, <1>5 DEF InTurn
<1>13. OneByOne'
  <2>1. \A q, r \in Turns : q < r /\ command[r].pc # "new" => command[q].pc # "new"
    BY DEF InTurn
  <2>2. \A q \in Turns \ {p} : SJ!Running(q)' <=> SJ!Running(q)
    BY <1>5 DEF SJ!Running
  <2>3. \A r \in Turns : p < r => command'[r].pc = "new"
    BY <1>2, <1>5, <2>1, JobsAssumption
  <2> QED BY <1>2, <2>2, <2>3, JobsAssumption DEF OneByOne
<1>14. Covered'
  <2>1. command'[p].pc # "write" /\ (Checking(p)' => file.is # "truncated" /\ command'[p].state = file.state)
    BY <1>3, <1>5 DEF Checking
  <2>2. \A s \in shown' : command'[s.by] = command[s.by] /\ (Covers(file.state, s)' <=> Covers(file.state, s))
    BY <1>2, <1>5, <1>9 DEF Covers
  <2>3. \A q \in Turns : command'[q].pc = "write" => command'[q] = command[q] /\ command[q].pc = "write"
    BY <1>5, <2>1
  <2>4. \A q \in Turns : Checking(q)' => q = p \/ (command'[q] = command[q] /\ Checking(q))
    BY <1>5 DEF Checking
  <2> QED BY <1>2, <2>1, <2>2, <2>3, <2>4 DEF Covered, Covers, Checking
<1>15. ShownOnce'
  BY <1>2, <1>5, <1>9 DEF ShownOnce
<1> QED BY <1>7, <1>8, <1>10, <1>11, <1>12, <1>13, <1>14, <1>15

(* A command that ends early, unless it was in the middle of its save or    *)
(* has shown something: then the commands no longer follow one another.     *)
LEMMA EndingKeepsJobs ==
  ASSUME JobsInv, NEW p \in Turns, SJ!Ends(p, "failed"), UNCHANGED <<clock, repo, file, shown, excused>>,
         command[p].pc # "new", alone' => alone /\ command[p].pc = "loaded",
         \A s \in shown : s.by # p \/ command[p].pc \in {"shown", "write", "done", "failed"}
  PROVE JobsInv'
<1> USE DEF JobsInv
<1> DEFINE new == [pc |-> "failed", c |-> command[p].c, state |-> SJ!Fresh, got |-> {}]
<1>1. command' = [command EXCEPT ![p] = new]
  BY DEF SJ!Ends, SJ!Moves
<1>2. new.pc = "failed" /\ new.c = command[p].c /\ new.state = SJ!Fresh /\ new.got = {}
  OBVIOUS
<1>3. new \in [pc : JobSteps, c : Commands \cup {SJ!NoCommand}, state : Times, got : SUBSET [l : Listings, at : Nat]]
  BY FreshTimes DEF JobSteps, JobsTypes
<1> HIDE DEF new
<1>4. /\ command'[p] = new /\ \A q \in Turns \ {p} : command'[q] = command[q]
  BY <1>1, ProcessMoves
<1>5. SJ!Remembered' \subseteq SJ!Remembered \cup {SJ!Fresh}
  <2>1. SJ!Remembered' \subseteq SJ!Remembered \cup {file'.state, new.state}
    BY <1>1, ProcessMoves
  <2> QED BY <1>2, <2>1 DEF SJ!Remembered
<1>6. JobsTypes'
  BY <1>1, <1>3 DEF JobsTypes
<1>7. NoneLater'
  BY DEF NoneLater
<1>8. \A q \in Turns : Checking(q)' => q # p /\ command'[q] = command[q] /\ Checking(q)
  BY <1>2, <1>4 DEF Checking
<1>9. OfItsSource'
  <2>1. \A q \in Turns : \A v \in command'[q].got : v.l.source = command'[q].c.source /\ v.at > 0
    BY <1>2, <1>4 DEF OfItsSource
  <2>2. \A s \in shown' : s.by \in Turns
    BY DEF JobsTypes
  <2>3. \A s \in shown' : command'[s.by].pc \in {"shown", "write", "done", "failed"}
    BY <1>2, <1>4, <2>2 DEF OfItsSource
  <2>4. \A s \in shown' : command'[s.by].pc = "shown" => s.l.source = command'[s.by].c.source
    BY <1>2, <1>4, <2>2 DEF OfItsSource
  <2>5. \A q \in Turns : Checking(q)' => command'[q].c.op = "check" /\ command'[q].c.source \in Sources
    BY <1>8 DEF OfItsSource
  <2> QED BY <2>1, <2>3, <2>4, <2>5 DEF OfItsSource
<1>10. Told'
  <2>1. \A l \in Listings : MustTell(l) => repo[l].at \in Nat /\ repo[l].at > 0
    BY DEF MustTell, JobsTypes
  <2>2. ASSUME NEW state \in SJ!Remembered', NEW l \in Listings, MustTell(l)', repo'[l].at <= SJ!GetLastChecked(state, l.source)
        PROVE PostingTold(l)'
    <3>1. state # SJ!Fresh
      BY <2>1, <2>2, FreshTimes DEF MustTell
    <3> QED BY <1>5, <2>2, <3>1 DEF Told, MustTell, PostingTold, SJ!Version
  <2>3. \A q \in Turns : command'[q].pc \in {"fetched", "shown"} => q # p /\ command'[q] = command[q]
    BY <1>2, <1>4
  <2>4. ASSUME NEW q \in Turns, command'[q].pc = "fetched", NEW l \in Listings, MustTell(l)', l.source = command'[q].c.source
        PROVE SJ!Version(l)' \in excused' \cup command'[q].got
    BY <2>3, <2>4 DEF Told, MustTell, SJ!Version
  <2>5. ASSUME NEW q \in Turns, command'[q].pc = "shown", NEW l \in Listings, MustTell(l)', l.source = command'[q].c.source
        PROVE PostingTold(l)'
    BY <2>3, <2>5 DEF Told, MustTell, PostingTold, SJ!Version
  <2> QED BY <2>2, <2>4, <2>5 DEF Told
<1>11. InTurn'
  BY <1>2, <1>4 DEF InTurn
<1>12. OneByOne'
  <2>1. \A q \in Turns : SJ!Running(q)' => SJ!Running(q)
    BY <1>2, <1>4 DEF SJ!Running
  <2>2. \A q \in Turns : command'[q].pc # "new" => command[q].pc # "new"
    BY <1>2, <1>4
  <2> QED BY <2>1, <2>2 DEF OneByOne
<1>13. Covered'
  <2> SUFFICES ASSUME alone' PROVE Covered'
    BY DEF Covered
  <2>1. \A s \in shown : s.by \in Turns \ {p}
    BY DEF OfItsSource, JobsTypes
  <2>2. \A s \in shown' : command'[s.by] = command[s.by] /\ (Covers(file.state, s)' <=> Covers(file.state, s))
    BY <1>4, <2>1 DEF Covers
  <2>3. \A q \in Turns : command'[q].pc = "write" => command'[q] = command[q] /\ command[q].pc = "write"
    BY <1>2, <1>4
  <2> QED BY <1>8, <2>2, <2>3 DEF Covered, Covers, Checking
<1>14. ShownOnce'
  <2>1. \A s \in shown : s.by \in Turns /\ command'[s.by].c = command[s.by].c
    BY <1>2, <1>4 DEF JobsTypes
  <2> QED BY <2>1 DEF ShownOnce
<1> QED BY <1>6, <1>7, <1>9, <1>10, <1>11, <1>12, <1>13, <1>14

LEMMA FetchKeepsJobs == ASSUME JobsInv, NEW p \in Turns, SJ!Fetch(p) PROVE JobsInv'
<1> USE DEF JobsInv
<1>1. /\ command[p].pc = "loaded" /\ command[p].c.op = "check"
      /\ clock' = clock /\ repo' = repo /\ file' = file /\ shown' = shown /\ excused' = excused /\ alone' = alone
  BY DEF SJ!Fetch
<1>2. CASE SJ!Ends(p, "failed")
  <2>1. \A s \in shown : s.by # p \/ command[p].pc \in {"shown", "write", "done", "failed"}
    BY DEF OfItsSource
  <2> QED BY <1>1, <1>2, <2>1, EndingKeepsJobs
<1>3. CASE SJ!Moves(p, "fetched", command[p].state,
                    {[l |-> l, at |-> repo[l].at] : l \in SJ!Visible(repo, command[p].c.source)})
  <2> DEFINE found == {[l |-> l, at |-> repo[l].at] : l \in SJ!Visible(repo, command[p].c.source)}
             new == [pc |-> "fetched", c |-> command[p].c, state |-> command[p].state, got |-> found]
  <2>1. command' = [command EXCEPT ![p] = new]
    BY <1>3 DEF SJ!Moves
  <2>2. found \in SUBSET [l : Listings, at : Nat]
    BY DEF SJ!Visible, JobsTypes
  <2>3. \A v \in found : v.l.source = command[p].c.source /\ v.at > 0
    BY DEF SJ!Visible
  <2>4. \A l \in Listings : MustTell(l) /\ l.source = command[p].c.source => SJ!Version(l) \in found
    BY DEF MustTell, SJ!Version, SJ!Visible
  <2> HIDE DEF found
  <2>5. /\ new.pc = "fetched" /\ new.c = command[p].c /\ new.state = command[p].state /\ new.got = found
        /\ new \in [pc : JobSteps, c : Commands \cup {SJ!NoCommand}, state : Times, got : SUBSET [l : Listings, at : Nat]]
    BY <2>2 DEF JobSteps, JobsTypes
  <2> HIDE DEF new
  <2>6. /\ command'[p] = new /\ \A q \in Turns \ {p} : command'[q] = command[q]
        /\ SJ!Remembered' \subseteq SJ!Remembered
    <3>1. command'[p] = new /\ (\A q \in Turns \ {p} : command'[q] = command[q])
          /\ SJ!Remembered' \subseteq SJ!Remembered \cup {file'.state, new.state}
      BY <1>1, <2>1, ProcessMoves
    <3> QED BY <1>1, <2>5, <3>1 DEF SJ!Remembered
  <2>7. JobsTypes'
    BY <1>1, <2>1, <2>5 DEF JobsTypes
  <2>8. NoneLater'
    BY <1>1 DEF NoneLater
  <2>9. \A q \in Turns : /\ command'[q].c = command[q].c /\ command'[q].state = command[q].state
                         /\ Checking(q)' <=> Checking(q)
                         /\ SJ!Running(q)' <=> SJ!Running(q)
                         /\ command'[q].pc = "write" <=> command[q].pc = "write"
                         /\ command'[q].pc = "new" <=> command[q].pc = "new"
    BY <1>1, <2>5, <2>6 DEF Checking, SJ!Running
  <2>10. \A s \in shown : s.by \in Turns \ {p} /\ command'[s.by] = command[s.by]
    BY <1>1, <2>6 DEF OfItsSource, JobsTypes
  <2>11. OfItsSource'
    <3>1. \A q \in Turns : Checking(q)' => command'[q].c.op = "check" /\ command'[q].c.source \in Sources
      BY <2>9 DEF OfItsSource
    <3>2. \A q \in Turns : \A v \in command'[q].got : v.l.source = command'[q].c.source /\ v.at > 0
      BY <2>3, <2>5, <2>6 DEF OfItsSource
    <3> QED BY <1>1, <2>10, <3>1, <3>2 DEF OfItsSource
  <2>12. Told'
    <3>1. ASSUME NEW state \in SJ!Remembered', NEW l \in Listings, MustTell(l)', repo'[l].at <= SJ!GetLastChecked(state, l.source)
          PROVE PostingTold(l)'
      BY <1>1, <2>6, <3>1 DEF Told, MustTell, PostingTold, SJ!Version
    <3>2. ASSUME NEW q \in Turns, command'[q].pc = "fetched", NEW l \in Listings, MustTell(l)', l.source = command'[q].c.source
          PROVE SJ!Version(l)' \in excused' \cup command'[q].got
      <4>1. CASE q = p
        BY <1>1, <2>4, <2>5, <2>6, <3>2, <4>1 DEF MustTell, SJ!Version
      <4>2. CASE q # p
        BY <1>1, <2>6, <3>2, <4>2 DEF Told, MustTell, SJ!Version
      <4> QED BY <4>1, <4>2
    <3>3. ASSUME NEW q \in Turns, command'[q].pc = "shown", NEW l \in Listings, MustTell(l)', l.source = command'[q].c.source
          PROVE PostingTold(l)'
      BY <1>1, <2>5, <2>6, <3>3 DEF Told, MustTell, PostingTold, SJ!Version
    <3> QED BY <3>1, <3>2, <3>3 DEF Told
  <2>13. InTurn' /\ OneByOne'
    BY <1>1, <2>9 DEF InTurn, OneByOne
  <2>14. Covered'
    <3>1. \A state, s : Covers(state, s)' <=> Covers(state, s)
      BY DEF Covers
    <3> QED BY <1>1, <2>9, <2>10, <3>1 DEF Covered, Covers
  <2>15. ShownOnce'
    BY <1>1, <2>10 DEF ShownOnce
  <2> QED BY <2>7, <2>8, <2>11, <2>12, <2>13, <2>14, <2>15
<1> QED BY <1>2, <1>3 DEF SJ!Fetch

LEMMA ShowKeepsJobs == ASSUME JobsInv, NEW p \in Turns, SJ!Show(p) PROVE JobsInv'
<1> USE DEF JobsInv
<1> DEFINE c == command[p].c
           until == SJ!GetLastChecked(command[p].state, c.source)
           fresh == {v \in command[p].got : SJ!NewerThan(c, until, v.at)}
<1>1. PICK out \in SJ!Limited(c, SJ!Filtered(c, command[p].got, until)) :
        /\ shown' = shown \cup {[l |-> v.l, at |-> v.at, by |-> p, when |-> clock] : v \in out}
        /\ excused' = excused \cup (fresh \ out)
  BY DEF SJ!Show
<1>2. /\ command[p].pc = "fetched" /\ command' = [command EXCEPT ![p] = [pc |-> "shown", c |-> @.c, state |-> @.state, got |-> {}]]
      /\ clock' = clock /\ repo' = repo /\ file' = file /\ alone' = alone
  BY DEF SJ!Show, SJ!Moves, JobsTypes
<1>3. out \subseteq fresh /\ fresh \subseteq command[p].got
  BY DEF SJ!Limited, SJ!Filtered
<1>4. /\ command[p].got \subseteq [l : Listings, at : Nat] /\ command[p].state \in Times /\ command[p].state \in SJ!Remembered
      /\ c.op = "check" /\ c.source \in Sources /\ \A v \in command[p].got : v.l.source = c.source /\ v.at > 0
      /\ until \in Nat
  <2>1. command[p].got \subseteq [l : Listings, at : Nat] /\ command[p].state \in Times
    BY DEF JobsTypes
  <2>2. command[p].state \in SJ!Remembered
    BY DEF SJ!Remembered
  <2>3. c.op = "check" /\ c.source \in Sources /\ \A v \in command[p].got : v.l.source = c.source /\ v.at > 0
    BY <1>2 DEF OfItsSource, Checking
  <2> QED BY <2>1, <2>2, <2>3, TimesOf
<1>5. \A v \in command[p].got : v \in fresh \/ (~c.all /\ v.at <= until)
  BY <1>4 DEF SJ!NewerThan
<1>6. \A v \in fresh : c.all \/ until = 0 \/ v.at > until
  BY DEF SJ!NewerThan
<1>7. \A s \in shown : s \in [l : Listings, at : Nat, by : Turns, when : Nat] /\ s.by # p
  BY <1>2 DEF OfItsSource, JobsTypes
<1>8. \A s \in shown' : s \in shown \/ \E v \in out : s = [l |-> v.l, at |-> v.at, by |-> p, when |-> clock]
  BY <1>1
<1> HIDE DEF fresh, until
<1>9. /\ command'[p] = [pc |-> "shown", c |-> c, state |-> command[p].state, got |-> {}]
      /\ \A q \in Turns \ {p} : command'[q] = command[q]
  BY <1>2 DEF JobsTypes
<1>10. JobsTypes'
  <2>1. command' \in [Turns -> [pc : JobSteps, c : Commands \cup {SJ!NoCommand}, state : Times, got : SUBSET [l : Listings, at : Nat]]]
    BY <1>2 DEF JobsTypes, JobSteps
  <2>2. shown' \subseteq [l : Listings, at : Nat, by : Turns, when : Nat]
    <3>1. clock \in Nat
      BY DEF JobsTypes
    <3> QED BY <1>1, <1>3, <1>4, <1>7, <3>1
  <2> QED BY <1>2, <2>1, <2>2 DEF JobsTypes
<1>11. SJ!Remembered' = SJ!Remembered
  BY <1>2, <1>9 DEF SJ!Remembered
<1>12. NoneLater'
  <2>1. clock \in Nat
    BY DEF JobsTypes
  <2> QED BY <1>2, <1>8, <2>1 DEF NoneLater
<1>13. OfItsSource'
  <2>1. \A q \in Turns : Checking(q)' => command'[q].c.op = "check" /\ command'[q].c.source \in Sources
    BY <1>4, <1>9 DEF OfItsSource, Checking
  <2>2. \A q \in Turns : \A v \in command'[q].got : v.l.source = command'[q].c.source /\ v.at > 0
    BY <1>9 DEF OfItsSource
  <2>3. \A s \in shown' : command'[s.by].pc \in {"shown", "write", "done", "failed"}
    BY <1>7, <1>8, <1>9 DEF OfItsSource
  <2>4. \A s \in shown' : command'[s.by].pc = "shown" => s.l.source = command'[s.by].c.source
    BY <1>3, <1>4, <1>7, <1>8, <1>9 DEF OfItsSource
  <2> QED BY <2>1, <2>2, <2>3, <2>4 DEF OfItsSource
<1>14. \A l \in Listings : /\ MustTell(l)' <=> MustTell(l)
                           /\ SJ!Version(l)' = SJ!Version(l)
                           /\ PostingTold(l) => PostingTold(l)'
  BY <1>1, <1>2 DEF MustTell, SJ!Version, PostingTold
<1>15. Told'
  <2>1. ASSUME NEW state \in SJ!Remembered', NEW l \in Listings, MustTell(l)', repo'[l].at <= SJ!GetLastChecked(state, l.source)
        PROVE PostingTold(l)'
    BY <1>2, <1>11, <1>14, <2>1 DEF Told, MustTell, PostingTold, SJ!Version
  <2>2. ASSUME NEW q \in Turns, command'[q].pc = "fetched", NEW l \in Listings, MustTell(l)', l.source = command'[q].c.source
        PROVE SJ!Version(l)' \in excused' \cup command'[q].got
    <3>1. q # p
      BY <1>9, <2>2
    <3> QED BY <1>1, <1>2, <1>9, <2>2, <3>1 DEF Told, MustTell, SJ!Version
  <2>3. ASSUME NEW q \in Turns, command'[q].pc = "shown", NEW l \in Listings, MustTell(l)', l.source = command'[q].c.source
        PROVE PostingTold(l)'
    <3>1. CASE q = p
      <4> DEFINE v == SJ!Version(l)
      <4>1. l.source = c.source /\ MustTell(l)
        BY <1>9, <1>14, <2>3, <3>1 DEF MustTell
      <4>2. v \in excused \/ v \in command[p].got
        BY <1>2, <4>1 DEF Told
      <4>3. v.l = l /\ v.at = repo[l].at
        BY DEF SJ!Version
      <4>4. CASE v \in excused
        BY <1>1, <1>2, <4>4 DEF PostingTold, SJ!Version
      <4>5. CASE v \in out
        <5>1. [l |-> v.l, at |-> v.at, by |-> p, when |-> clock] \in shown'
          BY <1>1, <4>5
        <5> QED BY <1>2, <4>3, <5>1 DEF PostingTold
      <4>6. CASE v \in fresh \ out
        BY <1>1, <1>2, <4>6 DEF PostingTold, SJ!Version
      <4>7. CASE v \in command[p].got \ fresh
        <5>1. repo[l].at <= SJ!GetLastChecked(command[p].state, l.source)
          BY <1>5, <4>1, <4>3, <4>7 DEF until
        <5>2. PostingTold(l)
          BY <1>4, <4>1, <5>1 DEF Told
        <5> QED BY <1>14, <5>2
      <4> QED BY <4>2, <4>4, <4>5, <4>6, <4>7
    <3>2. CASE q # p
      BY <1>2, <1>9, <1>14, <2>3, <3>2 DEF Told, MustTell, PostingTold, SJ!Version
    <3> QED BY <3>1, <3>2
  <2> QED BY <2>1, <2>2, <2>3 DEF Told
<1>16. \A q \in Turns : /\ command'[q].c = command[q].c /\ command'[q].state = command[q].state
                        /\ Checking(q)' <=> Checking(q)
                        /\ SJ!Running(q)' <=> SJ!Running(q)
                        /\ command'[q].pc = "write" <=> command[q].pc = "write"
                        /\ command'[q].pc = "new" <=> command[q].pc = "new"
  BY <1>2, <1>9 DEF Checking, SJ!Running
<1>17. InTurn' /\ OneByOne'
  BY <1>2, <1>16 DEF InTurn, OneByOne
<1>18. ASSUME alone, NEW q \in Turns \ {p} PROVE ~SJ!Running(q) \/ (p < q /\ command[q].pc = "new")
  <2>1. SJ!Running(p) /\ command[p].pc # "new"
    BY <1>2 DEF SJ!Running
  <2> QED BY <1>18, <2>1, JobsAssumption DEF OneByOne, SJ!Running
<1>19. ASSUME alone, NEW s \in shown PROVE Covers(file.state, s) /\ command[s.by].pc # "shown"
  <2>1. ~SJ!Running(s.by)
    BY <1>7, <1>18, <1>19 DEF SJ!Running
  <2>2. command[s.by].pc # "shown"
    BY <2>1 DEF SJ!Running
  <2>3. file.is # "truncated"
    BY <1>2, <1>19 DEF Covered, Checking
  <2> QED BY <1>19, <2>2, <2>3 DEF Covered
<1>20. Covered'
  <2> SUFFICES ASSUME alone' PROVE Covered'
    BY DEF Covered
  <2>1. \A s \in shown' : command'[s.by].pc = "shown" \/ Covers(file.state, s)'
    BY <1>2, <1>8, <1>9, <1>19 DEF Covers
  <2>2. \A q \in Turns : command'[q].pc # "write"
    BY <1>9, <1>2, <1>18 DEF SJ!Running
  <2> QED BY <1>2, <1>16, <2>1, <2>2 DEF Covered
<1>21. ShownOnce'
  <2> SUFFICES ASSUME alone', NEW s \in shown', NEW t \in shown', s.by < t.by, s.l = t.l, s.at = t.at,
                      s.at <= s.when
               PROVE command'[t.by].c.all
    BY DEF ShownOnce
  <2>1. CASE s \in shown /\ t \in shown
    BY <1>2, <1>7, <1>16, <2>1 DEF ShownOnce
  <2>2. CASE t \notin shown
    <3>1. PICK v \in out : t = [l |-> v.l, at |-> v.at, by |-> p, when |-> clock]
      BY <1>8, <2>2
    <3>2. t.by = p /\ t.l = v.l /\ t.at = v.at /\ v.l.source = c.source /\ v.at \in Nat /\ v.at > 0 /\ v \in fresh
      BY <1>3, <1>4, <3>1
    <3>3. s \in shown
      BY <1>8, <3>2, JobsAssumption
    <3>4. command[p].state = file.state
      BY <1>2 DEF Covered, Checking
    <3>5. s.at <= until
      BY <1>2, <1>19, <3>2, <3>3, <3>4 DEF Covers, until
    <3>6. c.all
      BY <1>4, <1>6, <3>2, <3>5
    <3> QED BY <1>16, <3>2, <3>6
  <2>3. CASE s \notin shown /\ t \in shown
    <3>1. s.by = p
      BY <1>8, <2>3
    <3>2. t.by \in Turns \ {p} /\ ~(command[t.by].pc = "new")
      BY <1>7, <2>3 DEF OfItsSource
    <3>3. ~SJ!Running(p)
      BY <1>2, <3>1, <3>2 DEF OneByOne
    <3> QED BY <1>2, <3>3 DEF SJ!Running
  <2> QED BY <2>1, <2>2, <2>3
<1> QED BY <1>10, <1>12, <1>13, <1>15, <1>17, <1>20, <1>21

(* A process that has come to its save, or is through with it.              *)
LEMMA SavingKeepsJobs ==
  ASSUME JobsInv, NEW p \in Turns, NEW pc \in {"write", "done"}, NEW state \in Times,
         SJ!Moves(p, pc, state, {}), UNCHANGED <<clock, repo, shown, excused>>,
         command[p].pc \in {"loaded", "shown", "write"}, command[p].pc = "loaded" => ~alone',
         file' \in [is : {"absent", "truncated", "saved"}, state : Times], alone' => alone,
         file'.state \in SJ!Remembered \cup {SJ!Fresh},
         \A l \in Listings : MustTell(l) /\ repo[l].at <= SJ!GetLastChecked(state, l.source) => PostingTold(l),
         alone' => \A s \in shown : pc = "write" => Covers(state, s),
         alone' => \A s \in shown : file'.is # "truncated" => Covers(file'.state, s)
  PROVE JobsInv'
<1> USE DEF JobsInv
<1> DEFINE new == [pc |-> pc, c |-> command[p].c, state |-> state, got |-> {}]
<1>1. command' = [command EXCEPT ![p] = new]
  BY DEF SJ!Moves
<1>2. new.pc = pc /\ new.c = command[p].c /\ new.state = state /\ new.got = {}
  OBVIOUS
<1>3. new \in [pc : JobSteps, c : Commands \cup {SJ!NoCommand}, state : Times, got : SUBSET [l : Listings, at : Nat]]
  BY DEF JobSteps, JobsTypes
<1> HIDE DEF new
<1>4. command'[p] = new /\ \A q \in Turns \ {p} : command'[q] = command[q]
  BY <1>1, ProcessMoves
<1>5. SJ!Remembered' \subseteq SJ!Remembered \cup {SJ!Fresh, state}
  <2>1. SJ!Remembered' \subseteq SJ!Remembered \cup {file'.state, new.state}
    BY <1>1, ProcessMoves
  <2> QED BY <1>2, <2>1
<1>6. JobsTypes'
  BY <1>1, <1>3 DEF JobsTypes
<1>7. NoneLater'
  BY DEF NoneLater
<1>8. \A q \in Turns : Checking(q)' => q # p /\ command'[q] = command[q] /\ Checking(q)
  BY <1>2, <1>4 DEF Checking
<1>9. OfItsSource'
  <2>1. \A q \in Turns : \A v \in command'[q].got : v.l.source = command'[q].c.source /\ v.at > 0
    BY <1>2, <1>4 DEF OfItsSource
  <2>2. \A s \in shown' : s.by \in Turns
    BY DEF JobsTypes
  <2>3. \A s \in shown' : command'[s.by].pc \in {"shown", "write", "done", "failed"}
    BY <1>2, <1>4, <2>2 DEF OfItsSource
  <2>4. \A s \in shown' : command'[s.by].pc = "shown" => s.l.source = command'[s.by].c.source
    BY <1>2, <1>4, <2>2 DEF OfItsSource
  <2>5. \A q \in Turns : Checking(q)' => command'[q].c.op = "check" /\ command'[q].c.source \in Sources
    BY <1>8 DEF OfItsSource
  <2> QED BY <2>1, <2>3, <2>4, <2>5 DEF OfItsSource
<1>10. Told'
  <2>1. \A l \in Listings : MustTell(l) => repo[l].at \in Nat /\ repo[l].at > 0
    BY DEF MustTell, JobsTypes
  <2>2. ASSUME NEW st \in SJ!Remembered', NEW l \in Listings, MustTell(l)', repo'[l].at <= SJ!GetLastChecked(st, l.source)
        PROVE PostingTold(l)'
    <3>1. st # SJ!Fresh
      BY <2>1, <2>2, FreshTimes DEF MustTell
    <3> QED BY <1>5, <2>2, <3>1 DEF Told, MustTell, PostingTold, SJ!Version
  <2>3. \A q \in Turns : command'[q].pc \in {"fetched", "shown"} => q # p /\ command'[q] = command[q]
    BY <1>2, <1>4
  <2>4. ASSUME NEW q \in Turns, command'[q].pc = "fetched", NEW l \in Listings, MustTell(l)', l.source = command'[q].c.source
        PROVE SJ!Version(l)' \in excused' \cup command'[q].got
    BY <2>3, <2>4 DEF Told, MustTell, SJ!Version
  <2>5. ASSUME NEW q \in Turns, command'[q].pc = "shown", NEW l \in Listings, MustTell(l)', l.source = command'[q].c.source
        PROVE PostingTold(l)'
    BY <2>3, <2>5 DEF Told, MustTell, PostingTold, SJ!Version
  <2> QED BY <2>2, <2>4, <2>5 DEF Told
<1>11. InTurn'
  BY <1>2, <1>4 DEF InTurn
<1>12. OneByOne'
  <2>1. \A q \in Turns : SJ!Running(q)' => SJ!Running(q)
    BY <1>2, <1>4 DEF SJ!Running
  <2>2. \A q \in Turns : command'[q].pc # "new" => command[q].pc # "new"
    BY <1>2, <1>4
  <2> QED BY <2>1, <2>2 DEF OneByOne
<1>13. Covered'
  <2> SUFFICES ASSUME alone' PROVE Covered'
    BY DEF Covered
  <2>1. SJ!Running(p) /\ command[p].pc # "new"
    BY DEF SJ!Running
  <2>2. \A q \in Turns \ {p} : ~SJ!Running(q)
    BY <2>1, JobsAssumption DEF OneByOne, SJ!Running
  <2>3. \A q \in Turns : Checking(q) => SJ!Running(q)
    BY DEF Checking, SJ!Running
  <2>4. \A q \in Turns : ~(Checking(q)')
    BY <1>8, <2>2, <2>3
  <2>5. \A q \in Turns : command'[q].pc = "write" => q = p
    BY <1>4, <2>2 DEF SJ!Running
  <2>6. \A st, s : Covers(st, s)' <=> Covers(st, s)
    BY DEF Covers
  <2> QED BY <1>2, <1>4, <2>4, <2>5 DEF Covered, Covers
<1>14. ShownOnce'
  <2>1. \A s \in shown : s.by \in Turns /\ command'[s.by].c = command[s.by].c
    BY <1>2, <1>4 DEF JobsTypes
  <2> QED BY <2>1 DEF ShownOnce
<1> QED BY <1>6, <1>7, <1>9, <1>10, <1>11, <1>12, <1>13, <1>14

LEMMA BeginSaveKeepsJobs == ASSUME JobsInv, NEW p \in Turns, SJ!BeginSave(p) PROVE JobsInv'
<1>1. /\ clock' = clock /\ repo' = repo /\ shown' = shown /\ excused' = excused
      /\ file' = SJ!Truncated /\ SJ!Truncated = [is |-> "truncated", state |-> SJ!Fresh]
  BY DEF SJ!BeginSave, SJ!Truncated
<1>2. file' \in [is : {"absent", "truncated", "saved"}, state : Times] /\ file'.is = "truncated" /\ file'.state = SJ!Fresh
  BY <1>1, FreshTimes
<1>3. CASE command[p].pc = "loaded" /\ SJ!Moves(p, "write", SJ!Fresh, {}) /\ alone' = FALSE
  <2>1. \A l \in Listings : MustTell(l) /\ repo[l].at <= SJ!GetLastChecked(SJ!Fresh, l.source) => PostingTold(l)
    BY FreshTimes DEF JobsInv, JobsTypes, MustTell
  <2> QED BY <1>1, <1>2, <1>3, <2>1, FreshTimes, SavingKeepsJobs
<1>4. CASE command[p].pc = "shown" /\ alone' = alone
           /\ SJ!Moves(p, "write", SJ!SetLastChecked(command[p].state, command[p].c.source, clock), {})
  <2> USE DEF JobsInv
  <2> DEFINE s0 == command[p].c.source
             old == command[p].state
             state == SJ!SetLastChecked(old, s0, clock)
  <2>1. old \in Times /\ s0 \in Sources /\ clock \in Nat /\ old \in SJ!Remembered
    BY <1>4 DEF JobsTypes, OfItsSource, Checking, SJ!Remembered
  <2> HIDE DEF old, s0
  <2>2. /\ state \in Times
        /\ \A x : SJ!GetLastChecked(state, x) = IF x = s0 THEN clock ELSE SJ!GetLastChecked(old, x)
        /\ \A x \in DOMAIN state : state[x] = IF x = s0 THEN clock ELSE old[x]
        /\ DOMAIN state = DOMAIN old \cup {s0}
    BY <2>1, NewTime
  <2> HIDE DEF state
  <2>4. ASSUME NEW l \in Listings, MustTell(l), repo[l].at <= SJ!GetLastChecked(state, l.source) PROVE PostingTold(l)
    <3>1. CASE l.source = s0
      BY <1>4, <2>4, <3>1 DEF Told, s0
    <3>2. CASE l.source # s0
      <4>1. repo[l].at <= SJ!GetLastChecked(old, l.source)
        BY <2>2, <2>4, <3>2
      <4> QED BY <2>1, <2>4, <4>1 DEF Told
    <3> QED BY <3>1, <3>2
  <2>5. ASSUME alone, NEW s \in shown PROVE Covers(state, s)
    <3>1. s.by \in Turns /\ s.at \in Nat /\ s.when \in Nat /\ clock \in Nat /\ s.when <= clock
      BY DEF JobsTypes, NoneLater
    <3>2. CASE s.l.source = s0
      BY <2>2, <3>1, <3>2 DEF Covers
    <3>3. CASE s.l.source # s0
      <4>1. s.by # p
        BY <1>4, <3>3 DEF OfItsSource, s0
      <4>2. ~SJ!Running(s.by)
        <5>1. SJ!Running(p) /\ command[p].pc # "new" /\ command[s.by].pc # "new"
          BY <1>4 DEF SJ!Running, OfItsSource
        <5> QED BY <2>5, <3>1, <4>1, <5>1, JobsAssumption DEF OneByOne
      <4>3. file.is # "truncated" /\ old = file.state
        BY <1>4, <2>5 DEF Covered, Checking, old
      <4>4. Covers(old, s)
        BY <2>5, <4>2, <4>3 DEF Covered, SJ!Running
      <4> QED BY <2>2, <3>3, <4>4 DEF Covers
    <3> QED BY <3>2, <3>3
  <2>6. SJ!Moves(p, "write", state, {})
    BY <1>4 DEF state, old, s0
  <2> QED BY <1>1, <1>2, <1>4, <2>2, <2>4, <2>5, <2>6, SavingKeepsJobs
<1> QED BY <1>3, <1>4 DEF SJ!BeginSave

LEMMA EndSaveKeepsJobs == ASSUME JobsInv, NEW p \in Turns, SJ!EndSave(p) PROVE JobsInv'
<1>1. /\ clock' = clock /\ repo' = repo /\ shown' = shown /\ excused' = excused /\ alone' = alone
      /\ command[p].pc = "write" /\ file' = [is |-> "saved", state |-> command[p].state] /\ SJ!Moves(p, "done", SJ!Fresh, {})
  BY DEF SJ!EndSave, SJ!Saved, SJ!Ends
<1>2. command[p].state \in Times /\ command[p].state \in SJ!Remembered
  BY DEF JobsInv, JobsTypes, SJ!Remembered
<1>3. \A l \in Listings : MustTell(l) /\ repo[l].at <= SJ!GetLastChecked(SJ!Fresh, l.source) => PostingTold(l)
  BY FreshTimes DEF JobsInv, JobsTypes, MustTell
<1>4. alone => \A s \in shown : Covers(command[p].state, s)
  BY <1>1 DEF JobsInv, Covered
<1> QED BY <1>1, <1>2, <1>3, <1>4, FreshTimes, SavingKeepsJobs

LEMMA JobsInvStep == JobsInv /\ (SJ!Next \/ UNCHANGED SJ!vars) => JobsInv'
<1> SUFFICES ASSUME JobsInv, SJ!Next \/ UNCHANGED SJ!vars PROVE JobsInv'
  OBVIOUS
<1>1. CASE UNCHANGED SJ!vars
  <2> USE <1>1 DEF SJ!vars, JobsInv
  <2>1. JobsTypes'
    BY DEF JobsTypes
  <2>2. SJ!Remembered' = SJ!Remembered
    BY DEF SJ!Remembered
  <2>3. NoneLater' /\ OfItsSource'
    BY <2>2 DEF NoneLater, OfItsSource, Checking
  <2>4. Told'
    BY <2>2 DEF Told, MustTell, PostingTold, SJ!Version
  <2>5. InTurn' /\ OneByOne' /\ Covered' /\ ShownOnce'
    BY DEF InTurn, OneByOne, SJ!Running, Covered, Covers, Checking, ShownOnce
  <2> QED BY <2>1, <2>3, <2>4, <2>5
<1>2. ASSUME NEW p \in Turns, SJ!SaveFails(p) \/ SJ!Kill(p) PROVE JobsInv'
  <2>1. /\ SJ!Ends(p, "failed") /\ alone' = FALSE /\ UNCHANGED <<clock, repo, file, shown, excused>>
        /\ command[p].pc \in {"loaded", "fetched", "shown", "write"}
    BY <1>2 DEF SJ!SaveFails, SJ!Kill, SJ!Running
  <2>2. \A s \in shown : s.by # p \/ command[p].pc \in {"shown", "write", "done", "failed"}
    BY DEF JobsInv, OfItsSource
  <2> QED BY <2>1, <2>2, EndingKeepsJobs
<1>3. ASSUME NEW u \in Redatings, SJ!Publish(u[1], u[3]) PROVE JobsInv'
  BY <1>3, PublishKeepsJobs, JobsAssumption
<1> QED BY <1>1, <1>2, <1>3, TickKeepsJobs, StartKeepsJobs, FetchKeepsJobs, ShowKeepsJobs, BeginSaveKeepsJobs,
           EndSaveKeepsJobs DEF SJ!Next

LEMMA JobsKeepPromise == JobsInv => SJ!NewIsShown
<1> SUFFICES ASSUME JobsInv PROVE SJ!NewIsShown
  OBVIOUS
<1>1. file.state \in SJ!Remembered
  BY DEF SJ!Remembered
<1> QED BY <1>1 DEF JobsInv, Told, MustTell, PostingTold, ShownOnce, SJ!NewIsShown

----------------------------------------------------------------------------
(* redban: while processes come one at a time, the balance in the file, with *)
(* what was granted since any take, is no more than that take or the burst   *)
(* allows and the time since then has refilled.                              *)

Balances == [tokens : Nat, last : Int]
BalanceFiles == [is : {"absent", "empty", "garbled", "saved"}, b : Balances]
TakerSteps == {"new", "failed", "loaded", "saving", "written", "sleeping", "ok", "nothing to run", "failed command", "killed"}
Grants == [p : Takers, at : Int, upto : Int]
RedbanTypes ==
  /\ clock \in Nat
  /\ file \in BalanceFiles /\ tmp \in BalanceFiles
  /\ fd \in [Takers -> {"none", "tmp", "file", "gone"}]
  /\ command \in [Takers -> TakerSteps]
  /\ bal \in [Takers -> Balances]
  /\ wake \in [Takers -> Int]
  /\ granted \in Seq(Grants)

(* The takes from i on, and what is left, are paid for until "until".       *)
Owed(i) == RB!Spent - granted[i].upto + Need[granted[i].p]
Limit(n) == RB!Larger(n, Bucket)
Paid(taken, b) ==
  \A i \in DOMAIN granted : Owed(i) + taken + b.tokens <= Limit(Need[granted[i].p]) + (b.last - granted[i].at)

(* What a process has in hand.                                              *)
InHand(p) ==
  /\ command[p] = "loaded" => Paid(0, bal[p])
  /\ command[p] \in {"saving", "written"} =>
       /\ Paid(Need[p], bal[p]) /\ wake[p] = bal[p].last
       /\ Need[p] + bal[p].tokens <= Limit(Need[p])
  /\ command[p] = "saving" => fd[p] = "none" \/ (fd[p] = "tmp" /\ tmp = RB!Empty)
  /\ command[p] = "written" => tmp = RB!Saved(bal[p])
OneTaker ==
  /\ \A p, q \in Takers : command[p] \in RB!Busy /\ command[q] \in RB!Busy => p = q
  /\ \A p \in Takers : InHand(p)
  /\ \A p \in Takers : fd[p] # "none" => command[p] \in {"saving", "written"}
  /\ file.is \in {"absent", "saved"}
  /\ file.is = "absent" => granted = <<>>
  /\ file.is = "saved" => Paid(0, file.b)
  /\ \A i, j \in DOMAIN granted : i <= j =>
       granted[j].upto - granted[i].upto + Need[granted[i].p]
         <= Limit(Need[granted[i].p]) + (granted[j].at - granted[i].at)
RedbanInv == RedbanTypes /\ (alone => OneTaker)

LEMMA RedbanConstants ==
  /\ Bucket \in Nat /\ \A p \in Takers : Need[p] \in Nat
  /\ \A n \in Nat : Limit(n) \in Nat /\ Limit(n) >= n /\ Limit(n) >= Bucket
BY RedbanAssumption DEF Limit, RB!Larger

LEMMA SpentOf == ASSUME RedbanTypes PROVE RB!Spent \in Int /\ \A i \in DOMAIN granted : granted[i] \in Grants /\ Owed(i) \in Int
<1>1. \A i \in DOMAIN granted : granted[i] \in Grants /\ granted[i].upto \in Int /\ Need[granted[i].p] \in Nat
  <2>1. granted \in Seq(Grants) /\ DOMAIN granted = 1..Len(granted) /\ Len(granted) \in Nat
    BY DEF RedbanTypes
  <2>2. \A i \in 1..Len(granted) : granted[i] \in Grants
    BY <2>1, ElementOfSeq
  <2> QED BY <2>1, <2>2, RedbanConstants DEF Grants
<1>2. RB!Spent \in Int
  <2>1. CASE granted = <<>>
    BY <2>1 DEF RB!Spent
  <2>2. CASE granted # <<>>
    <3>1. Len(granted) \in DOMAIN granted
      BY <2>2 DEF RedbanTypes
    <3> QED BY <1>1, <2>2, <3>1 DEF RB!Spent
  <2> QED BY <2>1, <2>2
<1> QED BY <1>1, <1>2 DEF Owed

LEMMA RedbanInvInit == RB!Init => RedbanInv
<1> SUFFICES ASSUME RB!Init PROVE RedbanInv
  OBVIOUS
<1> USE DEF RB!Init
<1>1. RB!NoBucket \in Balances /\ RB!Absent \in BalanceFiles /\ RB!Absent.is = "absent"
  BY DEF RB!NoBucket, Balances, RB!Absent, BalanceFiles
<1>2. RedbanTypes
  BY <1>1 DEF RedbanTypes, TakerSteps
<1>3. OneTaker
  BY <1>1 DEF OneTaker, InHand, RB!Busy
<1> QED BY <1>2, <1>3 DEF RedbanInv

LEMMA AddAside ==
  ASSUME NEW x \in Int, NEW y \in Int, NEW u \in Int, NEW m \in Int
  PROVE (x + y) - u + m = (x - u + m) + y
OBVIOUS

(* A take leaves no more than was paid for.                                 *)
LEMMA AfterPays ==
  ASSUME RedbanTypes, NEW b \in Balances, NEW n \in Nat, Paid(0, b)
  PROVE /\ RB!After(b, n) \in Balances
        /\ Paid(n, RB!After(b, n))
        /\ n + RB!After(b, n).tokens <= Limit(n)
        /\ RB!After(b, n).last = clock + (IF RB!Refilled(b) >= n THEN 0 ELSE RB!Wait(b, n))
<1> DEFINE t == RB!Refilled(b)
<1>1. b.tokens \in Nat /\ b.last \in Int /\ clock \in Nat
  BY DEF RedbanTypes, Balances
<1>2. t \in Int /\ t <= b.tokens + (clock - b.last) /\ t <= Bucket
  BY <1>1, RedbanConstants DEF RB!Refilled
<1> HIDE DEF t
<1>3. RB!After(b, n) = IF t >= n THEN [tokens |-> t - n, last |-> clock] ELSE [tokens |-> 0, last |-> clock + (n - t)]
  BY DEF RB!After, RB!Wait, t
<1>4. RB!After(b, n) \in Balances
  BY <1>1, <1>2, <1>3 DEF Balances
<1>5. /\ RB!After(b, n).tokens = IF t >= n THEN t - n ELSE 0
      /\ RB!After(b, n).last = IF t >= n THEN clock ELSE clock + (n - t)
  BY <1>3
<1>6. n + RB!After(b, n).tokens <= Limit(n)
  BY <1>2, <1>5, RedbanConstants
<1>7. RB!After(b, n).last = clock + (IF RB!Refilled(b) >= n THEN 0 ELSE RB!Wait(b, n))
  BY <1>1, <1>2, <1>5 DEF RB!Wait, t
<1>8. Paid(n, RB!After(b, n))
  <2> SUFFICES ASSUME NEW i \in DOMAIN granted
               PROVE Owed(i) + n + RB!After(b, n).tokens
                       <= Limit(Need[granted[i].p]) + (RB!After(b, n).last - granted[i].at)
    BY DEF Paid
  <2>1. Owed(i) \in Int /\ granted[i].at \in Int /\ Limit(Need[granted[i].p]) \in Nat
    BY SpentOf, RedbanConstants DEF Grants
  <2>2. Owed(i) + 0 + b.tokens <= Limit(Need[granted[i].p]) + (b.last - granted[i].at)
    BY DEF Paid
  <2> QED BY <1>1, <1>2, <1>5, <2>1, <2>2
<1> QED BY <1>4, <1>6, <1>7, <1>8

(* What was granted stays paid for while the grants stay.                   *)
LEMMA SamePaid ==
  ASSUME granted' = granted
  PROVE \A n, b : Paid(n, b)' <=> Paid(n, b)
BY DEF Paid, Owed, RB!Spent

LEMMA OpenKeepsBudget == ASSUME RedbanInv, NEW p \in Takers, RB!Open(p) PROVE RedbanInv'
<1> USE DEF RedbanInv
<1>1. /\ clock' = clock /\ file' = file /\ tmp' = tmp /\ fd' = fd /\ wake' = wake /\ granted' = granted
      /\ command[p] = "new"
  BY DEF RB!Open
<1>2. CASE file \in {RB!Empty, RB!Garbled} /\ command' = [command EXCEPT ![p] = "failed"] /\ UNCHANGED <<bal, alone>>
  <2>1. RedbanTypes'
    BY <1>1, <1>2 DEF RedbanTypes, TakerSteps
  <2>2. ~(file.is \in {"absent", "saved"})
    BY <1>2 DEF RB!Empty, RB!Garbled
  <2> QED BY <1>1, <1>2, <2>1, <2>2 DEF OneTaker
<1>3. CASE /\ command' = [command EXCEPT ![p] = "loaded"] /\ bal' = [bal EXCEPT ![p] = RB!Loaded]
           /\ alone' = (alone /\ \A q \in Takers : command[q] \notin RB!Busy)
  <2>1. RB!Loaded \in Balances
    BY RedbanConstants DEF RB!Loaded, RedbanTypes, Balances, BalanceFiles
  <2>2. RedbanTypes'
    BY <1>1, <1>3, <2>1 DEF RedbanTypes, TakerSteps
  <2> SUFFICES ASSUME alone' PROVE OneTaker'
    BY <2>2
  <2>3. OneTaker /\ \A q \in Takers : command[q] \notin RB!Busy
    BY <1>3
  <2>4. command'[p] = "loaded" /\ bal'[p] = RB!Loaded /\ \A q \in Takers \ {p} : command'[q] = command[q]
    BY <1>3 DEF RedbanTypes
  <2>5. Paid(0, RB!Loaded)
    <3>1. CASE file.is = "absent"
      BY <2>3, <3>1 DEF OneTaker, Paid
    <3>2. CASE file.is = "saved"
      BY <2>3, <3>2 DEF OneTaker, RB!Loaded, RB!Absent
    <3> QED BY <2>3, <3>1, <3>2 DEF OneTaker
  <2>6. Paid(0, bal[p])'
    BY <1>1, <2>4, <2>5 DEF Paid, Owed, RB!Spent
  <2>7. \A q \in Takers : InHand(q)'
    BY <2>3, <2>4, <2>6 DEF InHand, RB!Busy
  <2>8. /\ \A q, r \in Takers : command'[q] \in RB!Busy /\ command'[r] \in RB!Busy => q = r
        /\ \A q \in Takers : fd'[q] # "none" => command'[q] \in {"saving", "written"}
    BY <1>1, <2>3, <2>4 DEF RB!Busy, OneTaker
  <2>9. file'.is = "saved" => Paid(0, file.b)'
    BY <1>1, <2>3 DEF Paid, Owed, RB!Spent, OneTaker
  <2> QED BY <1>1, <2>3, <2>7, <2>8, <2>9 DEF OneTaker
<1> QED BY <1>2, <1>3 DEF RB!Open

LEMMA TakeKeepsBudget == ASSUME RedbanInv, NEW p \in Takers, RB!Take(p) PROVE RedbanInv'
<1> USE DEF RedbanInv
<1>1. /\ clock' = clock /\ file' = file /\ tmp' = tmp /\ fd' = fd /\ granted' = granted /\ alone' = alone
      /\ command[p] = "loaded" /\ command' = [command EXCEPT ![p] = "saving"]
      /\ bal' = [bal EXCEPT ![p] = RB!After(bal[p], Need[p])]
      /\ wake' = [wake EXCEPT ![p] = clock + (IF RB!Refilled(bal[p]) >= Need[p] THEN 0 ELSE RB!Wait(bal[p], Need[p]))]
  BY DEF RB!Take, RedbanTypes
<1>2. bal[p] \in Balances /\ Need[p] \in Nat
  BY RedbanConstants DEF RedbanTypes
<1>3. RedbanTypes'
  <2>1. RB!After(bal[p], Need[p]) \in Balances /\ RB!Refilled(bal[p]) \in Int
    <3>1. RB!Refilled(bal[p]) \in Int
      BY <1>2, RedbanConstants DEF RB!Refilled, Balances, RedbanTypes
    <3> QED BY <1>2, <3>1 DEF RB!After, RB!Wait, Balances, RedbanTypes
  <2>2. clock + (IF RB!Refilled(bal[p]) >= Need[p] THEN 0 ELSE RB!Wait(bal[p], Need[p])) \in Int
    BY <1>2, <2>1 DEF RB!Wait, RedbanTypes
  <2> QED BY <1>1, <2>1, <2>2 DEF RedbanTypes, TakerSteps
<1> SUFFICES ASSUME alone PROVE OneTaker'
  BY <1>1, <1>3
<1>4. OneTaker /\ Paid(0, bal[p])
  BY <1>1 DEF OneTaker, InHand
<1> DEFINE b == RB!After(bal[p], Need[p])
<1>5. Paid(Need[p], b) /\ Need[p] + b.tokens <= Limit(Need[p]) /\ wake'[p] = b.last
  BY <1>1, <1>2, <1>4, AfterPays DEF RedbanTypes
<1>6. bal'[p] = b /\ command'[p] = "saving" /\ \A q \in Takers \ {p} : command'[q] = command[q]
  BY <1>1 DEF RedbanTypes
<1> HIDE DEF b
<1>7. Paid(Need[p], bal[p])'
  BY <1>1, <1>5, <1>6 DEF Paid, Owed, RB!Spent
<1>8. \A q \in Takers \ {p} : command[q] \notin RB!Busy
  BY <1>1, <1>4 DEF OneTaker, RB!Busy
<1>9. \A q \in Takers : InHand(q)'
  <2>1. fd[p] = "none"
    BY <1>1, <1>4 DEF OneTaker
  <2> QED BY <1>1, <1>5, <1>6, <1>7, <1>8, <2>1 DEF InHand, RB!Busy
<1>10. \A q, r \in Takers : command'[q] \in RB!Busy /\ command'[r] \in RB!Busy => q = r
  BY <1>6, <1>8
<1>11. \A q \in Takers : fd'[q] # "none" => command'[q] \in {"saving", "written"}
  BY <1>1, <1>4, <1>6 DEF OneTaker
<1>12. file'.is = "saved" => Paid(0, file.b)'
  BY <1>1, <1>4 DEF Paid, Owed, RB!Spent, OneTaker
<1> QED BY <1>1, <1>4, <1>9, <1>10, <1>11, <1>12 DEF OneTaker

LEMMA SaveKeepsBudget ==
  ASSUME RedbanInv, NEW p \in Takers, RB!Truncate(p) \/ RB!WriteTmp(p) PROVE RedbanInv'
<1> USE DEF RedbanInv
<1>1. /\ clock' = clock /\ bal' = bal /\ wake' = wake /\ granted' = granted /\ alone' = alone /\ command[p] = "saving"
  BY DEF RB!Truncate, RB!WriteTmp
<1>2. /\ RB!Empty \in BalanceFiles /\ RB!Garbled \in BalanceFiles /\ RB!Saved(bal[p]) \in BalanceFiles
  BY DEF RB!Empty, RB!Garbled, RB!Saved, RB!NoBucket, BalanceFiles, Balances, RedbanTypes
<1>3. CASE RB!Truncate(p)
  <2>1. fd' = [fd EXCEPT ![p] = "tmp"] /\ tmp' = RB!Empty /\ command' = command /\ file' = file
    BY <1>3 DEF RB!Truncate
  <2>2. RedbanTypes'
    BY <1>1, <1>2, <2>1 DEF RedbanTypes
  <2> SUFFICES ASSUME alone PROVE OneTaker'
    BY <1>1, <2>2
  <2>3. \A q \in Takers \ {p} : command[q] \notin RB!Busy
    BY <1>1 DEF OneTaker, RB!Busy
  <2>4. fd'[p] = "tmp" /\ \A q \in Takers \ {p} : fd'[q] = fd[q]
    BY <2>1 DEF RedbanTypes
  <2>5. \A n, b : Paid(n, b)' <=> Paid(n, b)
    BY <1>1, SamePaid
  <2>6. \A q \in Takers : InHand(q)'
    <3>1. InHand(p)
      BY DEF OneTaker
    <3>2. InHand(p)'
      BY <1>1, <2>1, <2>4, <3>1 DEF InHand, Paid, Owed, RB!Spent
    <3> QED BY <2>1, <2>3, <3>2 DEF InHand, RB!Busy
  <2>7. \A q \in Takers : fd'[q] # "none" => command'[q] \in {"saving", "written"}
    BY <1>1, <2>1, <2>4 DEF OneTaker
  <2>8. file'.is = "saved" => Paid(0, file.b)'
    BY <1>1, <2>1 DEF Paid, Owed, RB!Spent, OneTaker
  <2> QED BY <1>1, <2>1, <2>6, <2>7, <2>8 DEF OneTaker
<1>4. CASE RB!WriteTmp(p)
  <2>1. fd' = fd /\ command' = [command EXCEPT ![p] = "written"] /\ fd[p] # "none"
    BY <1>4 DEF RB!WriteTmp
  <2>2. RedbanTypes'
    BY <1>1, <1>2, <1>4, <2>1 DEF RedbanTypes, TakerSteps, RB!WriteTmp, RB!Written
  <2> SUFFICES ASSUME alone PROVE OneTaker'
    BY <1>1, <2>2
  <2>3. \A q \in Takers \ {p} : command[q] \notin RB!Busy
    BY <1>1 DEF OneTaker, RB!Busy
  <2>4. InHand(p) /\ fd[p] = "tmp" /\ tmp = RB!Empty
    BY <1>1, <2>1 DEF OneTaker, InHand
  <2>5. file' = file /\ tmp' = RB!Saved(bal[p])
    BY <1>4, <2>4 DEF RB!WriteTmp, RB!Written
  <2>6. command'[p] = "written" /\ \A q \in Takers \ {p} : command'[q] = command[q]
    BY <2>1 DEF RedbanTypes
  <2>7. \A q \in Takers : InHand(q)'
    <3>1. InHand(p)'
      BY <1>1, <2>4, <2>5, <2>6 DEF InHand, Paid, Owed, RB!Spent, RB!Saved
    <3> QED BY <2>3, <2>6, <3>1 DEF InHand, RB!Busy
  <2>8. /\ \A q, r \in Takers : command'[q] \in RB!Busy /\ command'[r] \in RB!Busy => q = r
        /\ \A q \in Takers : fd'[q] # "none" => command'[q] \in {"saving", "written"}
    BY <2>1, <2>3, <2>6 DEF OneTaker
  <2>9. file'.is = "saved" => Paid(0, file.b)'
    BY <1>1, <2>5 DEF Paid, Owed, RB!Spent, OneTaker
  <2> QED BY <1>1, <2>5, <2>7, <2>8, <2>9 DEF OneTaker
<1> QED BY <1>3, <1>4

LEMMA RenameKeepsBudget == ASSUME RedbanInv, NEW p \in Takers, RB!Rename(p) PROVE RedbanInv'
<1> USE DEF RedbanInv
<1> DEFINE new == [p |-> p, at |-> wake[p], upto |-> RB!Spent + Need[p]]
           n == Len(granted)
<1>1. /\ clock' = clock /\ bal' = bal /\ wake' = wake /\ alone' = alone /\ granted' = Append(granted, new)
      /\ command[p] = "written" /\ command' = [command EXCEPT ![p] = "sleeping"]
  BY DEF RB!Rename, RB!Granted
<1>2. new \in Grants /\ new.p = p /\ new.at = wake[p] /\ new.upto = RB!Spent + Need[p] /\ RB!Spent \in Int /\ Need[p] \in Nat
  <2>1. RB!Spent \in Int
    BY SpentOf
  <2>2. Need[p] \in Nat /\ wake[p] \in Int
    BY RedbanConstants DEF RedbanTypes
  <2> QED BY <2>1, <2>2 DEF Grants
<1>3. granted \in Seq(Grants) /\ n \in Nat /\ DOMAIN granted = 1..n
  BY DEF RedbanTypes
<1> HIDE DEF new
<1>4. /\ granted' \in Seq(Grants) /\ Len(granted') = n + 1 /\ DOMAIN granted' = 1..(n + 1)
      /\ granted'[n + 1] = new /\ \A i \in 1..n : granted'[i] = granted[i]
  BY <1>1, <1>2, <1>3
<1>5. RedbanTypes'
  <2>1. CASE tmp = RB!Absent
    BY <1>1, <1>4, <2>1 DEF RB!Rename, RedbanTypes, TakerSteps
  <2>2. CASE tmp # RB!Absent
    <3>1. tmp' = RB!Absent /\ file' = tmp /\ RB!Absent \in BalanceFiles
      BY <2>2 DEF RB!Rename, RB!Absent, RB!NoBucket, BalanceFiles, Balances
    <3>2. fd' = [q \in Takers |-> CASE q = p -> "none" [] q # p /\ fd[q] = "tmp" -> "file"
                                     [] q # p /\ fd[q] = "file" -> "gone" [] OTHER -> fd[q]]
      BY <2>2 DEF RB!Rename
    <3>3. fd' \in [Takers -> {"none", "tmp", "file", "gone"}]
      BY <3>2 DEF RedbanTypes
    <3> QED BY <1>1, <1>4, <3>1, <3>3 DEF RedbanTypes, TakerSteps
  <2> QED BY <2>1, <2>2
<1> SUFFICES ASSUME alone PROVE OneTaker'
  BY <1>1, <1>5
<1>6. /\ Paid(Need[p], bal[p]) /\ wake[p] = bal[p].last /\ Need[p] + bal[p].tokens <= Limit(Need[p])
      /\ tmp = RB!Saved(bal[p])
  BY <1>1 DEF OneTaker, InHand
<1>7. bal[p].tokens \in Nat /\ bal[p].last \in Int
  BY DEF RedbanTypes, Balances
<1>8. tmp # RB!Absent /\ tmp.is = "saved" /\ tmp.b = bal[p]
  BY <1>6 DEF RB!Saved, RB!Absent
<1>9. /\ file' = tmp
      /\ fd' = [q \in Takers |-> CASE q = p -> "none" [] q # p /\ fd[q] = "tmp" -> "file"
                                     [] q # p /\ fd[q] = "file" -> "gone" [] OTHER -> fd[q]]
  BY <1>8 DEF RB!Rename
<1>10. \A q \in Takers : command'[q] \notin RB!Busy
  BY <1>1 DEF OneTaker, RB!Busy, RedbanTypes
<1>11. \A q \in Takers : fd'[q] = "none"
  <2>1. \A q \in Takers \ {p} : fd[q] = "none"
    BY <1>1 DEF OneTaker, RB!Busy
  <2> QED BY <1>9, <2>1
<1>12. RB!Spent' = RB!Spent + Need[p]
  <2>1. granted' # <<>>
    BY <1>3, <1>4
  <2> QED BY <1>2, <1>3, <1>4, <2>1 DEF RB!Spent
<1>13. \A i \in 1..n : granted[i].p \in Takers /\ granted[i].at \in Int /\ granted[i].upto \in Int /\ Owed(i) \in Int
                       /\ Need[granted[i].p] \in Nat /\ Limit(Need[granted[i].p]) \in Nat
  BY <1>3, SpentOf, RedbanConstants DEF Grants
<1>14. Limit(Need[p]) \in Nat /\ Limit(Need[p]) >= Need[p]
  BY <1>2, RedbanConstants
<1>15. ASSUME NEW i \in 1..n
       PROVE Owed(i) + Need[p] + bal[p].tokens <= Limit(Need[granted[i].p]) + (bal[p].last - granted[i].at)
  BY <1>3, <1>6 DEF Paid
<1>16. Paid(0, file.b)'
  <2> SUFFICES ASSUME NEW i \in 1..(n + 1)
               PROVE (RB!Spent' - granted'[i].upto + Need[granted'[i].p]) + 0 + bal[p].tokens
                       <= Limit(Need[granted'[i].p]) + (bal[p].last - granted'[i].at)
    BY <1>4, <1>8, <1>9 DEF Paid, Owed, Limit
  <2>1. CASE i = n + 1
    <3>1. granted'[i].upto = RB!Spent + Need[p] /\ granted'[i].p = p /\ granted'[i].at = bal[p].last
      BY <1>2, <1>4, <1>6, <2>1
    <3>2. RB!Spent' - granted'[i].upto + Need[granted'[i].p] = Need[p]
      BY <1>2, <1>12, <3>1
    <3>3. Limit(Need[granted'[i].p]) + (bal[p].last - granted'[i].at) = Limit(Need[p])
      BY <1>7, <1>14, <3>1
    <3> QED BY <1>2, <1>6, <1>7, <1>14, <3>2, <3>3
  <2>2. CASE i \in 1..n
    <3>1. (RB!Spent + Need[p]) - granted[i].upto + Need[granted[i].p] = Owed(i) + Need[p]
      <4>1. RB!Spent \in Int /\ Need[p] \in Int /\ granted[i].upto \in Int /\ Need[granted[i].p] \in Int
        BY <1>2, <1>13, <2>2
      <4>2. (RB!Spent + Need[p]) - granted[i].upto + Need[granted[i].p]
              = (RB!Spent - granted[i].upto + Need[granted[i].p]) + Need[p]
        BY <4>1, AddAside
      <4> QED BY <4>2 DEF Owed
    <3>2. RB!Spent' - granted'[i].upto + Need[granted'[i].p] = Owed(i) + Need[p]
      BY <1>4, <1>12, <2>2, <3>1
    <3>3. Limit(Need[granted'[i].p]) + (bal[p].last - granted'[i].at) = Limit(Need[granted[i].p]) + (bal[p].last - granted[i].at)
      BY <1>4, <2>2
    <3>4. Owed(i) + Need[p] + 0 + bal[p].tokens = Owed(i) + Need[p] + bal[p].tokens
      BY <1>2, <1>7, <1>13, <2>2
    <3> QED BY <1>15, <2>2, <3>2, <3>3, <3>4
  <2> QED BY <1>3, <2>1, <2>2
<1>17. \A i, j \in DOMAIN granted' : i <= j =>
         granted'[j].upto - granted'[i].upto + Need[granted'[i].p]
           <= Limit(Need[granted'[i].p]) + (granted'[j].at - granted'[i].at)
  <2> SUFFICES ASSUME NEW i \in 1..(n + 1), NEW j \in 1..(n + 1), i <= j
               PROVE granted'[j].upto - granted'[i].upto + Need[granted'[i].p]
                       <= Limit(Need[granted'[i].p]) + (granted'[j].at - granted'[i].at)
    BY <1>4
  <2>1. CASE j \in 1..n
    BY <1>3, <1>4, <2>1 DEF OneTaker
  <2>2. CASE j = n + 1 /\ i = n + 1
    BY <1>2, <1>4, <1>6, <1>7, <1>14, <2>2
  <2>3. CASE j = n + 1 /\ i \in 1..n
    <3>1. (RB!Spent + Need[p]) - granted[i].upto + Need[granted[i].p] = Owed(i) + Need[p]
      <4>1. RB!Spent \in Int /\ Need[p] \in Int /\ granted[i].upto \in Int /\ Need[granted[i].p] \in Int
        BY <1>2, <1>13, <2>3
      <4>2. (RB!Spent + Need[p]) - granted[i].upto + Need[granted[i].p]
              = (RB!Spent - granted[i].upto + Need[granted[i].p]) + Need[p]
        BY <4>1, AddAside
      <4> QED BY <4>2 DEF Owed
    <3>2. granted'[j].upto = RB!Spent + Need[p] /\ granted'[j].at = bal[p].last /\ granted'[i] = granted[i]
      BY <1>2, <1>4, <1>6, <2>3
    <3>3. granted'[j].upto - granted'[i].upto + Need[granted'[i].p] = Owed(i) + Need[p]
      BY <3>1, <3>2
    <3>4. Owed(i) + Need[p] + bal[p].tokens <= Limit(Need[granted[i].p]) + (bal[p].last - granted[i].at)
      BY <1>15, <2>3
    <3> DEFINE o == Owed(i)
               m == Limit(Need[granted[i].p])
               a == granted[i].at
               f == bal[p].last
               t == bal[p].tokens
               k == Need[p]
    <3>5. o \in Int /\ m \in Nat /\ a \in Int /\ f \in Int /\ t \in Nat /\ k \in Nat /\ o + k + t <= m + (f - a)
      BY <1>2, <1>7, <1>13, <2>3, <3>4
    <3> HIDE DEF o, m, a, f, t, k
    <3>6. o + k <= m + (f - a)
      BY <3>5
    <3> QED BY <3>2, <3>3, <3>6 DEF o, m, a, f, k
  <2> QED BY <1>3, <2>1, <2>2, <2>3
<1>18. \A i, j \in DOMAIN granted' : i <= j =>
         granted'[j].upto - granted'[i].upto + Need[granted'[i].p]
           <= Limit(Need[granted'[i].p]) + (granted'[j].at - granted'[i].at)
  BY <1>17 DEF Limit
<1>19. \A q \in Takers : InHand(q)'
  BY <1>10 DEF InHand, RB!Busy
<1> QED BY <1>8, <1>9, <1>10, <1>11, <1>16, <1>18, <1>19 DEF OneTaker

(* The other steps grant nothing.                                           *)
LEMMA RestKeepsBudget ==
  ASSUME RedbanInv, RB!Tick \/ \E p \in Takers : RB!SaveFails(p) \/ RB!Run(p) \/ RB!Kill(p) PROVE RedbanInv'
<1> USE DEF RedbanInv
<1>1. CASE RB!Tick
  <2>1. /\ clock' = clock + 1 /\ file' = file /\ tmp' = tmp /\ fd' = fd /\ command' = command /\ bal' = bal
        /\ wake' = wake /\ granted' = granted /\ alone' = alone
    BY <1>1 DEF RB!Tick
  <2>2. RedbanTypes'
    BY <2>1 DEF RedbanTypes
  <2>3. OneTaker => OneTaker'
    BY <2>1 DEF OneTaker, InHand, Paid, Owed, RB!Spent, Limit
  <2> QED BY <2>1, <2>2, <2>3
<1>2. ASSUME NEW p \in Takers, RB!SaveFails(p) PROVE RedbanInv'
  <2>1. granted' \in Seq(Grants)
    <3>1. [p |-> p, at |-> wake[p], upto |-> RB!Spent + Need[p]] \in Grants
      <4>1. RB!Spent \in Int
        BY SpentOf
      <4>2. Need[p] \in Nat /\ wake[p] \in Int
        BY RedbanConstants DEF RedbanTypes
      <4> QED BY <4>1, <4>2 DEF Grants
    <3> QED BY <1>2, <3>1 DEF RB!SaveFails, RB!Granted, RedbanTypes
  <2> QED BY <1>2, <2>1 DEF RB!SaveFails, RedbanTypes, TakerSteps
<1>3. ASSUME NEW p \in Takers, RB!Run(p) \/ RB!Kill(p) PROVE RedbanInv'
  <2>1. /\ clock' = clock /\ file' = file /\ tmp' = tmp /\ granted' = granted /\ alone' = alone
        /\ bal' = [bal EXCEPT ![p] = RB!NoBucket] /\ wake' = [wake EXCEPT ![p] = 0]
        /\ command' = [command EXCEPT ![p] = command'[p]] /\ command[p] \in {"sleeping"} \cup RB!Busy
        /\ command'[p] \in {"ok", "nothing to run", "failed command", "killed"}
        /\ \/ fd' = fd /\ command[p] = "sleeping"
           \/ fd' = [fd EXCEPT ![p] = "none"]
    BY <1>3 DEF RB!Run, RB!Kill, RB!Forget, RedbanTypes
  <2>2. RedbanTypes'
    <3>1. bal' \in [Takers -> Balances] /\ wake' \in [Takers -> Int]
      <4>1. RB!NoBucket \in Balances
        BY DEF RB!NoBucket, Balances
      <4>2. bal \in [Takers -> Balances] /\ wake \in [Takers -> Int]
        BY DEF RedbanTypes
      <4>3. bal' = [bal EXCEPT ![p] = RB!NoBucket] /\ wake' = [wake EXCEPT ![p] = 0]
        BY <2>1
      <4>4. [bal EXCEPT ![p] = RB!NoBucket] \in [Takers -> Balances]
        BY <4>1, <4>2
      <4>5. [wake EXCEPT ![p] = 0] \in [Takers -> Int]
        BY <4>2
      <4> QED BY <4>3, <4>4, <4>5
    <3>2. command' \in [Takers -> TakerSteps] /\ fd' \in [Takers -> {"none", "tmp", "file", "gone"}]
      <4>1. command \in [Takers -> TakerSteps] /\ fd \in [Takers -> {"none", "tmp", "file", "gone"}]
        BY DEF RedbanTypes
      <4>2. command' = [command EXCEPT ![p] = command'[p]] /\ command'[p] \in TakerSteps
        BY <2>1, <4>1 DEF TakerSteps
      <4>3. fd' = fd \/ fd' = [fd EXCEPT ![p] = "none"]
        BY <2>1
      <4>4. command' \in [Takers -> TakerSteps]
        BY <4>1, <4>2
      <4>5. fd' \in [Takers -> {"none", "tmp", "file", "gone"}]
        BY <4>1, <4>3
      <4> QED BY <4>4, <4>5
    <3> QED BY <2>1, <3>1, <3>2 DEF RedbanTypes
  <2> SUFFICES ASSUME alone PROVE OneTaker'
    BY <2>1, <2>2
  <2>3. \A q \in Takers \ {p} : command'[q] = command[q] /\ bal'[q] = bal[q] /\ wake'[q] = wake[q] /\ fd'[q] = fd[q]
    BY <2>1 DEF RedbanTypes
  <2>4. fd'[p] = "none"
    BY <2>1 DEF OneTaker, RedbanTypes
  <2>5. \A q \in Takers : InHand(q)'
    <3>1. InHand(p)'
      BY <2>1 DEF InHand
    <3>2. ASSUME NEW q \in Takers \ {p} PROVE InHand(q)'
      <4>1. InHand(q)
        BY DEF OneTaker
      <4> QED BY <2>1, <2>3, <4>1 DEF InHand, Paid, Owed, RB!Spent, Limit
    <3> QED BY <3>1, <3>2
  <2>6. /\ \A q, r \in Takers : command'[q] \in RB!Busy /\ command'[r] \in RB!Busy => q = r
        /\ \A q \in Takers : fd'[q] # "none" => command'[q] \in {"saving", "written"}
    BY <2>1, <2>3, <2>4 DEF OneTaker, RB!Busy
  <2>7. file'.is = "saved" => Paid(0, file.b)'
    BY <2>1 DEF Paid, Owed, RB!Spent, OneTaker, Limit
  <2>8. \A i, j \in DOMAIN granted' : i <= j =>
         granted'[j].upto - granted'[i].upto + Need[granted'[i].p]
           <= Limit(Need[granted'[i].p]) + (granted'[j].at - granted'[i].at)
    BY <2>1 DEF OneTaker, Limit
  <2> QED BY <2>1, <2>5, <2>6, <2>7, <2>8 DEF OneTaker
<1> QED BY <1>1, <1>2, <1>3

LEMMA RedbanInvStep == RedbanInv /\ (RB!Next \/ UNCHANGED RB!vars) => RedbanInv'
<1> SUFFICES ASSUME RedbanInv, RB!Next \/ UNCHANGED RB!vars PROVE RedbanInv'
  OBVIOUS
<1>1. CASE UNCHANGED RB!vars
  <2>1. RedbanTypes'
    BY <1>1 DEF RB!vars, RedbanInv, RedbanTypes
  <2>2. OneTaker => OneTaker'
    BY <1>1 DEF RB!vars, OneTaker, InHand, Paid, Owed, RB!Spent, Limit
  <2> QED BY <1>1, <2>1, <2>2 DEF RB!vars, RedbanInv
<1> QED BY <1>1, OpenKeepsBudget, TakeKeepsBudget, SaveKeepsBudget, RenameKeepsBudget, RestKeepsBudget DEF RB!Next

LEMMA RedbanKeepsPromise == RedbanInv => RB!BudgetSurvives /\ RB!BalanceIsReadable
<1>1. RedbanInv => RB!BudgetSurvives
  BY DEF RedbanInv, OneTaker, Limit, RB!BudgetSurvives
<1>2. RedbanInv => RB!BalanceIsReadable
  BY DEF RedbanInv, OneTaker, RB!BalanceIsReadable, RB!Empty, RB!Garbled
<1> QED BY <1>1, <1>2

----------------------------------------------------------------------------
(* ipv1: what is decoded is what was encoded; and while the commands work   *)
(* on the file one at a time, names lead to where they were bound last.     *)

Words == Seq(Letters)
Packet == [src : Words, dst : Words, payload : Words]

(* Two sequences put together, element by element.                          *)
LEMMA JoinedWords ==
  ASSUME NEW A, NEW s \in Seq(A), NEW t \in Seq(A)
  PROVE /\ s \o t \in Seq(A) /\ Len(s \o t) = Len(s) + Len(t)
        /\ \A i \in 1..Len(s) : (s \o t)[i] = s[i]
        /\ \A i \in 1..Len(t) : (s \o t)[Len(s) + i] = t[i]
BY ConcatProperties

LEMMA JoinedAgain ==
  ASSUME NEW A, NEW s \in Seq(A), NEW t \in Seq(A), NEW u \in Seq(A), NEW v \in Seq(A)
  PROVE ((s \o t) \o u) \o v = s \o (t \o (u \o v))
<1>1. PICK x \in Seq(A), y \in Seq(A) : x = s \o t /\ y = u \o v
  BY JoinedWords
<1>2. (x \o u) \o v = x \o (u \o v)
  BY ConcatAssociative, Z3T(30)
<1>3. (s \o t) \o y = s \o (t \o y)
  BY ConcatAssociative, Z3T(30)
<1> QED BY <1>1, <1>2, <1>3, Z3T(30)

LEMMA CutWords ==
  ASSUME NEW A, NEW s \in Seq(A), NEW m \in Nat \ {0}, NEW n \in Nat, m <= n + 1, n <= Len(s)
  PROVE /\ SubSeq(s, m, n) \in Seq(A) /\ Len(SubSeq(s, m, n)) = n - m + 1
        /\ \A i \in 1..(n - m + 1) : SubSeq(s, m, n)[i] = s[m + i - 1]
BY SubSeqProperties

(* A word with its length before it is read back, and what follows it.      *)
LEMMA PrefixedWord ==
  ASSUME NEW A, NEW w \in Seq(A), NEW rest \in Seq(A), Len(w) \in A \cap IP!Uint16
  PROVE LET all == IP!PutLenPrefixed(w) \o rest IN
        all \in Seq(A) /\ Len(all) = 1 + Len(w) + Len(rest) /\ IP!HasPrefix(all) /\ IP!GetLenPrefixed(all) = w /\ IP!After(all) = rest
<1> DEFINE pre == <<Len(w)>> \o w
           all == pre \o rest
           n == Len(w)
<1>1. n \in Nat /\ Len(rest) \in Nat /\ <<n>> \in Seq(A) /\ Len(<<n>>) = 1 /\ <<n>>[1] = n
  OBVIOUS
<1>2. /\ pre \in Seq(A) /\ Len(pre) = 1 + n /\ pre[1] = n /\ \A i \in 1..n : pre[1 + i] = w[i]
  BY <1>1, JoinedWords
<1> HIDE DEF pre
<1>3. /\ all \in Seq(A) /\ Len(all) = 1 + n + Len(rest)
      /\ \A i \in 1..(1 + n) : all[i] = pre[i]
      /\ \A i \in 1..Len(rest) : all[1 + n + i] = rest[i]
  <2>1. /\ all \in Seq(A) /\ Len(all) = Len(pre) + Len(rest)
        /\ \A i \in 1..Len(pre) : all[i] = pre[i]
        /\ \A i \in 1..Len(rest) : all[Len(pre) + i] = rest[i]
    <3>1. pre \in Seq(A) /\ rest \in Seq(A)
      BY <1>2
    <3> QED BY <3>1, JoinedWords
  <2> HIDE DEF all
  <2> QED BY <1>1, <1>2, <2>1
<1>4. all[1] = n /\ \A i \in 1..n : all[1 + i] = w[i]
  BY <1>1, <1>2, <1>3
<1>5. IP!PutLenPrefixed(w) \o rest = all
  BY DEF IP!PutLenPrefixed, pre
<1> HIDE DEF all
<1>6. IP!HasPrefix(all)
  <2>1. n \in IP!Uint16 /\ Len(all) >= 1 + n /\ Len(all) # 0
    BY <1>1, <1>3
  <2>2. all # <<>>
    BY <2>1
  <2>3. all[1] \in IP!Uint16 /\ Len(all) >= 1 + all[1]
    BY <1>4, <2>1
  <2> QED BY <2>2, <2>3 DEF IP!HasPrefix
<1>7. IP!GetLenPrefixed(all) = w
  <2> DEFINE g == SubSeq(all, 2, 1 + n)
  <2>1. g \in Seq(A) /\ Len(g) = n /\ \A i \in 1..n : g[i] = all[2 + i - 1]
    <3>1. 2 \in Nat \ {0} /\ 1 + n \in Nat /\ 2 <= (1 + n) + 1 /\ 1 + n <= Len(all) /\ (1 + n) - 2 + 1 = n
      BY <1>1, <1>3
    <3> QED BY <1>3, <3>1, CutWords
  <2>2. \A i \in 1..n : g[i] = w[i]
    BY <1>1, <1>4, <2>1
  <2> HIDE DEF g
  <2>3. g = w
    BY <2>1, <2>2, SeqEqual
  <2> QED BY <1>4, <2>3 DEF IP!GetLenPrefixed, g
<1>8. IP!After(all) = rest
  <2> DEFINE g == SubSeq(all, 2 + n, Len(all))
  <2>1. g \in Seq(A) /\ Len(g) = Len(rest) /\ \A i \in 1..Len(rest) : g[i] = all[(2 + n) + i - 1]
    <3>1. 2 + n \in Nat \ {0} /\ Len(all) \in Nat /\ 2 + n <= Len(all) + 1 /\ Len(all) <= Len(all) /\ Len(all) - (2 + n) + 1 = Len(rest)
      BY <1>1, <1>3
    <3> QED BY <1>3, <3>1, CutWords
  <2>2. \A i \in 1..Len(rest) : g[i] = rest[i]
    BY <1>1, <1>3, <2>1
  <2> HIDE DEF g
  <2>3. g = rest
    BY <2>1, <2>2, SeqEqual
  <2> QED BY <1>4, <2>3 DEF IP!After, g
<1> QED BY <1>1, <1>3, <1>5, <1>6, <1>7, <1>8

(* Decode undoes Encode.                                                    *)
LEMMA DecodeUndoes == ASSUME NEW k \in Packet, IP!Encodable(k) PROVE IP!Decode(IP!Encode(k)) = k
<1> DEFINE A == Letters \cup Nat \cup {"v1"}
           src == k.src
           dst == k.dst
           pay == k.payload
           tail == IP!PutLenPrefixed(dst) \o pay
           body == IP!PutLenPrefixed(src) \o tail
<1>1. src \in Seq(A) /\ dst \in Seq(A) /\ pay \in Seq(A) /\ Len(src) \in A /\ Len(dst) \in A
  BY DEF Packet, Words
<1>2. IP!ValidateAddr(src) /\ IP!ValidateAddr(dst) /\ Len(src) \in IP!Uint16 /\ Len(dst) \in IP!Uint16
  <2>1. IP!ValidateAddr(src) /\ IP!ValidateAddr(dst) /\ Len(src) <= MaxAddrLen /\ Len(dst) <= MaxAddrLen
    BY DEF IP!Encodable
  <2>2. Len(src) \in Nat /\ Len(dst) \in Nat
    BY <1>1
  <2>3. MaxAddrLen \in Nat /\ 0..MaxAddrLen \subseteq IP!Uint16
    BY Ipv1Assumption DEF Ipv1Assumption
  <2> HIDE DEF src, dst
  <2> QED BY <2>1, <2>2, <2>3
<1>3. k = [src |-> src, dst |-> dst, payload |-> pay]
  BY DEF Packet
<1>4. IP!PutLenPrefixed(src) \in Seq(A) /\ IP!PutLenPrefixed(dst) \in Seq(A) /\ <<"v1">> \in Seq(A)
  BY <1>1 DEF IP!PutLenPrefixed
<1> HIDE DEF A, src, dst, pay
<1>5. /\ tail \in Seq(A) /\ Len(tail) = 1 + Len(dst) + Len(pay)
      /\ IP!HasPrefix(tail) /\ IP!GetLenPrefixed(tail) = dst /\ IP!After(tail) = pay
  BY <1>1, <1>2, PrefixedWord
<1> HIDE DEF tail
<1>6. /\ body \in Seq(A) /\ Len(body) = 1 + Len(src) + Len(tail)
      /\ IP!HasPrefix(body) /\ IP!GetLenPrefixed(body) = src /\ IP!After(body) = tail
  <2>1. src \in Seq(A) /\ tail \in Seq(A) /\ Len(src) \in A /\ Len(src) \in IP!Uint16
    BY <1>1, <1>2, <1>5
  <2> QED BY <2>1, PrefixedWord
<1>7. IP!Encode(k) = <<"v1">> \o body
  <2>1. ((<<"v1">> \o IP!PutLenPrefixed(src)) \o IP!PutLenPrefixed(dst)) \o pay
          = <<"v1">> \o (IP!PutLenPrefixed(src) \o (IP!PutLenPrefixed(dst) \o pay))
    BY <1>1, <1>4, JoinedAgain, Z3T(30)
  <2>2. IP!Encode(k) = ((<<"v1">> \o IP!PutLenPrefixed(src)) \o IP!PutLenPrefixed(dst)) \o pay
    BY DEF IP!Encode, src, dst, pay
  <2>3. body = IP!PutLenPrefixed(src) \o (IP!PutLenPrefixed(dst) \o pay)
    BY DEF body, tail
  <2> HIDE DEF body
  <2> QED BY <2>1, <2>2, <2>3
<1> HIDE DEF body
<1> DEFINE b == <<"v1">> \o body
<1>8. b[1] = "v1" /\ Len(b) >= 3 /\ Tail(b) = body
  <2>1. Len(b) = 1 + Len(body) /\ b[1] = "v1"
    BY <1>4, <1>6, JoinedWords
  <2>2. Len(src) \in Nat /\ Len(dst) \in Nat /\ Len(pay) \in Nat
    BY <1>1
  <2>3. Len(body) >= 2
    BY <1>5, <1>6, <2>2
  <2>4. Tail(b) = body
    BY <1>6
  <2> QED BY <1>6, <2>1, <2>3, <2>4
<1> HIDE DEF b
<1>9. IP!Decode(b) = [src |-> src, dst |-> dst, payload |-> pay]
  <2>1. ~(Len(b) < 3 \/ b[1] # "v1" \/ ~IP!HasPrefix(Tail(b)))
    <3>1. Len(b) \in Nat
      BY <1>4, <1>6, <1>8
    <3>2. ~(Len(b) < 3)
      BY <1>8, <3>1
    <3> QED BY <1>6, <1>8, <3>2
  <2>2. IP!GetLenPrefixed(Tail(b)) = src /\ IP!After(Tail(b)) = tail
    BY <1>6, <1>8
  <2> QED BY <1>2, <1>5, <2>1, <2>2 DEF IP!Decode
<1> QED BY <1>3, <1>7, <1>9 DEF b

(* Names as they are given out: each to the command that bound it, in the   *)
(* registry st, by the script's commands.                                   *)
LeadsFor(st, script, p, name) ==
  /\ name \in DOMAIN st.addrs
  /\ \/ st.addrs[name] = script[p].ep
     \/ \E q \in DOMAIN script : /\ q > p /\ script[q].op \in {"register", "listen"}
                                 /\ script[q].addr = name /\ st.addrs[name] = script[q].ep
Leads(st, script, names) == \A p \in DOMAIN names : LeadsFor(st, script, p, names[p])
Unused(names, p, name) == \A q \in DOMAIN names : q < p => names[q] # name
Once(script, names) == \A p \in DOMAIN names : script[p].op = "allocate" => Unused(names, p, names[p])
Holds(st, script, p, name, names) ==
  /\ Leads(st, script, names) /\ script[p].op # "send"
  /\ name \in DOMAIN st.addrs /\ st.addrs[name] = script[p].ep
  /\ script[p].op = "allocate" => Unused(names, p, name)
Ready(s, st, script, p, name, names) ==
  /\ s \in {"cut", "write"} => Leads(st, script, names)
  /\ s \in {"cut again", "write again"} => Holds(st, script, p, name, names)
Narrows(new, old) == \A p \in DOMAIN new : p \in DOMAIN old /\ new[p] = old[p]

Names == [p \in {q \in IP!Procs : IP!Binds(q)} |-> IP!NameOf(p)]

(* The commands start in turn; while they do not overlap, one that is at    *)
(* the file is the last that has started.                                   *)
ScriptInTurn == \A p, q \in IP!Procs : q < p /\ command[p] # "new" => command[q] # "new"
OneAtFile == \A p, q \in IP!Procs : q < p /\ command[p] # "new" => command[q] \notin IP!AtFile

(* The registry, and what the command at the file is about to write, lead   *)
(* every name that was given to where it was bound last.                    *)
NamesAreKept ==
  /\ OneAtFile
  /\ ~file.cut => Leads(file.st, cmd, Names)
  /\ Once(cmd, Names)
  /\ \A p \in IP!Procs : Ready(command[p], mem[p], cmd, p, IP!NameOf(p), Names)
ScriptOK == IP!Procs \subseteq Nat /\ DOMAIN command = IP!Procs /\ DOMAIN mem = IP!Procs /\ DOMAIN answer = IP!Procs
NamesInv == ScriptOK /\ ScriptInTurn /\ (alone => NamesAreKept)

LEMMA NarrowNames ==
  ASSUME NEW new, NEW old, Narrows(new, old), NEW script
  PROVE /\ \A st : Leads(st, script, old) => Leads(st, script, new)
        /\ \A p, name : Unused(old, p, name) => Unused(new, p, name)
        /\ Once(script, old) => Once(script, new)
        /\ \A st, p, name : Holds(st, script, p, name, old) => Holds(st, script, p, name, new)
        /\ \A s, st, p, name : Ready(s, st, script, p, name, old) => Ready(s, st, script, p, name, new)
<1>1. \A st : Leads(st, script, old) => Leads(st, script, new)
  BY DEF Leads, Narrows
<1>2. \A p, name : Unused(old, p, name) => Unused(new, p, name)
  BY DEF Unused, Narrows
<1>3. Once(script, old) => Once(script, new)
  BY <1>2 DEF Once, Narrows
<1>4. \A st, p, name : Holds(st, script, p, name, old) => Holds(st, script, p, name, new)
  BY <1>1, <1>2 DEF Holds
<1>5. \A s, st, p, name : Ready(s, st, script, p, name, old) => Ready(s, st, script, p, name, new)
  BY <1>1, <1>4 DEF Ready
<1> QED BY <1>1, <1>2, <1>3, <1>4, <1>5

(* The command p goes from one step to the next: who has started and who is *)
(* at the file stays in order.                                              *)
LEMMA GoingStaysInOrder ==
  ASSUME ScriptOK, ScriptInTurn, NEW p \in IP!Procs, NEW s, command' = [command EXCEPT ![p] = s], cmd' = cmd,
         command[p] # "new", s # "new", s \in IP!AtFile => command[p] \in IP!AtFile
  PROVE ScriptInTurn' /\ (OneAtFile => OneAtFile')
<1>1. IP!Procs' = IP!Procs /\ \A q \in IP!Procs : command'[q] = IF q = p THEN s ELSE command[q]
  BY DEF ScriptOK, IP!Procs
<1>2. ScriptInTurn'
  BY <1>1 DEF ScriptInTurn
<1>3. ASSUME OneAtFile PROVE OneAtFile'
  BY <1>1, <1>3 DEF OneAtFile, IP!AtFile
<1> QED BY <1>2, <1>3

(* Names are given by the last write of a command, and by nothing else.     *)
LEMMA GoingNarrows ==
  ASSUME ScriptOK, NEW p \in IP!Procs, NEW s, command' = [command EXCEPT ![p] = s], cmd' = cmd,
         \A q \in IP!Procs \ {p} : answer'[q] = answer[q],
         \/ s \notin {"done", "listening"}
         \/ cmd[p].op = "send"
         \/ command[p] = "listening" /\ answer'[p] = answer[p]
  PROVE Narrows(Names', Names)
<1>1. IP!Procs' = IP!Procs /\ \A q \in IP!Procs : command'[q] = IF q = p THEN s ELSE command[q]
  BY DEF ScriptOK, IP!Procs
<1>2. ASSUME NEW q \in DOMAIN Names' PROVE q \in DOMAIN Names /\ Names'[q] = Names[q]
  <2>1. q \in IP!Procs /\ IP!Binds(q)' /\ Names'[q] = IP!NameOf(q)'
    BY <1>1 DEF Names
  <2>2. IP!Binds(q) /\ IP!NameOf(q)' = IP!NameOf(q)
    BY <1>1, <2>1 DEF IP!Binds, IP!NameOf
  <2> QED BY <2>1, <2>2 DEF Names
<1> QED BY <1>2 DEF Narrows

(* A command that goes on without a change to the file or to what it is     *)
(* about to write.                                                          *)
LEMMA GoingKeepsNames ==
  ASSUME NamesInv, NEW p \in IP!Procs, NEW s, command' = [command EXCEPT ![p] = s], cmd' = cmd,
         command[p] # "new", s \notin {"new", "cut", "write", "cut again", "write again"},
         s \in IP!AtFile => command[p] \in IP!AtFile,
         \/ s \notin {"done", "listening"}
         \/ cmd[p].op = "send"
         \/ command[p] = "listening" /\ answer'[p] = answer[p],
         DOMAIN answer' = DOMAIN answer, \A q \in IP!Procs \ {p} : answer'[q] = answer[q],
         file' = file, mem' = mem, alone' => alone
  PROVE NamesInv'
<1> USE DEF NamesInv
<1>1. IP!Procs' = IP!Procs /\ \A q \in IP!Procs : command'[q] = IF q = p THEN s ELSE command[q]
  BY DEF ScriptOK, IP!Procs
<1>2. ScriptOK'
  BY <1>1 DEF ScriptOK
<1>3. ScriptInTurn' /\ (OneAtFile => OneAtFile')
  BY GoingStaysInOrder
<1>4. ASSUME alone' PROVE NamesAreKept'
  <2>1. NamesAreKept
    BY <1>4
  <2>2. Narrows(Names', Names)
    BY GoingNarrows
  <2>3. OneAtFile' /\ (~file'.cut => Leads(file'.st, cmd', Names')) /\ Once(cmd', Names')
    BY <1>3, <2>1, <2>2, NarrowNames DEF NamesAreKept
  <2>4. ASSUME NEW q \in IP!Procs PROVE Ready(command'[q], mem'[q], cmd', q, IP!NameOf(q)', Names')
    <3>1. CASE q = p
      BY <1>1, <3>1 DEF Ready
    <3>2. CASE q # p
      <4>1. IP!NameOf(q)' = IP!NameOf(q)
        BY <3>2 DEF IP!NameOf
      <4>2. Ready(command[q], mem[q], cmd, q, IP!NameOf(q), Names')
        BY <2>1, <2>2, NarrowNames DEF NamesAreKept
      <4> QED BY <1>1, <3>2, <4>1, <4>2
    <3> QED BY <3>1, <3>2
  <2> QED BY <1>1, <2>3, <2>4 DEF NamesAreKept
<1> QED BY <1>2, <1>3, <1>4

(* A command starts: it has bound nothing, and if it is the only one at the *)
(* file, the others are not.                                                *)
LEMMA StartKeepsNames == ASSUME NamesInv, NEW p \in IP!Procs, IP!Start(p) PROVE NamesInv'
<1> USE DEF NamesInv
<1>1. PICK s \in {"read", "failed"} : command' = [command EXCEPT ![p] = s]
  BY DEF IP!Start, IP!Goto
<1>2. /\ command[p] = "new" /\ (\A q \in IP!Procs : q < p => command[q] # "new")
      /\ cmd' = cmd /\ file' = file /\ mem' = mem /\ answer' = answer
      /\ alone' => alone /\ \A q \in IP!Procs : command[q] \notin IP!AtFile
  BY DEF IP!Start
<1>3. IP!Procs' = IP!Procs /\ \A q \in IP!Procs : command'[q] = IF q = p THEN s ELSE command[q]
  BY <1>1, <1>2 DEF ScriptOK, IP!Procs
<1>4. ScriptOK'
  BY <1>1, <1>2, <1>3 DEF ScriptOK
<1>5. ScriptInTurn'
  BY <1>1, <1>2, <1>3 DEF ScriptInTurn
<1>6. ASSUME alone' PROVE NamesAreKept'
  <2>1. NamesAreKept
    BY <1>2, <1>6
  <2>2. OneAtFile'
    <3> SUFFICES ASSUME NEW a \in IP!Procs, NEW q \in IP!Procs, q < a, command'[a] # "new" PROVE command'[q] \notin IP!AtFile
      BY <1>3 DEF OneAtFile, IP!AtFile
    <3>1. CASE q = p
      <4>1. a # p /\ command[a] # "new"
        BY <1>3, <3>1 DEF ScriptOK
      <4>2. command[p] # "new"
        BY <3>1, <4>1 DEF ScriptInTurn
      <4> QED BY <1>2, <4>2
    <3>2. CASE q # p
      BY <1>2, <1>3, <1>6, <3>2
    <3> QED BY <3>1, <3>2
  <2>3. Narrows(Names', Names)
    BY <1>1, <1>2, GoingNarrows
  <2>4. (~file'.cut => Leads(file'.st, cmd', Names')) /\ Once(cmd', Names')
    BY <1>2, <2>1, <2>3, NarrowNames DEF NamesAreKept
  <2>5. ASSUME NEW q \in IP!Procs PROVE Ready(command'[q], mem'[q], cmd', q, IP!NameOf(q)', Names')
    <3>1. CASE q = p
      BY <1>1, <1>3, <3>1 DEF Ready
    <3>2. CASE q # p
      <4>1. IP!NameOf(q)' = IP!NameOf(q)
        BY <1>2 DEF IP!NameOf
      <4>2. Ready(command[q], mem[q], cmd, q, IP!NameOf(q), Names')
        BY <2>1, <2>3, NarrowNames DEF NamesAreKept
      <4> QED BY <1>2, <1>3, <3>2, <4>1, <4>2
    <3> QED BY <3>1, <3>2
  <2> QED BY <1>3, <2>2, <2>4, <2>5 DEF NamesAreKept
<1> QED BY <1>4, <1>5, <1>6

(* A step at the file by a command that stays at it: the others are ready   *)
(* as they were, and the file or what the command is to write leads.        *)
LEMMA FileStepKeepsNames ==
  ASSUME NamesInv, NEW p \in IP!Procs, NEW s \in IP!AtFile, command' = [command EXCEPT ![p] = s],
         command[p] \in IP!AtFile, cmd' = cmd, alone' = alone,
         DOMAIN mem' = DOMAIN mem, DOMAIN answer' = DOMAIN answer,
         \A q \in IP!Procs \ {p} : mem'[q] = mem[q] /\ answer'[q] = answer[q],
         alone => /\ ~file'.cut => Leads(file'.st, cmd, Names)
                  /\ Ready(s, mem'[p], cmd, p, IP!NameOf(p)', Names)
  PROVE NamesInv'
<1> USE DEF NamesInv
<1>1. IP!Procs' = IP!Procs /\ \A q \in IP!Procs : command'[q] = IF q = p THEN s ELSE command[q]
  BY DEF ScriptOK, IP!Procs
<1>2. ScriptOK'
  BY <1>1 DEF ScriptOK
<1>3. command[p] # "new" /\ s # "new" /\ s \notin {"done", "listening"}
  BY DEF IP!AtFile
<1>4. ScriptInTurn' /\ (OneAtFile => OneAtFile')
  BY <1>3, GoingStaysInOrder
<1>5. ASSUME alone' PROVE NamesAreKept'
  <2>1. NamesAreKept
    BY <1>5
  <2>2. Narrows(Names', Names)
    BY <1>3, GoingNarrows
  <2>3. OneAtFile' /\ (~file'.cut => Leads(file'.st, cmd', Names')) /\ Once(cmd', Names')
    BY <1>4, <1>5, <2>1, <2>2, NarrowNames DEF NamesAreKept
  <2>4. ASSUME NEW q \in IP!Procs PROVE Ready(command'[q], mem'[q], cmd', q, IP!NameOf(q)', Names')
    <3>1. CASE q = p
      <4>1. Ready(s, mem'[p], cmd, p, IP!NameOf(p)', Names)
        BY <1>5
      <4>2. Ready(s, mem'[p], cmd, p, IP!NameOf(p)', Names')
        BY <2>2, <4>1, NarrowNames
      <4>3. IP!NameOf(q)' = IP!NameOf(p)'
        BY <3>1 DEF IP!NameOf
      <4> QED BY <1>1, <3>1, <4>2, <4>3
    <3>2. CASE q # p
      <4>1. IP!NameOf(q)' = IP!NameOf(q)
        BY <3>2 DEF IP!NameOf
      <4>2. Ready(command[q], mem[q], cmd, q, IP!NameOf(q), Names')
        BY <2>1, <2>2, NarrowNames DEF NamesAreKept
      <4> QED BY <1>1, <3>2, <4>1, <4>2
    <3> QED BY <3>1, <3>2
  <2> QED BY <1>1, <2>3, <2>4 DEF NamesAreKept
<1> QED BY <1>2, <1>4, <1>5

(* Open reads the registry and writes it back (ensure).                     *)
LEMMA EnsureKeepsNames == ASSUME NamesInv, NEW p \in IP!Procs, IP!Ensure(p) PROVE NamesInv'
<1> USE DEF NamesInv
<1>1. CASE IP!Read(p, "read", "cut")
  <2> USE <1>1 DEF IP!Read, IP!Goto
  <2>1. CASE file.cut
    BY <2>1, GoingKeepsNames DEF IP!Fail, IP!AtFile, IP!Goto
  <2>2. CASE ~file.cut
    <3>1. /\ command[p] = "read" /\ command' = [command EXCEPT ![p] = "cut"] /\ mem' = [mem EXCEPT ![p] = file.st]
          /\ cmd' = cmd /\ file' = file /\ answer' = answer /\ alone' = alone
      BY <2>2
    <3>2. mem'[p] = file.st /\ \A q \in IP!Procs \ {p} : mem'[q] = mem[q]
      BY <3>1 DEF ScriptOK
    <3>3. alone => Leads(file.st, cmd, Names)
      BY <2>2 DEF NamesAreKept
    <3>4. alone => Ready("cut", mem'[p], cmd, p, IP!NameOf(p)', Names)
      BY <3>2, <3>3 DEF Ready
    <3>5. "cut" \in IP!AtFile /\ command[p] \in IP!AtFile
      BY <3>1 DEF IP!AtFile
    <3> QED BY <3>1, <3>2, <3>3, <3>4, <3>5, FileStepKeepsNames
  <2> QED BY <2>1, <2>2
<1>2. CASE IP!Truncate(p, "cut", "write")
  <2>1. /\ command[p] = "cut" /\ command' = [command EXCEPT ![p] = "write"] /\ file' = IP!Truncated
        /\ cmd' = cmd /\ mem' = mem /\ answer' = answer /\ alone' = alone
    BY <1>2 DEF IP!Truncate, IP!Goto
  <2>2. file'.cut
    BY <2>1 DEF IP!Truncated
  <2>3. alone => Ready("write", mem[p], cmd, p, IP!NameOf(p)', Names)
    BY <2>1 DEF NamesAreKept, Ready
  <2>4. "write" \in IP!AtFile /\ command[p] \in IP!AtFile
    BY <2>1 DEF IP!AtFile
  <2> QED BY <2>1, <2>2, <2>3, <2>4, FileStepKeepsNames
<1>3. CASE IP!Write(p, "write", "again")
  <2>1. /\ command[p] = "write" /\ command' = [command EXCEPT ![p] = "again"] /\ file' = IP!Saved(mem[p])
        /\ mem' = [mem EXCEPT ![p] = IP!NoState]
        /\ cmd' = cmd /\ answer' = answer /\ alone' = alone
    BY <1>3 DEF IP!Write, IP!Goto
  <2>2. file'.st = mem[p] /\ \A q \in IP!Procs \ {p} : mem'[q] = mem[q]
    BY <2>1 DEF IP!Saved, ScriptOK
  <2>3. alone => Leads(file'.st, cmd, Names)
    BY <2>1, <2>2 DEF NamesAreKept, Ready
  <2>4. Ready("again", mem'[p], cmd, p, IP!NameOf(p)', Names)
    BY DEF Ready
  <2>5. "again" \in IP!AtFile /\ command[p] \in IP!AtFile
    BY <2>1 DEF IP!AtFile
  <2> QED BY <2>1, <2>2, <2>3, <2>4, <2>5, FileStepKeepsNames
<1> QED BY <1>1, <1>2, <1>3 DEF IP!Ensure

(* While a command is at the file, those that bound a name come before it.  *)
LEMMA BindersBefore ==
  ASSUME ScriptOK, OneAtFile, NEW p \in IP!Procs, command[p] \in IP!AtFile
  PROVE \A q \in DOMAIN Names : q < p
<1> SUFFICES ASSUME NEW q \in DOMAIN Names PROVE q < p
  OBVIOUS
<1>1. q \in IP!Procs /\ command[q] \in {"done", "listening"}
  BY DEF Names, IP!Binds
<1>2. q # p /\ q \in Nat /\ p \in Nat
  BY <1>1 DEF ScriptOK, IP!AtFile
<1>3. CASE p < q
  BY <1>1, <1>3 DEF OneAtFile
<1> QED BY <1>2, <1>3

(* One more name: a new one, or one that a later command binds again.       *)
LEMMA PutLeads ==
  ASSUME NEW st, NEW script, NEW names, NEW p \in DOMAIN script, NEW name, NEW n, NEW new,
         Leads(st, script, names), \A q \in DOMAIN names : q < p, script[p].op # "send",
         new = [addrs |-> IP!Put(st.addrs, name, script[p].ep), next |-> n],
         \/ script[p].op \in {"register", "listen"} /\ script[p].addr = name
         \/ name \notin DOMAIN st.addrs
  PROVE Holds(new, script, p, name, names)
<1>1. /\ DOMAIN new.addrs = DOMAIN st.addrs \cup {name}
      /\ \A x \in DOMAIN new.addrs : new.addrs[x] = IF x = name THEN script[p].ep ELSE st.addrs[x]
  BY DEF IP!Put
<1>2. ASSUME NEW q \in DOMAIN names PROVE LeadsFor(new, script, q, names[q])
  <2>1. LeadsFor(st, script, q, names[q]) /\ p > q
    BY DEF Leads
  <2>2. names[q] \in DOMAIN new.addrs
    BY <1>1, <2>1 DEF LeadsFor
  <2>3. CASE names[q] = name
    BY <1>1, <2>1, <2>2, <2>3 DEF LeadsFor
  <2>4. CASE names[q] # name
    BY <1>1, <2>1, <2>2, <2>4 DEF LeadsFor
  <2> QED BY <2>3, <2>4
<1>3. name \notin DOMAIN st.addrs => Unused(names, p, name)
  BY DEF Leads, LeadsFor, Unused
<1>4. script[p].op = "allocate" => Unused(names, p, name)
  BY <1>3
<1> QED BY <1>1, <1>2, <1>4 DEF Holds, Leads

LEMMA RegisterKeepsNames == ASSUME NamesInv, NEW p \in IP!Procs, IP!Register(p) PROVE NamesInv'
<1> USE DEF NamesInv
<1>1. command[p] = "again" /\ cmd[p].op \in {"register", "listen"} /\ cmd' = cmd /\ file' = file /\ answer' = answer /\ alone' = alone
  BY DEF IP!Register, IP!Registers
<1>2. CASE command' = [command EXCEPT ![p] = "failed"] /\ mem' = mem
  BY <1>1, <1>2, GoingKeepsNames DEF IP!AtFile
<1>3. CASE /\ mem' = [mem EXCEPT ![p] = [addrs |-> IP!Put(file.st.addrs, cmd[p].addr, cmd[p].ep), next |-> file.st.next]]
           /\ command' = [command EXCEPT ![p] = "cut again"] /\ ~file.cut
  <2>1. /\ mem'[p] = [addrs |-> IP!Put(file.st.addrs, cmd[p].addr, cmd[p].ep), next |-> file.st.next]
        /\ \A q \in IP!Procs \ {p} : mem'[q] = mem[q]
    BY <1>3 DEF ScriptOK
  <2>2. IP!NameOf(p)' = cmd[p].addr
    BY <1>1 DEF IP!NameOf
  <2>3. "cut again" \in IP!AtFile /\ command[p] \in IP!AtFile
    BY <1>1 DEF IP!AtFile
  <2>4. ASSUME alone PROVE Ready("cut again", mem'[p], cmd, p, IP!NameOf(p)', Names)
    <3>1. Leads(file.st, cmd, Names) /\ OneAtFile
      BY <1>3, <2>4 DEF NamesAreKept
    <3>2. \A q \in DOMAIN Names : q < p
      BY <2>3, <3>1, BindersBefore
    <3>3. p \in DOMAIN cmd /\ cmd[p].op # "send"
      BY <1>1 DEF IP!Procs
    <3>4. Holds(mem'[p], cmd, p, cmd[p].addr, Names)
      BY <1>1, <2>1, <3>1, <3>2, <3>3, PutLeads
    <3> QED BY <2>2, <3>4 DEF Ready
  <2>5. alone => (~file'.cut => Leads(file'.st, cmd, Names))
    BY <1>1 DEF NamesAreKept
  <2> QED BY <1>1, <1>3, <2>1, <2>3, <2>4, <2>5, FileStepKeepsNames
<1> QED BY <1>2, <1>3 DEF IP!Register, IP!Fail, IP!Goto

LEMMA AllocateKeepsNames == ASSUME NamesInv, NEW p \in IP!Procs, IP!Allocate(p) PROVE NamesInv'
<1> USE DEF NamesInv
<1>1. command[p] = "again" /\ cmd[p].op = "allocate" /\ cmd' = cmd /\ file' = file /\ alone' = alone
  BY DEF IP!Allocate
<1>2. CASE command' = [command EXCEPT ![p] = "failed"] /\ mem' = mem /\ answer' = answer
  BY <1>1, <1>2, GoingKeepsNames DEF IP!AtFile
<1>3. ASSUME NEW n \in IP!NextFree(file.st),
             mem' = [mem EXCEPT ![p] = [addrs |-> IP!Put(file.st.addrs, IP!Itoa(n), cmd[p].ep), next |-> n + 1]],
             answer' = [answer EXCEPT ![p] = IP!Itoa(n)],
             command' = [command EXCEPT ![p] = "cut again"], ~file.cut
      PROVE NamesInv'
  <2>1. /\ mem'[p] = [addrs |-> IP!Put(file.st.addrs, IP!Itoa(n), cmd[p].ep), next |-> n + 1]
        /\ \A q \in IP!Procs \ {p} : mem'[q] = mem[q] /\ answer'[q] = answer[q]
        /\ answer'[p] = IP!Itoa(n)
    BY <1>3 DEF ScriptOK
  <2>2. IP!NameOf(p)' = IP!Itoa(n)
    BY <1>1, <2>1 DEF IP!NameOf
  <2>3. "cut again" \in IP!AtFile /\ command[p] \in IP!AtFile
    BY <1>1 DEF IP!AtFile
  <2>4. ASSUME alone PROVE Ready("cut again", mem'[p], cmd, p, IP!NameOf(p)', Names)
    <3>1. Leads(file.st, cmd, Names) /\ OneAtFile
      BY <1>3, <2>4 DEF NamesAreKept
    <3>2. \A q \in DOMAIN Names : q < p
      BY <2>3, <3>1, BindersBefore
    <3>3. p \in DOMAIN cmd /\ cmd[p].op # "send" /\ IP!Itoa(n) \notin DOMAIN file.st.addrs
      BY <1>1 DEF IP!Procs, IP!NextFree
    <3>4. Holds(mem'[p], cmd, p, IP!Itoa(n), Names)
      BY <2>1, <3>1, <3>2, <3>3, PutLeads
    <3> QED BY <2>2, <3>4 DEF Ready
  <2>5. alone => (~file'.cut => Leads(file'.st, cmd, Names))
    BY <1>1 DEF NamesAreKept
  <2>6. DOMAIN mem' = DOMAIN mem /\ DOMAIN answer' = DOMAIN answer
    BY <1>3
  <2> QED BY <1>1, <1>3, <2>1, <2>3, <2>4, <2>5, <2>6, FileStepKeepsNames
<1> QED BY <1>2, <1>3 DEF IP!Allocate, IP!Fail, IP!Goto

(* The last write of a command: its name leads from now on.                 *)
LEMMA SaveKeepsNames == ASSUME NamesInv, NEW p \in IP!Procs, IP!Save(p) PROVE NamesInv'
<1> USE DEF NamesInv
<1>1. CASE IP!Truncate(p, "cut again", "write again")
  <2>1. /\ command[p] = "cut again" /\ command' = [command EXCEPT ![p] = "write again"] /\ file' = IP!Truncated
        /\ cmd' = cmd /\ mem' = mem /\ answer' = answer /\ alone' = alone
    BY <1>1 DEF IP!Truncate, IP!Goto
  <2>2. file'.cut
    BY <2>1 DEF IP!Truncated
  <2>3. IP!NameOf(p)' = IP!NameOf(p)
    BY <2>1 DEF IP!NameOf
  <2>4. alone => Ready("write again", mem'[p], cmd, p, IP!NameOf(p)', Names)
    BY <2>1, <2>3 DEF NamesAreKept, Ready
  <2>5. "write again" \in IP!AtFile /\ command[p] \in IP!AtFile
    BY <2>1 DEF IP!AtFile
  <2> QED BY <2>1, <2>2, <2>4, <2>5, FileStepKeepsNames
<1>2. ASSUME NEW s \in {"listening", "done"}, IP!Write(p, "write again", s) PROVE NamesInv'
  <2>1. /\ command[p] = "write again" /\ command' = [command EXCEPT ![p] = s] /\ file' = IP!Saved(mem[p])
        /\ mem' = [mem EXCEPT ![p] = IP!NoState] /\ cmd' = cmd /\ answer' = answer /\ alone' = alone
    BY <1>2 DEF IP!Write, IP!Goto
  <2>2. IP!Procs' = IP!Procs /\ \A q \in IP!Procs : command'[q] = IF q = p THEN s ELSE command[q]
    BY <2>1 DEF ScriptOK, IP!Procs
  <2>3. file'.st = mem[p] /\ \A q \in IP!Procs \ {p} : mem'[q] = mem[q]
    BY <2>1 DEF IP!Saved, ScriptOK
  <2>4. ScriptOK'
    BY <2>1, <2>2 DEF ScriptOK
  <2>5. ScriptInTurn' /\ (OneAtFile => OneAtFile')
    BY <2>1, GoingStaysInOrder DEF IP!AtFile
  <2>6. ASSUME alone' PROVE NamesAreKept'
    <3> DEFINE name == IP!NameOf(p)
    <3>1. NamesAreKept
      BY <2>1, <2>6
    <3>2. Holds(mem[p], cmd, p, name, Names)
      BY <2>1, <3>1 DEF NamesAreKept, Ready
    <3>3. \A q \in DOMAIN Names : q < p /\ q # p
      <4>1. \A q \in DOMAIN Names : q < p
        BY <2>1, <3>1, BindersBefore DEF NamesAreKept, IP!AtFile
      <4> QED BY <4>1 DEF Names, ScriptOK
    <3>4. \A q \in IP!Procs : IP!NameOf(q)' = IP!NameOf(q)
      BY <2>1 DEF IP!NameOf
    <3>5. /\ DOMAIN Names' = DOMAIN Names \cup {p} /\ Names'[p] = name
          /\ \A q \in DOMAIN Names : Names'[q] = Names[q]
      <4>1. \A q \in IP!Procs : IP!Binds(q)' <=> IP!Binds(q) \/ q = p
        BY <2>1, <2>2, <3>2 DEF IP!Binds, Holds
      <4> QED BY <2>2, <3>4, <4>1 DEF Names
    <3> HIDE DEF name
    <3>6. Leads(file'.st, cmd', Names')
      <4> SUFFICES ASSUME NEW q \in DOMAIN Names' PROVE LeadsFor(mem[p], cmd, q, Names'[q])
        BY <2>1, <2>3 DEF Leads, LeadsFor
      <4>1. CASE q = p
        BY <3>2, <3>5, <4>1 DEF Holds, LeadsFor
      <4>2. CASE q # p
        <5>1. q \in DOMAIN Names /\ Names'[q] = Names[q]
          BY <3>5, <4>2
        <5> QED BY <3>2, <5>1 DEF Holds, Leads
      <4> QED BY <4>1, <4>2
    <3>7. Once(cmd', Names')
      <4> SUFFICES ASSUME NEW a \in DOMAIN Names', cmd[a].op = "allocate", NEW q \in DOMAIN Names', q < a
                   PROVE Names'[q] # Names'[a]
        BY <2>1 DEF Once, Unused
      <4>1. CASE a = p
        <5>1. q # p /\ q \in DOMAIN Names
          BY <3>5, <4>1 DEF Names, ScriptOK
        <5>2. Names[q] # name
          BY <3>2, <4>1, <5>1 DEF Holds, Unused
        <5> QED BY <3>5, <4>1, <5>1, <5>2
      <4>2. CASE a # p
        <5>1. a \in DOMAIN Names /\ a < p
          BY <3>3, <3>5, <4>2
        <5>2. q # p
          <6>1. a \in Nat /\ p \in Nat
            BY <5>1 DEF Names, ScriptOK
          <6> QED BY <5>1, <6>1
        <5>3. q \in DOMAIN Names /\ Names[q] # Names[a]
          BY <3>1, <3>5, <5>1, <5>2 DEF NamesAreKept, Once, Unused
        <5> QED BY <3>5, <5>1, <5>3
      <4> QED BY <4>1, <4>2
    <3>8. ASSUME NEW q \in IP!Procs PROVE Ready(command'[q], mem'[q], cmd', q, IP!NameOf(q)', Names')
      <4>1. CASE q = p
        BY <2>2, <4>1 DEF Ready
      <4>2. CASE q # p
        <5>1. command'[q] \notin {"cut", "write", "cut again", "write again"}
          <6>1. q \in Nat /\ p \in Nat
            BY DEF ScriptOK
          <6>2. CASE q < p
            BY <2>1, <2>2, <3>1, <4>2, <6>2 DEF NamesAreKept, OneAtFile, IP!AtFile
          <6>3. CASE p < q
            BY <2>1, <2>2, <3>1, <4>2, <6>3 DEF NamesAreKept, OneAtFile, IP!AtFile
          <6>4. q < p \/ p < q
            BY <4>2, <6>1
          <6> QED BY <6>2, <6>3, <6>4
        <5> QED BY <5>1 DEF Ready
      <4> QED BY <4>1, <4>2
    <3> QED BY <2>2, <2>5, <3>1, <3>6, <3>7, <3>8 DEF NamesAreKept
  <2> QED BY <2>4, <2>5, <2>6
<1> QED BY <1>1, <1>2 DEF IP!Save

LEMMA SendKeepsNames == ASSUME NamesInv, NEW p \in IP!Procs, IP!Send(p) PROVE NamesInv'
<1> USE DEF NamesInv
<1>1. /\ command[p] = "again" /\ cmd[p].op = "send" /\ cmd' = cmd /\ file' = file /\ mem' = mem /\ alone' = alone
      /\ \E s \in {"failed", "done"} : command' = [command EXCEPT ![p] = s]
  BY DEF IP!Send, IP!Goto
<1>2. answer' = answer \/ \E a : answer' = [answer EXCEPT ![p] = a]
  BY DEF IP!Send
<1>3. DOMAIN answer' = DOMAIN answer /\ \A q \in IP!Procs \ {p} : answer'[q] = answer[q]
  BY <1>2 DEF ScriptOK
<1> QED BY <1>1, <1>3, GoingKeepsNames DEF IP!AtFile

LEMMA StopKeepsNames == ASSUME NamesInv, NEW p \in IP!Procs, IP!Stop(p) PROVE NamesInv'
BY GoingKeepsNames DEF NamesInv, IP!Stop, IP!Goto, IP!AtFile

LEMMA KillKeepsNames == ASSUME NamesInv, NEW p \in IP!Procs, IP!Kill(p) PROVE NamesInv'
BY GoingKeepsNames DEF NamesInv, IP!Kill, IP!Goto, IP!AtFile

(* What else happens changes neither the file nor a command.                *)
LEMMA OtherKeepsNames ==
  ASSUME NamesInv, UNCHANGED <<command, file, mem, answer, alone, cmd>>
  PROVE NamesInv'
BY DEF NamesInv, ScriptOK, ScriptInTurn, NamesAreKept, OneAtFile, Names, IP!Procs, IP!Binds, IP!NameOf

(* Every datagram is a stray one or a packet that somebody sent, whole.     *)
SentWhole ==
  /\ cmd \in Scripts
  /\ packets \subseteq {k \in Packet : IP!Encodable(k)}
  /\ \A d \in datagrams : d.bytes \in Strays \/ \E k \in packets : d.bytes = IP!Encode(k)
  /\ IP!PrintedWasSent

LEMMA SentWholeStep == ASSUME SentWhole, IP!Next \/ UNCHANGED IP!vars PROVE SentWhole'
<1> USE DEF SentWhole
<1>1. CASE UNCHANGED <<cmd, packets, datagrams, printed>>
  BY <1>1 DEF IP!PrintedWasSent
<1>2. ASSUME NEW p \in IP!Procs, IP!Send(p) PROVE SentWhole'
  <2>1. CASE UNCHANGED <<cmd, packets, datagrams, printed>>
    BY <1>1, <2>1
  <2>2. ASSUME ~UNCHANGED <<cmd, packets, datagrams, printed>> PROVE SentWhole'
    <3> DEFINE k == IP!Packet(p)
    <3>1. /\ IP!Encodable(k) /\ packets' = packets \cup {k} /\ cmd' = cmd /\ printed' = printed
          /\ \E e : datagrams' = datagrams \cup {[ep |-> e, bytes |-> IP!Encode(k)]}
      BY <1>2, <2>2 DEF IP!Send
    <3>2. k \in Packet
      <4>1. {cmd[p].addr, cmd[p].src, cmd[p].text} \subseteq Seq(Letters)
        BY Ipv1Assumption DEF Ipv1Assumption, IP!Procs
      <4> QED BY <4>1 DEF IP!Packet, Packet, Words
    <3> HIDE DEF k
    <3>3. packets' \subseteq {j \in Packet : IP!Encodable(j)}
      BY <3>1, <3>2
    <3>4. \A d \in datagrams' : d.bytes \in Strays \/ \E j \in packets' : d.bytes = IP!Encode(j)
      BY <3>1
    <3>5. IP!PrintedWasSent'
      BY <3>1 DEF IP!PrintedWasSent
    <3> QED BY <3>1, <3>3, <3>4, <3>5
  <2> QED BY <2>1, <2>2
<1>3. ASSUME NEW p \in IP!Procs, IP!Receive(p) PROVE SentWhole'
  <2>1. PICK d \in datagrams :
          printed' = IF IP!Decode(d.bytes) = IP!Malformed \/ IP!Decode(d.bytes).dst # cmd[p].addr THEN printed
                     ELSE printed \cup {[by |-> p, pkt |-> IP!Decode(d.bytes)]}
    BY <1>3 DEF IP!Receive
  <2>2. UNCHANGED <<cmd, packets, datagrams>>
    BY <1>3 DEF IP!Receive
  <2>3. ASSUME IP!Decode(d.bytes) # IP!Malformed PROVE IP!Decode(d.bytes) \in packets
    <3>1. d.bytes \notin Strays
      BY <2>3, Ipv1Assumption DEF Ipv1Assumption
    <3>2. PICK k \in packets : d.bytes = IP!Encode(k)
      BY <3>1
    <3>3. IP!Decode(IP!Encode(k)) = k
      BY DecodeUndoes
    <3> QED BY <3>2, <3>3
  <2>4. IP!PrintedWasSent'
    <3>1. CASE printed' = printed
      BY <2>2, <3>1 DEF IP!PrintedWasSent
    <3>2. CASE printed' # printed
      <4>1. /\ printed' = printed \cup {[by |-> p, pkt |-> IP!Decode(d.bytes)]}
            /\ IP!Decode(d.bytes) \in packets /\ IP!Decode(d.bytes).dst = cmd[p].addr
        BY <2>1, <2>3, <3>2
      <4> QED BY <2>2, <4>1 DEF IP!PrintedWasSent
    <3> QED BY <3>1, <3>2
  <2> QED BY <2>2, <2>4
<1>4. CASE IP!Lose
  BY <1>4 DEF IP!Lose, IP!PrintedWasSent
<1>5. CASE IP!Stray
  <2>1. PICK b \in Strays, e \in DOMAIN bound : datagrams' = datagrams \cup {[ep |-> e, bytes |-> b]}
    BY <1>5 DEF IP!Stray
  <2>2. UNCHANGED <<cmd, packets, printed>>
    BY <1>5 DEF IP!Stray
  <2> QED BY <2>1, <2>2 DEF IP!PrintedWasSent
<1>6. ASSUME NEW p \in IP!Procs,
             \/ IP!Start(p) \/ IP!Ensure(p) \/ IP!Register(p) \/ IP!Allocate(p) \/ IP!Save(p) \/ IP!Stop(p) \/ IP!Kill(p)
      PROVE SentWhole'
  BY <1>1, <1>6 DEF IP!Start, IP!Ensure, IP!Read, IP!Truncate, IP!Write, IP!Register, IP!Allocate, IP!Save, IP!Stop, IP!Kill
<1> QED BY <1>1, <1>2, <1>3, <1>4, <1>5, <1>6 DEF IP!Next, IP!vars

Ipv1Inv == NamesInv /\ SentWhole

LEMMA Ipv1InvInit == IP!Init => Ipv1Inv
<1> SUFFICES ASSUME IP!Init PROVE Ipv1Inv
  OBVIOUS
<1> USE DEF IP!Init
<1>1. SentWhole
  BY DEF SentWhole, IP!PrintedWasSent
<1>2. ScriptOK
  BY Ipv1Assumption DEF Ipv1Assumption, ScriptOK, IP!Procs
<1>3. \A p \in IP!Procs : command[p] = "new"
  OBVIOUS
<1>4. ScriptInTurn /\ OneAtFile
  BY <1>3 DEF ScriptInTurn, OneAtFile
<1>5. DOMAIN Names = {}
  BY <1>3 DEF Names, IP!Binds
<1>6. NamesAreKept
  BY <1>3, <1>4, <1>5 DEF NamesAreKept, Leads, Once, Ready
<1> QED BY <1>1, <1>2, <1>4, <1>6 DEF Ipv1Inv, NamesInv

LEMMA Ipv1InvStep == ASSUME Ipv1Inv, IP!Next \/ UNCHANGED IP!vars PROVE Ipv1Inv'
<1> USE DEF Ipv1Inv
<1>1. SentWhole'
  BY SentWholeStep
<1>2. CASE IP!Lose \/ IP!Stray \/ UNCHANGED IP!vars \/ \E p \in IP!Procs : IP!Receive(p)
  <2>1. UNCHANGED <<command, file, mem, answer, alone, cmd>>
    BY <1>2 DEF IP!Lose, IP!Stray, IP!vars, IP!Receive
  <2>2. NamesInv'
    BY <2>1, OtherKeepsNames
  <2> QED BY <1>1, <2>2
<1>3. ASSUME NEW p \in IP!Procs,
             \/ IP!Start(p) \/ IP!Ensure(p) \/ IP!Register(p) \/ IP!Allocate(p) \/ IP!Save(p) \/ IP!Send(p)
             \/ IP!Stop(p) \/ IP!Kill(p)
      PROVE NamesInv'
  BY <1>3, StartKeepsNames, EnsureKeepsNames, RegisterKeepsNames, AllocateKeepsNames, SaveKeepsNames, SendKeepsNames,
     StopKeepsNames, KillKeepsNames
<1> QED BY <1>1, <1>2, <1>3 DEF IP!Next

LEMMA Ipv1KeepsPromise == ASSUME Ipv1Inv PROVE IP!NamesLead /\ IP!PrintedWasSent
<1>1. ASSUME alone, NEW p \in IP!Procs, IP!Binds(p)
      PROVE /\ \/ file.cut
               \/ IP!NameOf(p) \in DOMAIN file.st.addrs
                  /\ \/ file.st.addrs[IP!NameOf(p)] = cmd[p].ep
                     \/ \E q \in IP!Procs : /\ q > p /\ IP!Registers(q) /\ cmd[q].addr = IP!NameOf(p)
                                            /\ file.st.addrs[IP!NameOf(p)] = cmd[q].ep
            /\ cmd[p].op = "allocate" => \A q \in IP!Procs : q < p /\ IP!Binds(q) => IP!NameOf(q) # IP!NameOf(p)
  <2>1. NamesAreKept
    BY <1>1 DEF Ipv1Inv, NamesInv
  <2>2. p \in DOMAIN Names /\ Names[p] = IP!NameOf(p)
    BY <1>1 DEF Names
  <2>3. ~file.cut => LeadsFor(file.st, cmd, p, IP!NameOf(p))
    BY <2>1, <2>2 DEF NamesAreKept, Leads
  <2>4. cmd[p].op = "allocate" => Unused(Names, p, IP!NameOf(p))
    BY <2>1, <2>2 DEF NamesAreKept, Once
  <2>5. \A q \in IP!Procs : IP!Binds(q) => q \in DOMAIN Names /\ Names[q] = IP!NameOf(q)
    BY DEF Names
  <2> QED BY <2>3, <2>4, <2>5 DEF LeadsFor, Unused, IP!Registers, IP!Procs
<1> QED BY <1>1 DEF Ipv1Inv, SentWhole, IP!NamesLead

----------------------------------------------------------------------------
(* The promises.  A behaviour of Network is a behaviour of one program.     *)

(* What is new since the last check is shown once (runCheck, NewerThan,     *)
(* Save), for any postings, sources, commands and number of processes.      *)
THEOREM JobsKeepTheirPromise == Spec => []JobsPromise
<1> DEFINE I == on = "jobs" => JobsInv
<1>1. Init => I
  BY JobsInvInit DEF Init
<1>2. I /\ [Next]_vars => I'
  <2> SUFFICES ASSUME I, [Next]_vars, on' = "jobs" PROVE JobsInv'
    OBVIOUS
  <2>1. JobsInv
    BY DEF Next, vars
  <2>2. SJ!Next \/ UNCHANGED SJ!vars
    BY DEF Next, vars, commands, files, jobsOnly, SJ!vars
  <2> QED BY <2>1, <2>2, JobsInvStep
<1>3. I => JobsPromise
  BY JobsKeepPromise DEF JobsPromise
<1> QED BY <1>1, <1>2, <1>3, PTL DEF Spec

(* Restarts do not reset the budget, and no process is stopped by what a    *)
(* killed one left behind (Take, load, saveLocked), for any burst, needs    *)
(* and number of processes.                                                 *)
THEOREM RedbanKeepsItsPromise == Spec => []RedbanPromise
<1> DEFINE I == on = "redban" => RedbanInv
<1>1. Init => I
  BY RedbanInvInit DEF Init
<1>2. I /\ [Next]_vars => I'
  <2> SUFFICES ASSUME I, [Next]_vars, on' = "redban" PROVE RedbanInv'
    OBVIOUS
  <2>1. RedbanInv
    BY DEF Next, vars
  <2>2. RB!Next \/ UNCHANGED RB!vars
    BY DEF Next, vars, commands, files, redbanOnly, RB!vars
  <2> QED BY <2>1, <2>2, RedbanInvStep
<1>3. I => RedbanPromise
  BY RedbanKeepsPromise DEF RedbanPromise
<1> QED BY <1>1, <1>2, <1>3, PTL DEF Spec

(* Names lead where they were bound last, numbers are given out once, and a *)
(* listener prints only what was sent to its name (Register, Allocate,      *)
(* Encode, Decode, cmdListen), for any scripts, stray datagrams and limits. *)
THEOREM Ipv1KeepsItsPromise == Spec => []Ipv1Promise
<1> DEFINE I == on = "ipv1" => Ipv1Inv
<1>1. Init => I
  BY Ipv1InvInit DEF Init
<1>2. I /\ [Next]_vars => I'
  <2> SUFFICES ASSUME I, [Next]_vars, on' = "ipv1" PROVE Ipv1Inv'
    OBVIOUS
  <2>1. Ipv1Inv
    BY DEF Next, vars
  <2>2. IP!Next \/ UNCHANGED IP!vars
    BY DEF Next, vars, commands, files, ipv1Only, IP!vars
  <2> QED BY <2>1, <2>2, Ipv1InvStep
<1>3. I => Ipv1Promise
  BY Ipv1KeepsPromise DEF Ipv1Promise
<1> QED BY <1>1, <1>2, <1>3, PTL DEF Spec
=============================================================================
