--------------------------- MODULE ReliableStream ---------------------------
(***************************************************************************)
(* What a direction of a cloak stream promises its users: chunks come out  *)
(* in the order they went in, each once, with none left out, and a write   *)
(* returns without error only after the other side has taken charge of its *)
(* chunk.  One chunk is under way at a time.                               *)
(***************************************************************************)
EXTENDS Naturals, Sequences

CONSTANTS Chan, Data

VARIABLES written,   \* chunks handed to the stream, per channel
          accepted,  \* how many of them the receiving side has accepted
          confirmed, \* how many writes have returned without error
          read       \* chunks the reader has taken

svars == <<written, accepted, confirmed, read>>

Init ==
  /\ written = [c \in Chan |-> <<>>]
  /\ accepted = [c \in Chan |-> 0]
  /\ confirmed = [c \in Chan |-> 0]
  /\ read = [c \in Chan |-> <<>>]

Write(c, d) ==
  /\ confirmed[c] = Len(written[c])
  /\ written' = [written EXCEPT ![c] = Append(@, d)]
  /\ UNCHANGED <<accepted, confirmed, read>>

Accept(c) ==
  /\ accepted[c] < Len(written[c])
  /\ accepted' = [accepted EXCEPT ![c] = @ + 1]
  /\ UNCHANGED <<written, confirmed, read>>

Confirm(c) ==
  /\ confirmed[c] < accepted[c]
  /\ confirmed' = [confirmed EXCEPT ![c] = @ + 1]
  /\ UNCHANGED <<written, accepted, read>>

Read(c) ==
  /\ Len(read[c]) < accepted[c]
  /\ read' = [read EXCEPT ![c] = Append(@, written[c][Len(@) + 1])]
  /\ UNCHANGED <<written, accepted, confirmed>>

Next == \E c \in Chan :
  \/ \E d \in Data : Write(c, d)
  \/ Accept(c) \/ Confirm(c) \/ Read(c)

Spec == Init /\ [][Next]_svars
=============================================================================
