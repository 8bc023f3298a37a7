-------------------------- MODULE MCHotwireControl --------------------------
(* Instances of HotwireControl for TLC. *)
EXTENDS HotwireControl

CONSTANTS b1, b2

\* A backend that becomes faster and slower, and one that does not.
SlowFast == [b \in Backends |-> IF b = b1 THEN {1, 2} ELSE {1}]

\* A multiple of every total of the two backends' scores.
Whole == 6
=============================================================================
