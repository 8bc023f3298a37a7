---------------------------- MODULE MCRelayStore ----------------------------
(* Instances of RelayStore for TLC. *)
EXTENDS RelayStore

CONSTANTS a, b

\* One topic with and without replay, before and after the wrap-around, and
\* lists of topics, one of them repeated.
AllRequests ==
  {[topics |-> <<a>>, from |-> n] : n \in 0..3} \cup
  {[topics |-> <<a, b>>, from |-> 1], [topics |-> <<b, a>>, from |-> 0],
   [topics |-> <<a, a>>, from |-> 1]}
=============================================================================
