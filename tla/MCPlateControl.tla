--------------------------- MODULE MCPlateControl ---------------------------
(* Instances of PlateControl for TLC: one request at a time, and more of    *)
(* them; or two at a time, fewer, with a crash.                             *)
EXTENDS PlateControl, TLC

CONSTANTS ip1, w1, w2,
          SerialRequests, ParallelRequests   \* bounds

VARIABLE mode

OneIP == <<ip1>>
Alike == Permutations(VMs) \cup Permutations(Addrs)

MCInit == Init /\ mode \in {"serial", "parallel"}
MCNext ==
  /\ Next /\ UNCHANGED mode
  /\ IF mode = "serial" THEN todo'[w2] = <<>> /\ crashes' = 0 /\ requests' <= SerialRequests
     ELSE requests' <= ParallelRequests /\ (crashes' = 0 \/ faults' = 0)

\* BoxIsKnown, ShownIsHeld and OpenUsageCloses say "one request at a time"
\* (Create, Delete, Stop and what fails in them).
NothingLeftBehind == mode = "serial" => BoxIsKnown
ShownAddressHeld == mode = "serial" => ShownIsHeld
UsageCloses == mode = "serial" => OpenUsageCloses
=============================================================================
