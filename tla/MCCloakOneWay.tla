--------------------------- MODULE MCCloakOneWay ---------------------------
(* CloakTunnel where one side, either of the two, has chunks to write: the  *)
(* properties of both directions in one run, without their product.         *)
EXTENDS CloakTunnel

VARIABLE dir  \* the side that writes in this behaviour

TwoChunks == [e \in Side |-> 2]

OneWaySpec ==
  /\ Init /\ dir \in Side
  /\ [][/\ Next
        /\ \A o \in Obj : o[1] # dir => sent'[o] = sent[o]
        /\ dir' = dir]_<<vars, dir>>
=============================================================================
