--------------------------- MODULE MCCloakTunnel ---------------------------
(* Instances of CloakTunnel for TLC. *)
EXTENDS CloakTunnel

Upload == [e \in Side |-> IF e = "client" THEN 2 ELSE 0]
Download == [e \in Side |-> IF e = "server" THEN 2 ELSE 0]
=============================================================================
