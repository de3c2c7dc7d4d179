-------------------------- MODULE MCPollingServer --------------------------
(* PollingServer with three clients: one asks twice, so that its socket may be full of
   answers it has not read, one once, and one only takes a descriptor. *)
EXTENDS PollingServer, TLC

CONSTANTS c1, c2, c3

ThreeClients == {c1, c2, c3}
Requests     == c1 :> 2 @@ c2 :> 1 @@ c3 :> 0
=============================================================================
