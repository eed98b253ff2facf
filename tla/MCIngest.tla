------------------------------- MODULE MCIngest -------------------------------
(* A camera at gate g1 and two clients: an entry at g1, an exit through g2. *)
EXTENDS EventIngest, TLC

CONSTANTS c1, a1, x1, g1, g2

TheGates == c1 :> g1 @@ a1 :> g1 @@ x1 :> g2
=============================================================================
