------------------------------ MODULE MCMovement ------------------------------
(* One person, whom two tracks show at gate g1 and a third at g2. *)
EXTENDS Movement, TLC

CONSTANTS t1, t2, t3, g1, g2, p1

TheGateOf == [t \in Tracks |-> IF t = t3 THEN g2 ELSE g1]
OnePerson == [t \in Tracks |-> p1]
SameGate == Permutations({t1, t2})
BothWays == [g \in Gates |-> Directions]
=============================================================================
