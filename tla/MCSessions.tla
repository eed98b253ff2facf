------------------------------ MODULE MCSessions ------------------------------
(* Two sessions and two handlers: every pair of overlapping requests. *)
EXTENDS SessionService, TLC

Interchangeable == Permutations(Requests)
=============================================================================
