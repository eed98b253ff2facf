-------------------------------- MODULE MCVision --------------------------------
(* Two people who may be enrolled and removed while a camera sees two tracks. *)
EXTENDS Vision, TLC

CONSTANTS anna, ben

Enrolled == {anna, ben}
Symmetry == Permutations(Enrolled)
=============================================================================
