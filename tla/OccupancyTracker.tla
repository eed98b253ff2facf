--------------------------- MODULE OccupancyTracker ---------------------------
(***************************************************************************)
(* OccupancyTracker of ai-engine/movement/state/occupancy.py as operators  *)
(* on its state. Every public method holds the tracker's lock from its     *)
(* first read to its last write, so each is atomic for the threads that    *)
(* share one tracker. The code keeps the same bounded count per gate and   *)
(* per camera; the count per gate stands for both.                         *)
(***************************************************************************)
EXTENDS Naturals, FiniteSets

CONSTANT Gates      \* gate ids (or camera ids) that occupancy is counted for

ASSUME GatesFinite == IsFiniteSet(Gates)

OccupancyType == [entries : Nat, exits : Nat, current : Nat, gate : [Gates -> Nat]]

NoOccupancy == [entries |-> 0, exits |-> 0, current |-> 0, gate |-> [g \in Gates |-> 0]]

LessOne(n) == IF n > 0 THEN n - 1 ELSE 0

\* The gate counts only what exceeds the venue.
EntryAtVenueOnly(occ, g) ==
    [occ EXCEPT !.entries = @ + 1, !.current = @ + 1]

RecordEntry(occ, g) ==
    [entries |-> occ.entries + 1, exits |-> occ.exits, current |-> occ.current + 1,
     gate |-> [occ.gate EXCEPT ![g] = @ + 1]]

\* An exit at a gate that has counted nobody in is not counted.
ExitUncounted(occ, g) ==
    [occ EXCEPT !.exits = IF occ.gate[g] > 0 THEN @ + 1 ELSE @,
                !.current = LessOne(@), !.gate[g] = LessOne(@)]

\* The venue and the gate are bounded by 0 each on its own.
RecordExit(occ, g) ==
    [entries |-> occ.entries, exits |-> occ.exits + 1, current |-> LessOne(occ.current),
     gate |-> [occ.gate EXCEPT ![g] = LessOne(@)]]

\* Between max(0, entries - exits) and entries: what the two bounded counters
\* can still promise once an exit was recorded in an empty venue.
WithinBounds(occ) ==
    /\ occ.current <= occ.entries
    /\ occ.entries <= occ.current + occ.exits
    /\ \A g \in Gates : occ.gate[g] <= occ.entries
=============================================================================
