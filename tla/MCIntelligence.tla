----------------------------- MODULE MCIntelligence ----------------------------
(* A small venue: what the records of thresholds are for TLC.              *)
EXTENDS VenueIntelligence, TLC

MCCrowd == [lowMax |-> 0, highMax |-> 1, criticalMin |-> 2]

\* Percents of highMax, and events per window for the rates.
MCCongestion ==
    [building |-> 110, congested |-> 120, severe |-> 200, margin |-> 105,
     buildingNet |-> 2, congestedNet |-> 0, severeNet |-> 1, surge |-> 2]

Symmetry == Permutations(Gates)
=============================================================================
