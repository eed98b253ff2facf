---------------------------- MODULE VisitorPresence ----------------------------
(***************************************************************************)
(* What the `visits' collection promises about the visitors of a venue: a  *)
(* visitor is inside or not, comes in only when not inside, and every stay *)
(* ends once. VisitorHistory refines this module.                          *)
(***************************************************************************)
EXTENDS Naturals

CONSTANT Visitors    \* the visitors of one venue

VARIABLES
    inside,      \* visitors with a visit that has not ended
    stays        \* how many visits of each have ended

PresenceInit == inside = {} /\ stays = [p \in Visitors |-> 0]

Enter(p) ==
    /\ p \notin inside
    /\ inside' = inside \cup {p}
    /\ UNCHANGED stays

Leave(p) ==
    /\ p \in inside
    /\ inside' = inside \ {p}
    /\ stays' = [stays EXCEPT ![p] = @ + 1]

\* Retention deletes what is too old, ended or not.
Forget ==
    /\ inside' \subseteq inside
    /\ stays' \in [Visitors -> Nat]
    /\ \A p \in Visitors : stays'[p] <= stays[p]

PresenceNext == (\E p \in Visitors : Enter(p) \/ Leave(p)) \/ Forget

PresenceSpec == PresenceInit /\ [][PresenceNext]_<<inside, stays>>
=============================================================================
