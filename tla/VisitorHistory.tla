---------------------------- MODULE VisitorHistory -----------------------------
(***************************************************************************)
(* The visitors of one venue in MongoDB: the movement events, the visits   *)
(* they open and close, and the profile with its counters.                 *)
(* VisitorHistoryService.record_movement_event goes through the three      *)
(* collections one database call after the other, and other calls run in   *)
(* between; a call that fails or a process that dies leaves the rest       *)
(* undone, and the event is delivered again.                               *)
(*                                                                         *)
(* An event is known by the id its source gave it (source_event_id); the   *)
(* caller passes no visitor_event_id. No document outside the venue is     *)
(* read or written: every filter holds venue_id.                           *)
(***************************************************************************)
EXTENDS Naturals, FiniteSets

CONSTANTS
    Visitors,     \* visitor ids of the venue
    Feed,         \* the movement events that are delivered: records of EventType
    Horizon,      \* bound: times are 1..Horizon
    Gates,        \* gate ids, ordered
    Calls,        \* calls that may be in flight at the same time
    MaxCalls,     \* bound: calls in a behaviour
    MaxFaults,    \* bound: failed database calls, crashes and retention runs
    Cutoffs       \* cutoffs of apply_retention_policy

Times == 1..Horizon

\* dwell is the dwell_time of the event, 0 for None.
EventType == [id : Nat, who : Visitors, kind : {"ENTRY", "EXIT"}, at : Times,
              gate : Gates, dwell : Nat]

ASSUME FeedTyped == Feed # {} /\ Feed \subseteq EventType /\ IsFiniteSet(Feed)
ASSUME FeedIds == \A e, f \in Feed : e.id = f.id => e = f
ASSUME GatesNumbered == Gates \subseteq Nat /\ IsFiniteSet(Gates)
ASSUME HistoryBounds == Horizon \in Nat /\ MaxCalls \in Nat /\ MaxFaults \in Nat
ASSUME CutoffsAreTimes == Cutoffs \subseteq Nat

VARIABLES
    events,       \* the visitor_events collection
    visits,       \* the visits collection
    profile,      \* the visitors collection
    call,         \* what each call of record_movement_event is at
    purge,        \* apply_retention_policy: its cutoff and the collections left
    calls,        \* history: calls made
    faults,       \* history: what MaxFaults bounds
    opened,       \* history: visits created for each visitor; numbers them
    crowded,      \* history: visitors with two calls in flight together
    disturbed     \* history: visitors with a fault, or an event delivered again
                  \* before its first call was through

collections == <<events, visits, profile>>
history == <<calls, faults, opened, crowded, disturbed>>
vars == <<events, visits, profile, call, purge, calls, faults, opened, crowded, disturbed>>

NoTime == 0

\* A visit without exit is OPEN; duration_seconds is set with the exit.
VisitType == [no : Nat, who : Visitors, at : Times, status : {"OPEN", "COMPLETED"},
              till : Times \cup {NoTime}, duration : Nat]

NoProfile == [first |-> NoTime, last |-> NoTime, entries |-> 0, exits |-> 0, visits |-> 0]
ProfileType == [first : Nat, last : Nat, entries : Nat, exits : Nat, visits : Nat]

\* The next database call: look for the active visit, open or close a visit, save
\* the event, find the profile, put it, find it again.
Phases == {"idle", "look", "open", "close", "save", "find", "put", "refind"}

AnyEvent == CHOOSE e \in Feed : TRUE
NoCall == [phase |-> "idle", event |-> AnyEvent, target |-> 0, from |-> NoTime,
           fresh |-> FALSE, seen |-> NoProfile]

\* target, from: the active visit found; fresh: is_new_visit; seen: the profile found.
CallType == [phase : Phases, event : Feed, target : Nat, from : Nat,
             fresh : BOOLEAN, seen : ProfileType]

TypeOK ==
    /\ events \subseteq Feed
    /\ visits \subseteq VisitType
    /\ profile \in [Visitors -> ProfileType]
    /\ call \in [Calls -> CallType]
    /\ purge \in [cutoff : Nat, left : {{}, {"visits", "visitors"}, {"visitors"}}]
    /\ calls \in 0..MaxCalls /\ faults \in 0..MaxFaults
    /\ opened \in [Visitors -> Nat]
    /\ crowded \subseteq Visitors /\ disturbed \subseteq Visitors

NotPurging == [cutoff |-> 0, left |-> {}]

HistoryInit ==
    /\ events = {} /\ visits = {}
    /\ profile = [p \in Visitors |-> NoProfile]
    /\ call = [k \in Calls |-> NoCall]
    /\ purge = NotPurging
    /\ calls = 0 /\ faults = 0
    /\ opened = [p \in Visitors |-> 0]
    /\ crowded = {} /\ disturbed = {}

------------------------------------------------------------------------------
(* The collections. *)

OpenVisits(p) == {v \in visits : v.who = p /\ v.status = "OPEN"}

\* duration_seconds: the dwell time of the event, or the time since the entry.
Duration(e, from) == IF e.dwell > 0 THEN e.dwell ELSE IF e.at > from THEN e.at - from ELSE 0

\* Mutant: the partial unique index is missing.
MayAlwaysOpen(p) == TRUE

\* The partial unique index: one OPEN visit per visitor and venue.
MayOpen(p) == OpenVisits(p) = {}

\* find_one_and_update with status OPEN in its filter.
ClosedBy(v, e, from) == [v EXCEPT !.status = "COMPLETED", !.till = e.at, !.duration = Duration(e, from)]

Closing(e, target, from) ==
    {IF v.who = e.who /\ v.no = target /\ v.status = "OPEN" THEN ClosedBy(v, e, from) ELSE v : v \in visits}

One(b) == IF b THEN 1 ELSE 0

\* Mutant: the counters too are computed from what was read.
BumpedAsRead(now, seen, e, fresh) ==
    [first |-> IF e.at < seen.first THEN e.at ELSE seen.first,
     last |-> IF e.at > seen.last THEN e.at ELSE seen.last,
     entries |-> seen.entries + One(e.kind = "ENTRY"),
     exits |-> seen.exits + One(e.kind = "EXIT"),
     visits |-> seen.visits + One(fresh)]

NewProfile(e, fresh) ==
    [first |-> e.at, last |-> e.at, entries |-> One(e.kind = "ENTRY"),
     exits |-> One(e.kind = "EXIT"), visits |-> One(fresh)]

\* $inc counts on what is stored; $set carries bounds computed from what was read.
Bumped(now, seen, e, fresh) ==
    [first |-> IF e.at < seen.first THEN e.at ELSE seen.first,
     last |-> IF e.at > seen.last THEN e.at ELSE seen.last,
     entries |-> now.entries + One(e.kind = "ENTRY"),
     exits |-> now.exits + One(e.kind = "EXIT"),
     visits |-> now.visits + One(fresh)]

------------------------------------------------------------------------------
(* record_movement_event. *)

Event(k) == call[k].event
Who(k) == call[k].event.who
Step(k, phase) == call' = [call EXCEPT ![k].phase = phase]
Over(k) == call' = [call EXCEPT ![k] = NoCall]

Fault(p) ==
    /\ faults < MaxFaults /\ faults' = faults + 1
    /\ disturbed' = disturbed \cup {p}
    /\ UNCHANGED <<calls, opened, crowded>>

InFlight(p) == {k \in Calls : call[k].phase # "idle" /\ Who(k) = p}

\* The look-up of source_event_id: an event that is saved already is ignored,
\* unless the look-up fails and find_one answers None.
Delivered(k, e) ==
    /\ call[k].phase = "idle" /\ calls < MaxCalls
    /\ calls' = calls + 1
    /\ call' = [call EXCEPT ![k] = [NoCall EXCEPT !.phase = "look", !.event = e]]
    /\ crowded' = IF InFlight(e.who) = {} THEN crowded ELSE crowded \cup {e.who}
    /\ \/ /\ e \notin events
          /\ disturbed' = IF \E o \in InFlight(e.who) : Event(o) = e
                          THEN disturbed \cup {e.who} ELSE disturbed
          /\ UNCHANGED faults
       \/ /\ e \in events
          /\ faults < MaxFaults /\ faults' = faults + 1
          /\ disturbed' = disturbed \cup {e.who}
    /\ UNCHANGED <<collections, purge, opened>>

\* get_active_visit, of an ENTRY or inside complete_visit_atomic.
LooksForVisit(k) ==
    /\ call[k].phase = "look"
    /\ LET found == OpenVisits(Who(k)) IN
       IF found = {}
       THEN Step(k, IF Event(k).kind = "ENTRY" THEN "open" ELSE "save")
       ELSE LET v == CHOOSE v \in found : TRUE IN
            call' = [call EXCEPT ![k].phase = IF Event(k).kind = "EXIT" THEN "close" ELSE "save",
                                 ![k].target = v.no, ![k].from = v.at]
    /\ UNCHANGED <<collections, purge, history>>

\* is_new_visit stays set when the index refuses the visit.
Opens(k) ==
    /\ call[k].phase = "open"
    /\ LET e == Event(k) IN
       IF MayOpen(e.who)
       THEN /\ visits' = visits \cup {[no |-> opened[e.who] + 1, who |-> e.who, at |-> e.at,
                                       status |-> "OPEN", till |-> NoTime, duration |-> 0]}
            /\ opened' = [opened EXCEPT ![e.who] = @ + 1]
       ELSE UNCHANGED <<visits, opened>>
    /\ call' = [call EXCEPT ![k].phase = "save", ![k].fresh = TRUE]
    /\ UNCHANGED <<events, profile, purge, calls, faults, crowded, disturbed>>

Closes(k) ==
    /\ call[k].phase = "close"
    /\ visits' = Closing(Event(k), call[k].target, call[k].from)
    /\ Step(k, "save")
    /\ UNCHANGED <<events, profile, purge, history>>

\* save_event: the unique index on (venue_id, source_event_id) keeps one document.
Saves(k) ==
    /\ call[k].phase = "save"
    /\ events' = events \cup {Event(k)}
    /\ Step(k, "find")
    /\ UNCHANGED <<visits, profile, purge, history>>

FindsProfile(k) ==
    /\ call[k].phase \in {"find", "refind"}
    /\ IF call[k].phase = "refind" /\ profile[Who(k)] = NoProfile THEN Over(k)
       ELSE call' = [call EXCEPT ![k].phase = "put", ![k].seen = profile[Who(k)]]
    /\ UNCHANGED <<collections, purge, history>>

\* insert_one; a profile inserted meanwhile is read, and updated after all.
InsertsProfile(k) ==
    /\ call[k].phase = "put" /\ call[k].seen = NoProfile
    /\ IF profile[Who(k)] = NoProfile
       THEN profile' = [profile EXCEPT ![Who(k)] = NewProfile(Event(k), call[k].fresh)] /\ Over(k)
       ELSE Step(k, "refind") /\ UNCHANGED profile
    /\ UNCHANGED <<events, visits, purge, history>>

\* find_one_and_update: nothing if the profile has been purged meanwhile.
UpdatesProfile(k) ==
    /\ call[k].phase = "put" /\ call[k].seen # NoProfile
    /\ profile' = IF profile[Who(k)] = NoProfile THEN profile
                  ELSE [profile EXCEPT ![Who(k)] = Bumped(@, call[k].seen, Event(k), call[k].fresh)]
    /\ Over(k)
    /\ UNCHANGED <<events, visits, purge, history>>

------------------------------------------------------------------------------
(* Failures. *)

\* create_visit and save_event log what went wrong and go on.
WritePassedOver(k) ==
    /\ call[k].phase \in {"open", "save"}
    /\ Fault(Who(k))
    /\ call' = IF call[k].phase = "open"
               THEN [call EXCEPT ![k].phase = "save", ![k].fresh = TRUE]
               ELSE [call EXCEPT ![k].phase = "find"]
    /\ UNCHANGED <<collections, purge>>

\* find_one answers None: no active visit, or no profile.
ReadPassedOver(k) ==
    /\ call[k].phase \in {"look", "find", "refind"}
    /\ Fault(Who(k))
    /\ CASE call[k].phase = "look" -> Step(k, IF Event(k).kind = "ENTRY" THEN "open" ELSE "save")
         [] call[k].phase = "find" -> Step(k, "put")
         [] OTHER -> Over(k)
    /\ UNCHANGED <<collections, purge>>

\* complete_visit_atomic and upsert_visitor_on_event raise: ingest_event logs it,
\* and the rest of the call is not made. A crash ends a call anywhere.
CallLost(k) ==
    /\ call[k].phase # "idle"
    /\ Fault(Who(k))
    /\ Over(k)
    /\ UNCHANGED <<collections, purge>>

------------------------------------------------------------------------------
(* apply_retention_policy: three deletions, in this order. *)

PurgesEvents(cutoff) ==
    /\ purge = NotPurging
    /\ faults < MaxFaults /\ faults' = faults + 1
    /\ events' = {e \in events : e.at >= cutoff}
    /\ purge' = [cutoff |-> cutoff, left |-> {"visits", "visitors"}]
    /\ disturbed' = Visitors
    /\ UNCHANGED <<visits, profile, call, calls, opened, crowded>>

\* By entry_time: the visit of somebody who is still inside goes too.
PurgesVisits ==
    /\ "visits" \in purge.left
    /\ visits' = {v \in visits : v.at >= purge.cutoff}
    /\ purge' = [purge EXCEPT !.left = @ \ {"visits"}]
    /\ UNCHANGED <<events, profile, call, history>>

PurgesProfiles ==
    /\ purge.left = {"visitors"}
    /\ profile' = [p \in Visitors |-> IF profile[p].last >= purge.cutoff THEN profile[p] ELSE NoProfile]
    /\ purge' = NotPurging
    /\ UNCHANGED <<events, visits, call, history>>

HistoryNext ==
    \/ \E k \in Calls, e \in Feed : Delivered(k, e)
    \/ \E k \in Calls :
        \/ LooksForVisit(k) \/ Opens(k) \/ Closes(k) \/ Saves(k)
        \/ FindsProfile(k) \/ InsertsProfile(k) \/ UpdatesProfile(k)
        \/ WritePassedOver(k) \/ ReadPassedOver(k) \/ CallLost(k)
    \/ \E cutoff \in Cutoffs : PurgesEvents(cutoff)
    \/ PurgesVisits \/ PurgesProfiles

HistorySpec == HistoryInit /\ [][HistoryNext]_vars
------------------------------------------------------------------------------
(* Properties. *)

Inside == {p \in Visitors : OpenVisits(p) # {}}
Stays == [p \in Visitors |-> Cardinality({v \in visits : v.who = p /\ v.status = "COMPLETED"})]

Presence == INSTANCE VisitorPresence
            WITH Visitors <- Visitors, inside <- Inside, stays <- Stays

\* Whatever is delivered twice, at a time, out of order or fails halfway: a
\* visitor has at most one open visit, a visit ends once, and an EXIT that finds
\* no open visit ends none.
ImplementsPresence == Presence!PresenceSpec

SavedOf(p, kind) == Cardinality({e \in events : e.who = p /\ e.kind = kind})

\* Between calls, the profile counts the events that are saved, each once, even
\* if calls of one visitor overlapped, and no visit is missing from
\* total_visits; if none overlapped, total_visits and the bounds are exact.
ProfileAgrees ==
    \A p \in Visitors : p \in disturbed \/ InFlight(p) # {} \/
        /\ profile[p].entries = SavedOf(p, "ENTRY")
        /\ profile[p].exits = SavedOf(p, "EXIT")
        /\ profile[p].visits >= opened[p]
        /\ p \in crowded \/
             /\ profile[p].visits = opened[p]
             /\ \A e \in events : e.who = p => profile[p].first <= e.at /\ e.at <= profile[p].last
=============================================================================
