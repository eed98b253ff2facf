--------------------------- MODULE VenueIntelligence ---------------------------
(***************************************************************************)
(* The EventIntelligenceEngine of one venue as the event service drives    *)
(* it: flow windows, congestion, peaks, anomaly rules and alerts. Every    *)
(* public call runs to its end on the event loop, so each is one action.   *)
(*                                                                         *)
(* An event carries the timestamp its source gave it, which may lie before *)
(* or after the clock of the server; a window is trimmed by both. Events   *)
(* are counted by the movement engine's OccupancyTracker first, and the    *)
(* rules see the occupancy that was consumed with the event before.        *)
(* Rates are counts per window. Dwell times, densities and the texts of    *)
(* the signals are left out.                                               *)
(***************************************************************************)
EXTENDS Integers, Sequences, FiniteSetsExt, OccupancyTracker

CONSTANTS
    Venue,       \* stands for "no gate": the venue's windows, GLOBAL in a key
    Widths,      \* lengths of the sliding windows
    RateWidth,   \* the one the rates of the rules are taken from (5 minutes)
    Capacity,    \* events a window holds at most
    MaxSeen,     \* event ids remembered, of which Dropped go when it is full
    Dropped,
    Crowd,       \* CrowdThresholdConfig: lowMax, highMax, criticalMin
    Congestion,  \* CongestionThresholdConfig: percents and counts per window
    SustainedFrames,   \* evaluations in a row that make a signal
    MinShared,   \* entries before the share of a gate is looked at
    Late, Ahead, \* bounds: how far a timestamp is off the clock
    MaxNow,      \* bound: the clock
    MaxEvents,   \* bound: deliveries of events, and their ids
    MaxCrossings,      \* bound: crossings the cameras count on their own
    MaxSessions  \* bound: sessions started

ASSUME WidthsTyped == Widths \subseteq Nat /\ RateWidth \in Widths /\ Venue \notin Gates
ASSUME CrowdTyped == {Crowd.lowMax, Crowd.highMax, Crowd.criticalMin} \subseteq Nat
ASSUME CrowdOrdered == Crowd.lowMax < Crowd.highMax /\ Crowd.highMax < Crowd.criticalMin
ASSUME CongestionOrdered ==
    /\ Congestion.building < Congestion.congested
    /\ Congestion.congested < Congestion.severe
ASSUME EngineBounds ==
    /\ {Capacity, MaxSeen, Dropped, SustainedFrames} \subseteq Nat \ {0} /\ Dropped <= MaxSeen
    /\ {MinShared, Late, Ahead, MaxNow, MaxEvents, MaxCrossings, MaxSessions} \subseteq Nat

VARIABLES
    now,         \* the clock of the server
    windows,     \* timestamps in the window of each kind, place and width
    totals,      \* cumulative events of each kind and place
    seen,        \* ids of events recorded, as far as they are remembered
    tracker,     \* the state of the movement engine's OccupancyTracker
    occ,         \* the occupancy state consumed last
    congestion,  \* DensityAnalytics._current_congestion, 0 for NORMAL to 3
    peaks,       \* PeakTracker
    sustained,   \* evaluations in a row each rule was met, up to SustainedFrames
    active,      \* active alerts of each session and rule
    session,     \* the newest session: its number and status, NONE when stopped
    crossings,   \* history: crossings counted by the cameras alone
    log,         \* history: the events recorded, in order
    held         \* history: events processed since the occupancy became critical

engine == <<windows, totals, seen, occ, congestion, peaks, sustained, active>>
intelligenceVars == <<now, engine, tracker, session, crossings, log, held>>

Kinds == {"ENTRY", "EXIT"}
Places == Gates \cup {Venue}
RuleKeys == {<<r, Venue>> : r \in {"ENTRY_SURGE", "EXIT_SURGE", "OCCUPANCY_SPIKE", "MOVEMENT_STAGNATION"}}
            \cup {<<"GATE_FLOW_ANOMALY", g>> : g \in Gates}
GlobalSession == 0
SessionIds == 0..MaxSessions
ActiveSession == IF session.status = "NONE" THEN GlobalSession ELSE session.no

IntelligenceTypeOK ==
    /\ now \in 0..MaxNow
    /\ windows \in [Kinds -> [Places -> [Widths -> Seq(Int)]]]
    /\ totals \in [Kinds -> [Places -> Nat]]
    /\ seen \subseteq 1..MaxEvents
    /\ {tracker, occ} \subseteq OccupancyType
    /\ congestion \in 0..3
    /\ peaks \in [occupancy : Nat, entry : Nat, exit : Nat, congestion : 0..3]
    /\ sustained \in [RuleKeys -> 0..SustainedFrames]
    /\ active \in [SessionIds \X RuleKeys -> Nat]
    /\ session \in [no : SessionIds, status : {"NONE", "ACTIVE", "PAUSED"}]

IntelligenceInit ==
    /\ now = 0
    /\ windows = [k \in Kinds |-> [p \in Places |-> [w \in Widths |-> <<>>]]]
    /\ totals = [k \in Kinds |-> [p \in Places |-> 0]]
    /\ seen = {} /\ tracker = NoOccupancy /\ occ = NoOccupancy
    /\ congestion = 0
    /\ peaks = [occupancy |-> 0, entry |-> 0, exit |-> 0, congestion |-> 0]
    /\ sustained = [r \in RuleKeys |-> 0]
    /\ active = [a \in SessionIds \X RuleKeys |-> 0]
    /\ session = [no |-> 0, status |-> "NONE"]
    /\ crossings = 0 /\ log = <<>> /\ held = 0

-----------------------------------------------------------------------------
(* The sliding windows of FlowAnalytics.                                   *)

LastOf(s, n) == SubSeq(s, Max({1, Len(s) - n + 1}), Len(s))

\* Mutant: what is exactly as old as the window goes.
TrimmedEarly(s, cutoff) ==
    LET young == {i \in DOMAIN s : s[i] > cutoff}
    IN  IF young = {} THEN <<>> ELSE LastOf(SubSeq(s, Min(young), Len(s)), Capacity)

\* Trimming goes from the left, and stops at the first that is young enough.
Trimmed(s, cutoff) ==
    LET young == {i \in DOMAIN s : s[i] >= cutoff}
    IN  IF young = {} THEN <<>> ELSE LastOf(SubSeq(s, Min(young), Len(s)), Capacity)

\* An event goes to the windows of its gate and of the venue; its own
\* timestamp trims them, whatever the clock shows.
Recorded(kind, gate, at) ==
    [windows EXCEPT ![kind] = [p \in Places |->
        IF p \in {gate, Venue}
        THEN [w \in Widths |-> Trimmed(Append(@[p][w], at), at - w)]
        ELSE @[p]]]

\* Counting trims every window to the clock.
Swept(wins) ==
    [k \in Kinds |-> [p \in Places |-> [w \in Widths |-> Trimmed(wins[k][p][w], now - w)]]]

Rate(wins, kind) == Len(wins[kind][Venue][RateWidth])
NetRate(wins) == Rate(wins, "ENTRY") - Rate(wins, "EXIT")

\* A set is listed in no particular order: any ids may be the oldest.
Remembered(id) ==
    LET all == seen \cup {id}
    IN  IF Cardinality(all) <= MaxSeen THEN {all}
        ELSE {s \in SUBSET all : Cardinality(s) = Cardinality(all) - Dropped}

-----------------------------------------------------------------------------
(* DensityAnalytics.evaluate: the level rises at once and falls when the   *)
(* ratio is the margin below what the level asks for.                      *)

Target(occupancy, net) ==
    LET ratio == (100 * occupancy) \div Crowd.highMax
    IN  CASE \/ ratio >= Congestion.severe
             \/ ratio >= Congestion.congested /\ net > Congestion.severeNet    -> 3
          [] \/ ratio >= Congestion.congested
             \/ ratio >= Congestion.building /\ net > Congestion.congestedNet  -> 2
          [] ratio >= Congestion.building \/ net > Congestion.buildingNet      -> 1
          [] OTHER -> 0

HoldsAbove(level) ==
    <<Congestion.building, Congestion.congested, Congestion.severe>>[level] - Congestion.margin

CongestionAt(occupancy, net) ==
    LET target == Target(occupancy, net)
    IN  IF target < congestion /\ (100 * occupancy) \div Crowd.highMax > HoldsAbove(congestion)
        THEN congestion ELSE target

-----------------------------------------------------------------------------
(* AnomalyDetector and AlertManager.                                       *)

Known(tot) == {g \in Gates : tot["ENTRY"][g] + tot["EXIT"][g] > 0}
GateEntries(tot) == MapThenSumSet(LAMBDA g : tot["ENTRY"][g], Gates)

\* The share of the gates is not looked at, and their counters stand still,
\* until two are known and there are entries enough.
Evaluated(rule, tot) ==
    rule[2] # Venue => /\ rule[2] \in Known(tot) /\ Cardinality(Known(tot)) > 1
                       /\ GateEntries(tot) >= MinShared

\* Mutant: the occupancy has to be above what is critical.
MetAbove(rule, wins, tot) ==
    rule[1] = "OCCUPANCY_SPIKE" /\ occ.current > Crowd.criticalMin

Met(rule, wins, tot) ==
    CASE rule[1] = "ENTRY_SURGE" -> Rate(wins, "ENTRY") >= Congestion.surge
      [] rule[1] = "EXIT_SURGE" -> Rate(wins, "EXIT") >= Congestion.surge
      [] rule[1] = "OCCUPANCY_SPIKE" -> occ.current >= Crowd.criticalMin
      [] rule[1] = "MOVEMENT_STAGNATION" ->
            occ.current > Crowd.lowMax /\ Rate(wins, "ENTRY") + Rate(wins, "EXIT") = 0
      [] OTHER -> 4 * tot["ENTRY"][rule[2]] >= 3 * GateEntries(tot)

Sustained(wins, tot) ==
    [r \in RuleKeys |->
        IF ~Evaluated(r, tot) THEN sustained[r]
        ELSE IF Met(r, wins, tot) THEN Min({sustained[r] + 1, SustainedFrames})
        ELSE 0]

Signals(wins, tot, counted) ==
    {r \in RuleKeys : Evaluated(r, tot) /\ Met(r, wins, tot) /\ counted[r] = SustainedFrames}

\* One alert for each session, gate and type; an active one is only updated.
Alerted(signals) ==
    [a \in DOMAIN active |->
        IF a[1] = ActiveSession /\ a[2] \in signals /\ active[a] = 0 THEN 1 ELSE active[a]]

-----------------------------------------------------------------------------
Tick ==
    /\ now < MaxNow
    /\ now' = now + 1
    /\ UNCHANGED <<engine, tracker, session, crossings, log, held>>

Counted(kind, gate) ==
    IF kind = "ENTRY" THEN RecordEntry(tracker, gate) ELSE RecordExit(tracker, gate)

\* The camera pipeline counts a crossing; the event comes later, if at all.
Crossing(kind, gate) ==
    /\ crossings < MaxCrossings
    /\ tracker' = Counted(kind, gate) /\ crossings' = crossings + 1
    /\ UNCHANGED <<now, engine, session, log, held>>

\* process_event
Processed(id, kind, gate, at) ==
    LET wins == Swept(Recorded(kind, gate, at))
        tot == [totals EXCEPT ![kind][gate] = @ + 1, ![kind][Venue] = @ + 1]
        counted == Sustained(wins, tot)
    IN  /\ id \notin seen
        /\ seen' \in Remembered(id)
        /\ windows' = wins /\ totals' = tot /\ sustained' = counted
        /\ active' = Alerted(Signals(wins, tot, counted))
        /\ log' = Append(log, [kind |-> kind, gate |-> gate, at |-> at])

Ignored(id) ==
    /\ id \in seen
    /\ windows' = Swept(windows)
    /\ UNCHANGED <<totals, seen, sustained, active, log>>

\* PeakTracker: the rates become peaks with an event only.
PeaksWith(isNew, occupancy, level) ==
    [occupancy |-> Max({peaks.occupancy, occupancy}),
     entry |-> IF isNew THEN Max({peaks.entry, Rate(windows', "ENTRY")}) ELSE peaks.entry,
     exit |-> IF isNew THEN Max({peaks.exit, Rate(windows', "EXIT")}) ELSE peaks.exit,
     congestion |-> Max({peaks.congestion, level})]

\* process_occupancy_state, which is called for an ignored event as well.
Consumed(isNew) ==
    /\ occ' = tracker'
    /\ congestion' = CongestionAt(occ'.current, NetRate(windows'))
    /\ peaks' = PeaksWith(isNew, occ'.current, congestion')
    /\ held' = IF occ'.current < Crowd.criticalMin THEN 0 ELSE held + (IF isNew THEN 1 ELSE 0)

\* EventService.ingest_event up to its first await; the session
\* of the event only has to exist.
Ingest(id, kind, gate, at) ==
    /\ session.no # 0
    /\ tracker.entries + tracker.exits - crossings < MaxEvents
    /\ at \in now - Late .. now + Ahead
    /\ tracker' = Counted(kind, gate)
    /\ \/ Processed(id, kind, gate, at)
       \/ Ignored(id)
    /\ Consumed(id \notin seen)
    /\ UNCHANGED <<now, session, crossings>>

\* get_current_intelligence: reading trims the windows, and evaluates the
\* congestion again without a look at the peaks.
Reading ==
    /\ windows' = Swept(windows)
    /\ congestion' = CongestionAt(occ.current, NetRate(windows'))
    /\ UNCHANGED <<totals, seen, occ, peaks, sustained, active>>

Read ==
    /\ Reading
    /\ UNCHANGED <<now, tracker, session, crossings, log, held>>

\* The sessions of the venue come and go; the engine stays as it is.
SessionStarts ==
    /\ session.status = "NONE" /\ session.no < MaxSessions
    /\ session' = [no |-> session.no + 1, status |-> "ACTIVE"]
    /\ UNCHANGED <<now, engine, tracker, crossings, log, held>>

SessionStops ==
    /\ session.status # "NONE"
    /\ session' = [session EXCEPT !.status = "NONE"]
    /\ UNCHANGED <<now, engine, tracker, crossings, log, held>>

IntelligenceNext ==
    \/ Tick
    \/ Read
    \/ SessionStarts
    \/ SessionStops
    \/ \E kind \in Kinds, gate \in Gates : Crossing(kind, gate)
    \/ \E id \in 1..MaxEvents, kind \in Kinds, gate \in Gates, at \in now - Late .. now + Ahead :
        id <= Len(log) + 1 /\ Ingest(id, kind, gate, at)

IntelligenceSpec == IntelligenceInit /\ [][IntelligenceNext]_intelligenceVars

-----------------------------------------------------------------------------
(* Properties.                                                             *)

Occurred(kind, place) ==
    {i \in DOMAIN log : log[i].kind = kind /\ place \in {log[i].gate, Venue}}

\* The latest time the windows of a kind and place were trimmed to.
Horizon(kind, place) == Max({now} \cup {log[i].at : i \in Occurred(kind, place)})

\* What a window must not miss: the last Capacity events, as far as they are
\* young enough.
Due(kind, place, width) ==
    {i \in Occurred(kind, place) :
        /\ log[i].at >= Horizon(kind, place) - width
        /\ Cardinality({j \in Occurred(kind, place) : j > i}) < Capacity}

\* A rate may count too much, when a late event hides behind a young one, but
\* it misses nothing of its window; a longer window has at least what a shorter
\* one has; and the gates do not add up to more than the venue, unless a
\* timestamp ahead of the clock or the capacity has trimmed the venue only.
RatesAgree ==
    LET wins == Swept(windows)
    IN  \A k \in Kinds, w \in Widths :
            /\ \A p \in Places :
                /\ Cardinality(Due(k, p, w)) <= Len(wins[k][p][w])
                /\ \A v \in Widths : v <= w => Len(wins[k][p][v]) <= Len(wins[k][p][w])
            /\ Horizon(k, Venue) = now /\ totals[k][Venue] <= Capacity =>
                    MapThenSumSet(LAMBDA g : Len(wins[k][g][w]), Gates) <= Len(wins[k][Venue][w])

\* A venue that has been over its critical occupancy for more events than the
\* rule asks for has an alert in the session of the last of them.
SpikeIsReported ==
    [][held' > SustainedFrames /\ log' # log =>
        active'[<<ActiveSession, <<"OCCUPANCY_SPIKE", Venue>>>>] > 0]_intelligenceVars

\* Active alerts transition to RESOLVED when conditions subside: a rule that was
\* not met at the last evaluation has none.
AlertsSubside ==
    \A a \in DOMAIN active : sustained[a[2]] = 0 => active[a] = 0
=============================================================================
