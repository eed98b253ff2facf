----------------------------- MODULE EventIngest -----------------------------
(***************************************************************************)
(* How a gate crossing is counted, analysed, stored and shown: the event   *)
(* endpoint's handlers and the frame consumers of a venue's cameras, which *)
(* share one OccupancyTracker, one FlowAnalytics and one event collection. *)
(*                                                                         *)
(* Handlers and consumers run on one event loop and are interleaved only   *)
(* at their awaits. The vision pipeline of a consumer runs in a worker     *)
(* thread (asyncio.to_thread), at any time, even in the middle of what a   *)
(* handler does between two awaits: those lines are two steps here, Count  *)
(* and Analyse, with the loop held in between.                             *)
(***************************************************************************)
EXTENDS OccupancyTracker, FiniteSets, Functions

CONSTANTS
    Clients,      \* handlers of the event endpoint
    Consumers,    \* frame consumers, one per running camera
    ApiEvents,    \* event_ids that clients send, any number of times
    CameraEvents, \* deterministic event ids, each of one crossing in one frame
    Entries,      \* the events that are ENTRY; the others are EXIT
    GateOf,       \* gate_id of each event
    NoEvent,      \* what a handler at rest works on
    SeenLimit,    \* FlowAnalytics._max_seen_event_ids (20000 in the code)
    Forget,       \* how many ids are dropped beyond the limit (10000)
    MaxSubmits,   \* bound: requests sent in a behaviour
    MaxFaults     \* bound: failed queries and sends, cancellations and restarts

Events   == ApiEvents \cup CameraEvents
Handlers == Clients \cup Consumers

ASSUME FiniteIds == IsFiniteSet(ApiEvents) /\ IsFiniteSet(CameraEvents)
ASSUME KindsOfEvents == ApiEvents \cap CameraEvents = {} /\ Entries \subseteq Events
ASSUME KindsOfHandlers == Clients \cap Consumers = {}
ASSUME GatesKnown == GateOf \in [Events -> Gates]
ASSUME NoEventIsNoId == NoEvent \notin Events
ASSUME SeenBounds == SeenLimit \in Nat /\ Forget \in 1..SeenLimit
ASSUME IngestBounds == MaxSubmits \in Nat /\ MaxFaults \in Nat

VARIABLES
    session,   \* the tracked session: "ACTIVE", "IDLE" (paused, or all have ended),
               \* "NONE" if the process knows no session of the venue
    tracker,   \* OccupancyTracker of the venue's movement engine
    flow,      \* FlowAnalytics: cumulative entries and exits
    seen,      \* FlowAnalytics._seen_event_ids
    synced,    \* OccupancyAnalytics._last_state
    peak,      \* PeakTracker.peak_occupancy
    docs,      \* status field of each event's MongoDB document, or "NONE"
    shown,     \* the figures last sent to the dashboards
    task,      \* what each handler or consumer is in the middle of
    crossed,   \* history: camera events whose frame was picked
    submits,   \* history: requests sent
    faults,    \* history: how many of the things MaxFaults bounds happened
    evicted,   \* history: seen ids were dropped
    overlapped \* history: two handlers were at work together

engine == <<tracker, flow, seen, synced, peak>>
bounds == <<submits, faults, evicted, overlapped>>
vars == <<session, tracker, flow, seen, synced, peak, docs, shown, task, crossed,
          submits, faults, evicted, overlapped>>

Exits == Events \ Entries

Figures == [current : Nat, entries : Nat, exits : Nat]
NoFigures == [current |-> 0, entries |-> 0, exits |-> 0]

\* vision: the worker thread runs; adrift: it runs, its consumer was cancelled;
\* route: it has returned an event; counted: between record_* and process_event,
\* the loop is not yielded; find, insert, announce, send: the awaits that follow.
Phases == {"idle", "vision", "adrift", "route", "counted", "find", "insert", "announce", "send"}
Outcomes == {"processed", "ignored"}

TaskType == [phase : Phases, event : Events \cup {NoEvent}, outcome : Outcomes,
             figures : Figures]

AtRest == [phase |-> "idle", event |-> NoEvent, outcome |-> "ignored",
           figures |-> NoFigures]

TypeOK ==
    /\ session \in {"NONE", "ACTIVE", "IDLE"}
    /\ tracker \in OccupancyType /\ synced \in OccupancyType
    /\ flow \in [entries : Nat, exits : Nat] /\ peak \in Nat
    /\ seen \in SUBSET Events
    /\ docs \in [Events -> Outcomes \cup {"NONE"}]
    /\ shown \in Figures
    /\ task \in [Handlers -> TaskType]
    /\ \A h \in Clients : task[h].phase \notin {"vision", "adrift", "route"}
    /\ crossed \in SUBSET CameraEvents
    /\ submits \in 0..MaxSubmits /\ faults \in 0..MaxFaults
    /\ evicted \in BOOLEAN /\ overlapped \in BOOLEAN

Resting(h) == task[h].phase = "idle"

Init ==
    /\ session = "ACTIVE"
    /\ tracker = NoOccupancy /\ synced = NoOccupancy
    /\ flow = [entries |-> 0, exits |-> 0] /\ peak = 0
    /\ seen = {}
    /\ docs = [e \in Events |-> "NONE"]
    /\ shown = NoFigures
    /\ task = [h \in Handlers |-> AtRest]
    /\ crossed = {}
    /\ submits = 0 /\ faults = 0
    /\ evicted = FALSE /\ overlapped = FALSE

------------------------------------------------------------------------------
(* Counting and analysis. *)

\* No handler is between two lines that have no await between them.
LoopFree == \A h \in Handlers : task[h].phase # "counted"

Goes(h, phase) == task' = [task EXCEPT ![h].phase = phase]

Rests(h) == task' = [task EXCEPT ![h] = AtRest]

Recorded(occ, e) ==
    IF e \in Entries THEN RecordEntry(occ, GateOf[e]) ELSE RecordExit(occ, GateOf[e])

Takes(h, e, phase) ==
    /\ task' = [task EXCEPT ![h] = [AtRest EXCEPT !.phase = phase, !.event = e]]
    /\ overlapped' = (overlapped \/ \E k \in Handlers \ {h} : ~Resting(k))

\* The handler leaves the tracker to the movement engine.
SubmitUncounted(h, e) ==
    /\ LoopFree /\ Resting(h) /\ session # "NONE" /\ submits < MaxSubmits
    /\ submits' = submits + 1
    /\ Takes(h, e, "counted")
    /\ UNCHANGED <<session, engine, docs, shown, crossed, faults, evicted>>

\* POST of an event: the session must be known, in whatever status it is. The
\* tracker is moved before anybody asks whether the event_id is new.
Submit(h, e) ==
    /\ LoopFree /\ Resting(h) /\ session # "NONE" /\ submits < MaxSubmits
    /\ submits' = submits + 1
    /\ tracker' = Recorded(tracker, e)
    /\ Takes(h, e, "counted")
    /\ UNCHANGED <<session, flow, seen, synced, peak, docs, shown, crossed, faults, evicted>>

\* A consumer takes a frame with a crossing in it, for the ACTIVE session only.
PickFrame(h, e) ==
    /\ LoopFree /\ Resting(h) /\ session = "ACTIVE"
    /\ e \notin crossed
    /\ crossed' = crossed \cup {e}
    /\ Takes(h, e, "vision")
    /\ UNCHANGED <<session, engine, docs, shown, submits, faults, evicted>>

\* In the worker thread: MovementEngine validates the crossing and counts it.
SeeCrossing(h) ==
    /\ task[h].phase \in {"vision", "adrift"}
    /\ tracker' = Recorded(tracker, task[h].event)
    /\ IF task[h].phase = "vision" THEN Goes(h, "route") ELSE Rests(h)
    /\ UNCHANGED <<session, flow, seen, synced, peak, docs, shown, crossed, bounds>>

\* Nothing detected, tracked or validated, or an exception in the pipeline.
SeeNothing(h) ==
    /\ task[h].phase \in {"vision", "adrift"}
    /\ Rests(h)
    /\ UNCHANGED <<session, engine, docs, shown, crossed, bounds>>

\* The consumer hands the event to EventService.ingest_event, which counts it again.
Route(h) ==
    /\ LoopFree /\ task[h].phase = "route"
    /\ tracker' = Recorded(tracker, task[h].event)
    /\ Goes(h, "counted")
    /\ UNCHANGED <<session, flow, seen, synced, peak, docs, shown, crossed, bounds>>

\* The new id is added, and beyond the limit the ids that list() of the set
\* happens to put first are dropped: any of them, the new one included.
Remember(e) ==
    LET ids == seen \cup {e}
    IN  IF Cardinality(ids) <= SeenLimit
        THEN seen' = ids /\ UNCHANGED evicted
        ELSE /\ \E old \in SUBSET ids : Cardinality(old) = Forget /\ seen' = ids \ old
             /\ evicted' = TRUE

Counted(e) ==
    IF e \in Entries THEN [flow EXCEPT !.entries = @ + 1] ELSE [flow EXCEPT !.exits = @ + 1]

\* The counters are moved before the id is looked up.
FlowCountsFirst(e) == Remember(e) /\ flow' = Counted(e)

\* FlowAnalytics.record_event: a duplicate is not counted again.
FlowRecord(e) ==
    IF e \in seen THEN UNCHANGED <<seen, flow, evicted>>
    ELSE Remember(e) /\ flow' = Counted(e)

Higher(n, m) == IF n > m THEN n ELSE m

\* The peak is taken from the state before this one.
SynchronisePeakFirst == synced' = tracker /\ peak' = Higher(peak, synced.current)

\* An unchanged head count is taken for an unchanged state.
SynchroniseIfMoved ==
    /\ synced' = IF synced.current = tracker.current THEN synced ELSE tracker
    /\ peak' = Higher(peak, tracker.current)

\* consume_occupancy_state and update_occupancy, with the tracker's state now.
Synchronise == synced' = tracker /\ peak' = Higher(peak, tracker.current)

\* process_event, then the tracker's state goes to the analytics, whether or not
\* the event was a duplicate.
Analyse(h) ==
    LET e == task[h].event
    IN  /\ task[h].phase = "counted"
        /\ FlowRecord(e)
        /\ Synchronise
        /\ task' = [task EXCEPT ![h].phase = "find",
                        ![h].outcome = IF e \in seen THEN "ignored" ELSE "processed"]
        /\ UNCHANGED <<session, tracker, docs, shown, crossed, submits, faults, overlapped>>

------------------------------------------------------------------------------
(* The awaits: the event document, then the dashboards. *)

Fault == faults < MaxFaults /\ faults' = faults + 1

Awaiting(h, phase) == LoopFree /\ task[h].phase = phase

\* Any document of the venue is taken for the event's.
FindAny(h) ==
    /\ Awaiting(h, "find")
    /\ Goes(h, IF \E e \in Events : docs[e] # "NONE" THEN "announce" ELSE "insert")
    /\ UNCHANGED <<session, engine, docs, shown, crossed, bounds>>

\* save_event looks the event_id up before it inserts.
Find(h) ==
    /\ Awaiting(h, "find")
    /\ Goes(h, IF docs[task[h].event] # "NONE" THEN "announce" ELSE "insert")
    /\ UNCHANGED <<session, engine, docs, shown, crossed, bounds>>

\* find_one logs the driver's exception and answers None.
FindFails(h) ==
    /\ Awaiting(h, "find")
    /\ Goes(h, "insert")
    /\ Fault
    /\ UNCHANGED <<session, engine, docs, shown, crossed, submits, evicted, overlapped>>

\* The unique index on event_id refuses a second document, whatever its status.
Insert(h) ==
    /\ Awaiting(h, "insert")
    /\ docs' = [docs EXCEPT ![task[h].event] = IF @ = "NONE" THEN task[h].outcome ELSE @]
    /\ Goes(h, "announce")
    /\ UNCHANGED <<session, engine, shown, crossed, bounds>>

InsertFails(h) ==
    /\ Awaiting(h, "insert")
    /\ Goes(h, "announce")
    /\ Fault
    /\ UNCHANGED <<session, engine, docs, shown, crossed, submits, evicted, overlapped>>

\* The totals are the tracker's, the other figures the analytics'.
AnnounceTrackerTotals(h) ==
    /\ Awaiting(h, "announce")
    /\ task' = [task EXCEPT ![h].phase = "send", ![h].figures =
           [current |-> synced.current, entries |-> synced.entries, exits |-> synced.exits]]
    /\ UNCHANGED <<session, engine, docs, shown, crossed, bounds>>

\* The head count is the tracker's as the analytics hold it, the totals are the
\* flow's: the figures of this moment, sent in the awaits that follow.
Announce(h) ==
    /\ Awaiting(h, "announce")
    /\ task' = [task EXCEPT ![h].phase = "send", ![h].figures =
           [current |-> synced.current, entries |-> flow.entries, exits |-> flow.exits]]
    /\ UNCHANGED <<session, engine, docs, shown, crossed, bounds>>

Send(h) ==
    /\ Awaiting(h, "send")
    /\ shown' = task[h].figures
    /\ Rests(h)
    /\ UNCHANGED <<session, engine, docs, crossed, bounds>>

SendFails(h) ==
    /\ Awaiting(h, "send")
    /\ Rests(h)
    /\ Fault
    /\ UNCHANGED <<session, engine, docs, shown, crossed, submits, evicted, overlapped>>

------------------------------------------------------------------------------
(* What happens around the handlers. *)

\* The camera is stopped: the consumer's task is cancelled in the await it is in.
\* A worker thread cannot be cancelled and goes on alone.
Cancel(h) ==
    /\ LoopFree
    /\ task[h].phase \in {"vision", "route", "find", "insert", "announce", "send"}
    /\ IF task[h].phase = "vision" THEN Goes(h, "adrift") ELSE Rests(h)
    /\ Fault
    /\ UNCHANGED <<session, engine, docs, shown, crossed, submits, evicted, overlapped>>

\* The session handlers: a pause, a stop or an expiration, and back with a resume
\* or with a new session.
MoveSession ==
    /\ LoopFree
    /\ session' = IF session = "ACTIVE" THEN "IDLE" ELSE "ACTIVE"
    /\ UNCHANGED <<engine, docs, shown, task, crossed, bounds>>

\* Everything but MongoDB and the screens is gone with the process.
Restart ==
    /\ session' = "NONE"
    /\ tracker' = NoOccupancy /\ synced' = NoOccupancy
    /\ flow' = [entries |-> 0, exits |-> 0] /\ peak' = 0
    /\ seen' = {}
    /\ task' = [h \in Handlers |-> AtRest]
    /\ Fault
    /\ UNCHANGED <<docs, shown, crossed, submits, evicted, overlapped>>

Proceed(h) ==
    \/ Analyse(h)
    \/ Find(h) \/ FindFails(h) \/ Insert(h) \/ InsertFails(h)
    \/ Announce(h) \/ Send(h) \/ SendFails(h)

ProceedFrame(h) == SeeCrossing(h) \/ SeeNothing(h) \/ Route(h)

Next ==
    \/ \E h \in Clients, e \in ApiEvents : Submit(h, e)
    \/ \E h \in Consumers, e \in CameraEvents : PickFrame(h, e)
    \/ \E h \in Consumers : ProceedFrame(h) \/ Cancel(h)
    \/ \E h \in Handlers : Proceed(h)
    \/ MoveSession
    \/ Restart

Spec == Init /\ [][Next]_vars

\* A thread returns, an await ends and the loop goes round; requests, frames and
\* the session's moves are owed by nobody.
FairSpec == Spec /\ \A h \in Handlers : WF_vars(Proceed(h) \/ ProceedFrame(h))

------------------------------------------------------------------------------
(* Properties. *)

AllAtRest == \A h \in Handlers : Resting(h)
Serial    == faults = 0 /\ ~overlapped /\ ~evicted

\* The counts of the gates never add up to less than the venue's: an exit takes
\* one from the venue whenever it takes one from its gate (occupancy.py, where
\* venue and gate are bounded by 0 one by one).
GateSumCoversVenue ==
    tracker.current <= FoldFunction(+, 0, tracker.gate)

\* The head count stays between what the two totals allow and the entries, in the
\* tracker and in the copy the analytics work on, whatever order exits come in.
HeadCountWithinTotals == WithinBounds(tracker) /\ WithinBounds(synced)

\* Until ids are dropped, the flow totals are exactly the distinct events this
\* process has seen, however often and from how many handlers each one came.
FlowCountsDistinctEvents ==
    ~evicted => /\ flow.entries = Cardinality(seen \cap Entries)
                /\ flow.exits = Cardinality(seen \cap Exits)

\* The flow never counts a crossing the tracker has missed: the tracker may be
\* ahead (a duplicate, a crossing counted by the movement engine), never behind.
TrackerNeverBehindFlow ==
    flow.entries <= tracker.entries /\ flow.exits <= tracker.exits

\* The analytics hold the tracker's present state unless a crossing is on its way
\* to them; only a cancelled consumer can leave them behind.
AnalyticsFollowTracker ==
    \/ synced = tracker
    \/ \E h \in Handlers : task[h].phase \in {"route", "counted"}
    \/ faults > 0

\* The peak covers every head count the analytics have held, the present one
\* included, and no head count exceeds the entries behind it.
PeakCoversOccupancy == synced.current <= peak /\ peak <= tracker.entries

\* Requests that come one at a time and meet no failure leave every seen event
\* stored as processed, and the dashboards with the figures the engines hold.
SerialIngestIsConsistent ==
    Serial /\ AllAtRest =>
        /\ \A e \in Events : docs[e] = IF e \in seen THEN "processed" ELSE "NONE"
        /\ seen # {} => shown = [current |-> synced.current,
                                 entries |-> flow.entries, exits |-> flow.exits]

\* A stored event document is never written again: not by a duplicate, not by a
\* second handler in the race between look-up and insert, not after a restart.
EventDocsAreImmutable ==
    [][\A e \in Events : docs[e] # "NONE" => docs'[e] = docs[e]]_vars

\* An event that was analysed reaches MongoDB unless something fails.
AnalysedIsStored ==
    \A e \in Events :
        e \in seen ~> docs[e] # "NONE" \/ faults > 0

\* camera_runtime_service.py promises to route "valid events with deterministic
\* idempotency": an event that comes twice has the effect of one. The total of
\* entries would then be at most the number of distinct ENTRY events.
EntryCountedOnce ==
    tracker.entries <= Cardinality({e \in Entries : e \in seen \cup crossed
                          \/ \E h \in Handlers : task[h].event = e})
=============================================================================
