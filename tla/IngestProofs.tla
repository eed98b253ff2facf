---------------------------- MODULE IngestProofs ----------------------------
(***************************************************************************)
(* What EventIngest keeps for any events, handlers, gates and bounds.      *)
(* Requests and the worker threads of the cameras move one tracker, so the *)
(* argument is about what is between the tracker and the counts derived    *)
(* from it: one handler at most is between its two lines (OneInside), and  *)
(* the crossing it holds is in the tracker and in no derived count yet     *)
(* (InsideIsAhead).                                                        *)
(***************************************************************************)
EXTENDS EventIngest, FiniteSetTheorems, WellFoundedInduction, Integers, TLAPS

OneInside ==
    \A h, k \in Handlers :
        task[h].phase = "counted" /\ task[k].phase = "counted" => h = k

InsideIsAhead ==
    \A h \in Handlers : task[h].phase = "counted" =>
        IF task[h].event \in Entries THEN flow.entries < tracker.entries
        ELSE flow.exits < tracker.exits

\* Whoever is at work has an event; a thread is adrift only after a cancellation.
WorkersHaveEvents ==
    \A h \in Handlers :
        /\ task[h].phase # "idle" => task[h].event \in Events
        /\ task[h].phase = "adrift" => faults > 0

IInv == /\ TypeOK /\ WorkersHaveEvents /\ OneInside /\ InsideIsAhead
        /\ HeadCountWithinTotals /\ TrackerNeverBehindFlow /\ PeakCoversOccupancy
        /\ FlowCountsDistinctEvents /\ AnalyticsFollowTracker

------------------------------------------------------------------------------
(* The tracker and the tasks. *)

\* A new tracker is one, within its bounds.
LEMMA NoOccupancyFacts == NoOccupancy \in OccupancyType /\ WithinBounds(NoOccupancy)
  BY DEF NoOccupancy, OccupancyType, WithinBounds

\* An entry keeps a tracker a tracker, within its bounds, and adds one entry.
LEMMA EntryFacts ==
    ASSUME NEW occ \in OccupancyType, NEW g \in Gates
    PROVE  /\ RecordEntry(occ, g) \in OccupancyType
           /\ WithinBounds(occ) => WithinBounds(RecordEntry(occ, g))
           /\ RecordEntry(occ, g).entries = occ.entries + 1
           /\ RecordEntry(occ, g).exits = occ.exits
  <1> DEFINE new == RecordEntry(occ, g)
  <1>1. /\ new.entries = occ.entries + 1 /\ new.exits = occ.exits
        /\ new.current = occ.current + 1
        /\ new.gate = [occ.gate EXCEPT ![g] = @ + 1]
    BY DEF RecordEntry, OccupancyType
  <1>2. new \in OccupancyType
    BY DEF RecordEntry, OccupancyType
  <1>3. WithinBounds(occ) => WithinBounds(new)
    BY <1>1 DEF WithinBounds, OccupancyType
  <1> QED BY <1>1, <1>2, <1>3

\* An exit does too, and takes nobody from a count that is 0.
LEMMA ExitFacts ==
    ASSUME NEW occ \in OccupancyType, NEW g \in Gates
    PROVE  /\ RecordExit(occ, g) \in OccupancyType
           /\ WithinBounds(occ) => WithinBounds(RecordExit(occ, g))
           /\ RecordExit(occ, g).exits = occ.exits + 1
           /\ RecordExit(occ, g).entries = occ.entries
  <1> DEFINE new == RecordExit(occ, g)
  <1>1. /\ new.entries = occ.entries /\ new.exits = occ.exits + 1
        /\ new.current = LessOne(occ.current)
        /\ new.gate = [occ.gate EXCEPT ![g] = LessOne(@)]
    BY DEF RecordExit, OccupancyType
  <1>2. \A n \in Nat : LessOne(n) \in Nat /\ LessOne(n) <= n /\ n <= LessOne(n) + 1
    BY DEF LessOne
  <1>3. new \in OccupancyType
    BY <1>2 DEF RecordExit, OccupancyType
  <1>4. WithinBounds(occ) => WithinBounds(new)
    <2> SUFFICES ASSUME WithinBounds(occ) PROVE WithinBounds(new)
      OBVIOUS
    <2>1. new.current <= new.entries /\ new.entries <= new.current + new.exits
      BY <1>1, <1>2 DEF WithinBounds, OccupancyType
    <2>2. \A x \in Gates : new.gate[x] <= new.entries
      BY <1>1, <1>2 DEF WithinBounds, OccupancyType
    <2> QED BY <2>1, <2>2 DEF WithinBounds
  <1> QED BY <1>1, <1>3, <1>4

\* Counting an event moves one of the two totals by one.
LEMMA RecordedFacts ==
    ASSUME NEW occ \in OccupancyType, NEW e \in Events
    PROVE  /\ Recorded(occ, e) \in OccupancyType
           /\ WithinBounds(occ) => WithinBounds(Recorded(occ, e))
           /\ e \in Entries => /\ Recorded(occ, e).entries = occ.entries + 1
                               /\ Recorded(occ, e).exits = occ.exits
           /\ e \notin Entries => /\ Recorded(occ, e).entries = occ.entries
                                  /\ Recorded(occ, e).exits = occ.exits + 1
  BY GatesKnown, EntryFacts, ExitFacts DEF Recorded

LEMMA RestFacts == AtRest \in TaskType /\ AtRest.phase = "idle" /\ NoFigures \in Figures
  BY DEF AtRest, TaskType, Phases, Outcomes, Figures, NoFigures

------------------------------------------------------------------------------
LEMMA InitInvariant == Init => IInv
  <1> SUFFICES ASSUME Init PROVE IInv
    OBVIOUS
  <1>1. TypeOK
    <2>1. task \in [Handlers -> TaskType] /\ \A h \in Handlers : task[h].phase = "idle"
      BY RestFacts DEF Init
    <2>2. \A h \in Clients : task[h].phase \notin {"vision", "adrift", "route"}
      BY <2>1 DEF Handlers
    <2>3. /\ submits \in 0..MaxSubmits /\ faults \in 0..MaxFaults
          /\ flow \in [entries : Nat, exits : Nat] /\ peak \in Nat
      BY IngestBounds DEF Init
    <2>4. evicted \in BOOLEAN /\ overlapped \in BOOLEAN
      BY DEF Init
    <2>5. docs \in [Events -> Outcomes \cup {"NONE"}] /\ shown \in Figures
      BY RestFacts DEF Init
    <2> QED BY <2>1, <2>2, <2>3, <2>4, <2>5, NoOccupancyFacts DEF Init, TypeOK
  <1>2. WorkersHaveEvents /\ OneInside /\ InsideIsAhead
    BY RestFacts DEF Init, WorkersHaveEvents, OneInside, InsideIsAhead
  <1>3. HeadCountWithinTotals /\ TrackerNeverBehindFlow /\ PeakCoversOccupancy
    BY NoOccupancyFacts DEF Init, HeadCountWithinTotals, TrackerNeverBehindFlow,
                            PeakCoversOccupancy, NoOccupancy
  <1>4. FlowCountsDistinctEvents
    <2>1. seen \cap Entries = {} /\ seen \cap Exits = {}
      BY DEF Init
    <2> QED BY <2>1, FS_EmptySet DEF Init, FlowCountsDistinctEvents
  <1>5. AnalyticsFollowTracker
    BY DEF Init, AnalyticsFollowTracker
  <1> QED BY <1>1, <1>2, <1>3, <1>4, <1>5 DEF IInv

------------------------------------------------------------------------------
(* The steps that move the tracker: one more crossing in it, held by h. *)

LEMMA CountingStep ==
    ASSUME IInv, NEW h \in Handlers, NEW e \in Events,
           tracker' = Recorded(tracker, e),
           UNCHANGED <<flow, seen, synced, peak, evicted>>
    PROVE  /\ tracker' \in OccupancyType
           /\ HeadCountWithinTotals' /\ TrackerNeverBehindFlow' /\ PeakCoversOccupancy'
           /\ FlowCountsDistinctEvents'
           /\ IF e \in Entries THEN flow'.entries < tracker'.entries
              ELSE flow'.exits < tracker'.exits
           /\ tracker.entries <= tracker'.entries /\ tracker.exits <= tracker'.exits
  <1>1. /\ tracker \in OccupancyType /\ flow \in [entries : Nat, exits : Nat] /\ peak \in Nat
        /\ tracker.entries \in Nat /\ tracker.exits \in Nat
        /\ flow.entries \in Nat /\ flow.exits \in Nat
    BY DEF IInv, TypeOK, OccupancyType
  <1>2. /\ tracker' \in OccupancyType
        /\ HeadCountWithinTotals'
    BY <1>1, RecordedFacts DEF IInv, HeadCountWithinTotals
  <1>3. /\ TrackerNeverBehindFlow'
        /\ IF e \in Entries THEN flow'.entries < tracker'.entries
           ELSE flow'.exits < tracker'.exits
        /\ tracker.entries <= tracker'.entries /\ tracker.exits <= tracker'.exits
    BY <1>1, RecordedFacts DEF IInv, TrackerNeverBehindFlow
  <1>4. PeakCoversOccupancy'
    BY <1>1, <1>3, <1>2 DEF IInv, PeakCoversOccupancy, OccupancyType
  <1>5. FlowCountsDistinctEvents'
    BY DEF IInv, FlowCountsDistinctEvents
  <1> QED BY <1>2, <1>3, <1>4, <1>5

------------------------------------------------------------------------------
(* What a step does to the tasks. *)

LEMMA GoesFacts ==
    ASSUME TypeOK, NEW h \in Handlers, NEW p \in Phases, Goes(h, p)
    PROVE  /\ task' \in [Handlers -> TaskType]
           /\ task'[h].phase = p /\ task'[h].event = task[h].event
           /\ \A k \in Handlers \ {h} : task'[k] = task[k]
  BY DEF TypeOK, Goes, TaskType

LEMMA RestsFacts ==
    ASSUME TypeOK, NEW h \in Handlers, Rests(h)
    PROVE  /\ task' \in [Handlers -> TaskType]
           /\ task'[h].phase = "idle"
           /\ \A k \in Handlers \ {h} : task'[k] = task[k]
  BY RestFacts DEF TypeOK, Rests

LEMMA TakesFacts ==
    ASSUME TypeOK, NEW h \in Handlers, NEW e \in Events, NEW p \in Phases, Takes(h, e, p)
    PROVE  /\ task' \in [Handlers -> TaskType]
           /\ task'[h].phase = p /\ task'[h].event = e
           /\ \A k \in Handlers \ {h} : task'[k] = task[k]
           /\ overlapped' \in BOOLEAN
  <1>1. [AtRest EXCEPT !.phase = p, !.event = e] \in TaskType
    BY RestFacts DEF TaskType
  <1>2. /\ [AtRest EXCEPT !.phase = p, !.event = e].phase = p
        /\ [AtRest EXCEPT !.phase = p, !.event = e].event = e
    BY DEF AtRest
  <1>3. overlapped' \in BOOLEAN
    BY DEF Takes, TypeOK
  <1> QED BY <1>1, <1>2, <1>3 DEF TypeOK, Takes

\* A step that leaves the engines alone and puts nobody between the two lines.
LEMMA QuietStep ==
    ASSUME IInv, UNCHANGED <<engine, evicted>>, faults' \in Nat, faults' >= faults,
           NEW h \in Handlers,
           \A k \in Handlers \ {h} : task'[k] = task[k],
           task'[h].phase # "counted",
           task'[h].phase # "idle" => task'[h].event \in Events,
           task'[h].phase = "adrift" => faults' > 0,
           task[h].phase \in {"route", "counted"} => faults' > 0
    PROVE  /\ WorkersHaveEvents' /\ OneInside' /\ InsideIsAhead'
           /\ HeadCountWithinTotals' /\ TrackerNeverBehindFlow' /\ PeakCoversOccupancy'
           /\ FlowCountsDistinctEvents' /\ AnalyticsFollowTracker'
  <1>1. faults \in Nat
    BY IngestBounds DEF IInv, TypeOK
  <1>2. WorkersHaveEvents'
    BY <1>1 DEF IInv, WorkersHaveEvents
  <1>3. OneInside' /\ InsideIsAhead'
    BY DEF IInv, OneInside, InsideIsAhead, engine
  <1>4. HeadCountWithinTotals' /\ TrackerNeverBehindFlow' /\ PeakCoversOccupancy'
    BY DEF IInv, HeadCountWithinTotals, TrackerNeverBehindFlow, PeakCoversOccupancy, engine
  <1>5. FlowCountsDistinctEvents'
    BY DEF IInv, FlowCountsDistinctEvents, engine
  <1>6. AnalyticsFollowTracker'
    BY <1>1 DEF IInv, AnalyticsFollowTracker, engine
  <1> QED BY <1>2, <1>3, <1>4, <1>5, <1>6

\* The rest of the types, once the task of the handler that moved is known.
LEMMA TypeStep ==
    ASSUME TypeOK, NEW h \in Handlers,
           task' \in [Handlers -> TaskType],
           \A k \in Handlers \ {h} : task'[k] = task[k],
           task'[h].phase \in {"vision", "adrift", "route"} => h \in Consumers,
           tracker' \in OccupancyType, synced' \in OccupancyType,
           flow' \in [entries : Nat, exits : Nat], peak' \in Nat, seen' \in SUBSET Events,
           docs' \in [Events -> Outcomes \cup {"NONE"}], shown' \in Figures,
           crossed' \in SUBSET CameraEvents, UNCHANGED session,
           submits' \in 0..MaxSubmits, faults' \in 0..MaxFaults,
           evicted' \in BOOLEAN, overlapped' \in BOOLEAN
    PROVE  TypeOK'
  <1>1. \A k \in Clients : task'[k].phase \notin {"vision", "adrift", "route"}
    BY KindsOfHandlers DEF TypeOK, Handlers
  <1> QED BY <1>1 DEF TypeOK

LEMMA FaultFacts ==
    ASSUME TypeOK, Fault
    PROVE  faults' \in 0..MaxFaults /\ faults' \in Nat /\ faults' >= faults /\ faults' > 0
  BY IngestBounds DEF TypeOK, Fault

LEMMA NoFaultFacts ==
    ASSUME TypeOK, UNCHANGED faults
    PROVE  faults' \in 0..MaxFaults /\ faults' \in Nat /\ faults' >= faults
  BY IngestBounds DEF TypeOK

\* The awaits after the analysis touch documents, screens and tasks only.
LEMMA AwaitStep ==
    ASSUME IInv, NEW h \in Handlers, NEW p \in {"find", "insert", "announce", "send"},
           Awaiting(h, p), UNCHANGED <<session, engine, crossed, submits, evicted, overlapped>>,
           UNCHANGED faults \/ Fault,
           docs' \in [Events -> Outcomes \cup {"NONE"}], shown' \in Figures,
           task' \in [Handlers -> TaskType],
           \A k \in Handlers \ {h} : task'[k] = task[k],
           task'[h].phase \in {"idle", "insert", "announce", "send"},
           task'[h].phase # "idle" => task'[h].event = task[h].event
    PROVE  IInv'
  <1>1. TypeOK
    BY DEF IInv
  <1>2. faults' \in 0..MaxFaults /\ faults' \in Nat /\ faults' >= faults
    BY <1>1, FaultFacts, NoFaultFacts
  <1>3. task[h].event \in Events /\ task[h].phase = p
    BY DEF IInv, WorkersHaveEvents, Awaiting
  <1>4. TypeOK'
    <2>1. /\ tracker' \in OccupancyType /\ synced' \in OccupancyType
          /\ flow' \in [entries : Nat, exits : Nat] /\ peak' \in Nat /\ seen' \in SUBSET Events
          /\ crossed' \in SUBSET CameraEvents /\ submits' \in 0..MaxSubmits
          /\ evicted' \in BOOLEAN /\ overlapped' \in BOOLEAN
      BY <1>1 DEF TypeOK, engine
    <2> QED BY <2>1, <1>1, <1>2, TypeStep
  <1>5. /\ WorkersHaveEvents' /\ OneInside' /\ InsideIsAhead'
        /\ HeadCountWithinTotals' /\ TrackerNeverBehindFlow' /\ PeakCoversOccupancy'
        /\ FlowCountsDistinctEvents' /\ AnalyticsFollowTracker'
    BY <1>2, <1>3, QuietStep
  <1> QED BY <1>4, <1>5 DEF IInv

LEMMA ProceedKeeps ==
    ASSUME IInv, NEW h \in Handlers,
           \/ Find(h) \/ FindFails(h) \/ Insert(h) \/ InsertFails(h)
           \/ Announce(h) \/ Send(h) \/ SendFails(h)
    PROVE  IInv'
  <1>1. /\ TypeOK /\ h \in Handlers
        /\ docs \in [Events -> Outcomes \cup {"NONE"}] /\ shown \in Figures
        /\ task \in [Handlers -> TaskType]
    BY DEF IInv, TypeOK
  <1>2. {"insert", "announce", "send", "idle"} \subseteq Phases
    BY DEF Phases
  <1>3. CASE Find(h) \/ FindFails(h)
    <2>1. PICK q \in {"insert", "announce"} : Goes(h, q)
      BY <1>3 DEF Find, FindFails
    <2>2. /\ Awaiting(h, "find") /\ UNCHANGED <<docs, shown>>
          /\ UNCHANGED <<session, engine, crossed, submits, evicted, overlapped>>
          /\ UNCHANGED faults \/ Fault
      BY <1>3 DEF Find, FindFails, bounds
    <2> QED BY <1>1, <1>2, <2>1, <2>2, GoesFacts, AwaitStep
  <1>4. CASE Insert(h) \/ InsertFails(h)
    <2>1. Goes(h, "announce")
      BY <1>4 DEF Insert, InsertFails
    <2>2. /\ Awaiting(h, "insert") /\ UNCHANGED shown
          /\ UNCHANGED <<session, engine, crossed, submits, evicted, overlapped>>
          /\ UNCHANGED faults \/ Fault
      BY <1>4 DEF Insert, InsertFails, bounds
    <2>3. docs' \in [Events -> Outcomes \cup {"NONE"}]
      <3>1. task[h].outcome \in Outcomes
        BY <1>1 DEF TaskType
      <3> QED BY <1>1, <1>4, <3>1 DEF Insert, InsertFails
    <2> QED BY <1>1, <1>2, <2>1, <2>2, <2>3, GoesFacts, AwaitStep
  <1>5. CASE Announce(h)
    <2> DEFINE figures == [current |-> synced.current, entries |-> flow.entries,
                           exits |-> flow.exits]
    <2>1. figures \in Figures
      BY <1>1 DEF TypeOK, OccupancyType, Figures
    <2>2. /\ Awaiting(h, "announce") /\ UNCHANGED <<docs, shown>>
          /\ UNCHANGED <<session, engine, crossed, submits, evicted, overlapped>>
          /\ UNCHANGED faults
      BY <1>5 DEF Announce, bounds
    <2>3. /\ task' \in [Handlers -> TaskType]
          /\ task'[h].phase = "send" /\ task'[h].event = task[h].event
          /\ \A k \in Handlers \ {h} : task'[k] = task[k]
      BY <1>1, <1>2, <1>5, <2>1 DEF Announce, TaskType
    <2> QED BY <1>1, <2>2, <2>3, AwaitStep
  <1>6. CASE Send(h) \/ SendFails(h)
    <2>1. Rests(h)
      BY <1>6 DEF Send, SendFails
    <2>2. /\ Awaiting(h, "send") /\ UNCHANGED docs
          /\ UNCHANGED <<session, engine, crossed, submits, evicted, overlapped>>
          /\ UNCHANGED faults \/ Fault
      BY <1>6 DEF Send, SendFails, bounds
    <2>3. shown' \in Figures
      BY <1>1, <1>6 DEF Send, SendFails, TaskType
    <2> QED BY <1>1, <2>1, <2>2, <2>3, RestsFacts, AwaitStep
  <1> QED BY <1>3, <1>4, <1>5, <1>6

------------------------------------------------------------------------------
(* The steps of a crossing on its way into the tracker. *)

\* A handler enters the two lines: no other can be inside.
LEMMA EnterKeeps ==
    ASSUME IInv, LoopFree, NEW h \in Handlers, NEW e \in Events,
           tracker' = Recorded(tracker, e),
           UNCHANGED <<session, flow, seen, synced, peak, docs, shown, crossed, faults, evicted>>,
           submits' \in 0..MaxSubmits, overlapped' \in BOOLEAN,
           task' \in [Handlers -> TaskType],
           task'[h].phase = "counted", task'[h].event = e,
           \A k \in Handlers \ {h} : task'[k] = task[k]
    PROVE  IInv'
  <1>1. TypeOK
    BY DEF IInv
  <1>2. /\ tracker' \in OccupancyType
        /\ HeadCountWithinTotals' /\ TrackerNeverBehindFlow' /\ PeakCoversOccupancy'
        /\ FlowCountsDistinctEvents'
        /\ IF e \in Entries THEN flow'.entries < tracker'.entries
           ELSE flow'.exits < tracker'.exits
    BY CountingStep
  <1>3. TypeOK'
    BY <1>1, <1>2, TypeStep DEF TypeOK
  <1>4. WorkersHaveEvents'
    BY DEF IInv, WorkersHaveEvents
  <1>5. OneInside' /\ InsideIsAhead'
    BY <1>2 DEF LoopFree, OneInside, InsideIsAhead
  <1>6. AnalyticsFollowTracker'
    BY DEF AnalyticsFollowTracker
  <1> QED BY <1>2, <1>3, <1>4, <1>5, <1>6 DEF IInv

LEMMA SubmitKeeps ==
    ASSUME IInv, NEW h \in Clients, NEW e \in ApiEvents, Submit(h, e)
    PROVE  IInv'
  <1>1. TypeOK /\ h \in Handlers /\ e \in Events /\ "counted" \in Phases
    BY DEF IInv, Handlers, Events, Phases
  <1>2. submits' \in 0..MaxSubmits
    BY <1>1, IngestBounds DEF Submit, TypeOK
  <1>3. Takes(h, e, "counted") /\ LoopFree /\ tracker' = Recorded(tracker, e)
    BY DEF Submit
  <1> QED BY <1>1, <1>2, <1>3, TakesFacts, EnterKeeps DEF Submit

LEMMA RouteKeeps ==
    ASSUME IInv, NEW h \in Consumers, Route(h)
    PROVE  IInv'
  <1>1. TypeOK /\ h \in Handlers /\ "counted" \in Phases
    BY DEF IInv, Handlers, Phases
  <1>2. task[h].event \in Events
    BY <1>1 DEF Route, IInv, WorkersHaveEvents
  <1>3. Goes(h, "counted") /\ LoopFree /\ tracker' = Recorded(tracker, task[h].event)
    BY DEF Route
  <1>4. submits' \in 0..MaxSubmits /\ overlapped' \in BOOLEAN
    BY <1>1 DEF Route, TypeOK, bounds
  <1> QED BY <1>1, <1>2, <1>3, <1>4, GoesFacts, EnterKeeps DEF Route, bounds

\* The worker thread moves the tracker whatever the loop is doing.
LEMMA SeeCrossingKeeps ==
    ASSUME IInv, NEW h \in Consumers, SeeCrossing(h)
    PROVE  IInv'
  <1> DEFINE e == task[h].event
  <1>1. TypeOK /\ h \in Handlers /\ "route" \in Phases
    BY DEF IInv, Handlers, Phases
  <1>2. e \in Events
    BY <1>1 DEF SeeCrossing, IInv, WorkersHaveEvents
  <1>3. /\ tracker' = Recorded(tracker, e)
        /\ UNCHANGED <<session, flow, seen, synced, peak, docs, shown, crossed, submits,
                       faults, evicted, overlapped>>
    BY DEF SeeCrossing, bounds
  <1>4. /\ tracker' \in OccupancyType
        /\ HeadCountWithinTotals' /\ TrackerNeverBehindFlow' /\ PeakCoversOccupancy'
        /\ FlowCountsDistinctEvents'
        /\ tracker.entries <= tracker'.entries /\ tracker.exits <= tracker'.exits
    BY <1>1, <1>2, <1>3, CountingStep
  <1>5. /\ task' \in [Handlers -> TaskType]
        /\ \A k \in Handlers \ {h} : task'[k] = task[k]
        /\ \/ task[h].phase = "vision" /\ task'[h].phase = "route" /\ task'[h].event = e
           \/ task[h].phase = "adrift" /\ task'[h].phase = "idle"
    BY <1>1, GoesFacts, RestsFacts DEF SeeCrossing
  <1>6. TypeOK'
    BY <1>1, <1>3, <1>4, <1>5, TypeStep DEF TypeOK
  <1>7. WorkersHaveEvents'
    BY <1>1, <1>2, <1>3, <1>5 DEF IInv, WorkersHaveEvents
  <1>8. OneInside'
    BY <1>5 DEF IInv, OneInside
  <1>9. InsideIsAhead'
    <2>1. /\ tracker.entries \in Nat /\ tracker.exits \in Nat /\ flow.entries \in Nat
          /\ flow.exits \in Nat /\ tracker'.entries \in Nat /\ tracker'.exits \in Nat
      BY <1>1, <1>4 DEF TypeOK, OccupancyType
    <2> SUFFICES ASSUME NEW k \in Handlers, task'[k].phase = "counted"
                 PROVE  IF task'[k].event \in Entries THEN flow'.entries < tracker'.entries
                        ELSE flow'.exits < tracker'.exits
      BY DEF InsideIsAhead
    <2>2. task'[k] = task[k]
      BY <1>5
    <2> QED BY <1>3, <1>4, <2>1, <2>2 DEF IInv, InsideIsAhead
  <1>10. AnalyticsFollowTracker'
    <2>1. CASE task[h].phase = "vision"
      BY <1>1, <1>5, <2>1 DEF AnalyticsFollowTracker
    <2>2. CASE task[h].phase = "adrift"
      BY <1>1, <1>3, <2>2 DEF AnalyticsFollowTracker, IInv, WorkersHaveEvents
    <2> QED BY <1>5, <2>1, <2>2
  <1> QED BY <1>4, <1>6, <1>7, <1>8, <1>9, <1>10 DEF IInv

------------------------------------------------------------------------------
(* The analysis, and what happens around the handlers. *)

\* FlowRecord keeps the totals equal to the ids seen, while none is dropped.
LEMMA FlowRecordFacts ==
    ASSUME TypeOK, FlowCountsDistinctEvents, NEW e \in Events, FlowRecord(e)
    PROVE  /\ seen' \in SUBSET Events /\ flow' \in [entries : Nat, exits : Nat]
           /\ evicted' \in BOOLEAN
           /\ FlowCountsDistinctEvents'
           /\ flow'.entries <= flow.entries + (IF e \in Entries THEN 1 ELSE 0)
           /\ flow'.exits <= flow.exits + (IF e \in Entries THEN 0 ELSE 1)
  <1>1. /\ seen \in SUBSET Events /\ flow \in [entries : Nat, exits : Nat]
        /\ flow.entries \in Nat /\ flow.exits \in Nat /\ evicted \in BOOLEAN
    BY DEF TypeOK
  <1>2. CASE e \in seen
    <2>1. UNCHANGED <<seen, flow, evicted>>
      BY <1>2 DEF FlowRecord
    <2> QED BY <1>1, <2>1 DEF FlowCountsDistinctEvents
  <1>3. CASE e \notin seen
    <2>1. Remember(e) /\ flow' = Counted(e)
      BY <1>3 DEF FlowRecord
    <2>2. seen' \in SUBSET Events /\ evicted' \in BOOLEAN
      BY <1>1, <2>1 DEF Remember
    <2>3. /\ flow' \in [entries : Nat, exits : Nat]
          /\ flow'.entries = flow.entries + (IF e \in Entries THEN 1 ELSE 0)
          /\ flow'.exits = flow.exits + (IF e \in Entries THEN 0 ELSE 1)
      BY <1>1, <2>1 DEF Counted
    <2>4. FlowCountsDistinctEvents'
      <3> SUFFICES ASSUME ~evicted'
                   PROVE  /\ flow'.entries = Cardinality(seen' \cap Entries)
                          /\ flow'.exits = Cardinality(seen' \cap Exits)
        BY DEF FlowCountsDistinctEvents
      <3>1. seen' = seen \cup {e} /\ ~evicted
        BY <2>1 DEF Remember
      <3>0. flow.entries = Cardinality(seen \cap Entries) /\ flow.exits = Cardinality(seen \cap Exits)
        BY <3>1 DEF FlowCountsDistinctEvents
      <3>2. IsFiniteSet(seen \cap Entries) /\ IsFiniteSet(seen \cap Exits)
        <4>1. IsFiniteSet(Events)
          BY FiniteIds, FS_Union DEF Events
        <4> QED BY <1>1, <4>1, FS_Subset
      <3>3. CASE e \in Entries
        <4>1. seen' \cap Entries = (seen \cap Entries) \cup {e} /\ seen' \cap Exits = seen \cap Exits
          BY <3>1, <3>3 DEF Exits
        <4>2. Cardinality((seen \cap Entries) \cup {e}) = Cardinality(seen \cap Entries) + 1
          BY <1>3, <3>2, FS_AddElement
        <4>3. flow'.entries = flow.entries + 1 /\ flow'.exits = flow.exits
          BY <1>1, <2>3, <3>3
        <4> QED BY <3>0, <4>1, <4>2, <4>3
      <3>4. CASE e \notin Entries
        <4>1. seen' \cap Exits = (seen \cap Exits) \cup {e} /\ seen' \cap Entries = seen \cap Entries
          BY <3>1, <3>4 DEF Exits
        <4>2. Cardinality((seen \cap Exits) \cup {e}) = Cardinality(seen \cap Exits) + 1
          BY <1>3, <3>2, FS_AddElement
        <4>3. flow'.entries = flow.entries /\ flow'.exits = flow.exits + 1
          BY <1>1, <2>3, <3>4
        <4> QED BY <3>0, <4>1, <4>2, <4>3
      <3> QED BY <3>3, <3>4
    <2> QED BY <1>1, <2>2, <2>3, <2>4
  <1> QED BY <1>2, <1>3

LEMMA AnalyseKeeps ==
    ASSUME IInv, NEW h \in Handlers, Analyse(h)
    PROVE  IInv'
  <1> DEFINE e == task[h].event
  <1>1. TypeOK /\ "find" \in Phases /\ e \in Events /\ task[h].phase = "counted"
    BY DEF IInv, Phases, Analyse, WorkersHaveEvents
  <1>2. /\ FlowRecord(e) /\ synced' = tracker /\ peak' = Higher(peak, tracker.current)
        /\ UNCHANGED <<session, tracker, docs, shown, crossed, submits, faults, overlapped>>
    BY DEF Analyse, Synchronise
  <1>3. /\ tracker \in OccupancyType /\ tracker.entries \in Nat /\ tracker.exits \in Nat
        /\ tracker.current \in Nat /\ peak \in Nat
        /\ flow.entries \in Nat /\ flow.exits \in Nat
        /\ flow' \in [entries : Nat, exits : Nat]
        /\ flow'.entries \in Nat /\ flow'.exits \in Nat
    BY <1>1, <1>2, FlowRecordFacts DEF TypeOK, OccupancyType, IInv
  <1>4. /\ task' \in [Handlers -> TaskType]
        /\ task'[h].phase = "find" /\ task'[h].event = e
        /\ \A k \in Handlers \ {h} : task'[k] = task[k]
    BY <1>1 DEF Analyse, TypeOK, TaskType, Outcomes
  <1>5. peak' \in Nat /\ peak <= peak' /\ tracker.current <= peak' /\ peak' <= tracker.entries
    BY <1>2, <1>3 DEF Higher, IInv, PeakCoversOccupancy, HeadCountWithinTotals, WithinBounds
  <1>6. TypeOK'
    BY <1>1, <1>2, <1>3, <1>4, <1>5, FlowRecordFacts, TypeStep DEF TypeOK, IInv
  <1>7. WorkersHaveEvents'
    BY <1>1, <1>2, <1>4 DEF IInv, WorkersHaveEvents
  <1>8. \A k \in Handlers : task'[k].phase # "counted"
    BY <1>1, <1>4 DEF IInv, OneInside
  <1>9. OneInside' /\ InsideIsAhead'
    BY <1>8 DEF OneInside, InsideIsAhead
  <1>10. HeadCountWithinTotals' /\ PeakCoversOccupancy'
    BY <1>2, <1>5 DEF IInv, HeadCountWithinTotals, PeakCoversOccupancy
  <1>11. TrackerNeverBehindFlow'
    BY <1>1, <1>2, <1>3, FlowRecordFacts DEF IInv, TrackerNeverBehindFlow, InsideIsAhead
  <1>12. FlowCountsDistinctEvents' /\ AnalyticsFollowTracker'
    BY <1>1, <1>2, FlowRecordFacts DEF IInv, AnalyticsFollowTracker
  <1> QED BY <1>6, <1>7, <1>9, <1>10, <1>11, <1>12 DEF IInv

\* A frame picked, a frame with nothing in it, a consumer cancelled.
LEMMA FrameKeeps ==
    ASSUME IInv, NEW h \in Consumers,
           \/ \E e \in CameraEvents : PickFrame(h, e)
           \/ SeeNothing(h)
           \/ Cancel(h)
    PROVE  IInv'
  <1>1. TypeOK /\ h \in Handlers /\ {"vision", "adrift"} \subseteq Phases
    BY DEF IInv, Handlers, Phases
  <1>2. /\ UNCHANGED <<session, engine, evicted>> /\ docs' = docs /\ shown' = shown
        /\ submits' = submits /\ crossed' \in SUBSET CameraEvents
    BY <1>1 DEF PickFrame, SeeNothing, Cancel, TypeOK, bounds
  <1>3. /\ faults' \in 0..MaxFaults /\ faults' \in Nat /\ faults' >= faults
        /\ Cancel(h) => faults' > 0
    <2>1. UNCHANGED faults \/ Fault
      BY DEF PickFrame, SeeNothing, Cancel, bounds
    <2>2. Cancel(h) => Fault
      BY DEF Cancel
    <2> QED BY <1>1, <2>1, <2>2, FaultFacts, NoFaultFacts
  <1>4. /\ task' \in [Handlers -> TaskType]
        /\ \A k \in Handlers \ {h} : task'[k] = task[k]
        /\ overlapped' \in BOOLEAN
        /\ task'[h].phase \in {"idle", "vision", "adrift"}
        /\ task'[h].phase # "idle" => task'[h].event \in Events
        /\ task'[h].phase = "adrift" => faults' > 0
        /\ task[h].phase \in {"route", "counted"} => faults' > 0
    <2>1. ASSUME NEW e \in CameraEvents, PickFrame(h, e) PROVE <1>4!:
      BY <1>1, <2>1, TakesFacts DEF PickFrame, Events, Resting
    <2>2. CASE SeeNothing(h)
      BY <1>1, <2>2, RestsFacts DEF SeeNothing, bounds, TypeOK
    <2>3. CASE Cancel(h) /\ task[h].phase = "vision"
      <3>1. Goes(h, "adrift") /\ task[h].event \in Events
        BY <1>1, <2>3 DEF Cancel, IInv, WorkersHaveEvents
      <3> QED BY <1>1, <1>3, <2>3, <3>1, GoesFacts DEF Cancel, TypeOK
    <2>4. CASE Cancel(h) /\ task[h].phase # "vision"
      <3>1. Rests(h)
        BY <2>4 DEF Cancel
      <3> QED BY <1>1, <1>3, <2>4, <3>1, RestsFacts DEF Cancel, TypeOK
    <2> QED BY <2>1, <2>2, <2>3, <2>4
  <1>5. TypeOK'
    BY <1>1, <1>2, <1>3, <1>4, TypeStep DEF TypeOK, engine
  <1>6. /\ WorkersHaveEvents' /\ OneInside' /\ InsideIsAhead'
        /\ HeadCountWithinTotals' /\ TrackerNeverBehindFlow' /\ PeakCoversOccupancy'
        /\ FlowCountsDistinctEvents' /\ AnalyticsFollowTracker'
    BY <1>1, <1>2, <1>3, <1>4, QuietStep
  <1> QED BY <1>5, <1>6 DEF IInv

LEMMA MoveSessionKeeps == ASSUME IInv, MoveSession PROVE IInv'
  <1>1. TypeOK'
    BY DEF IInv, TypeOK, MoveSession, engine, bounds
  <1>2. WorkersHaveEvents' /\ OneInside' /\ InsideIsAhead'
    BY DEF IInv, WorkersHaveEvents, OneInside, InsideIsAhead, MoveSession, engine, bounds
  <1>3. HeadCountWithinTotals' /\ TrackerNeverBehindFlow' /\ PeakCoversOccupancy'
    BY DEF IInv, HeadCountWithinTotals, TrackerNeverBehindFlow, PeakCoversOccupancy,
           MoveSession, engine
  <1>4. FlowCountsDistinctEvents' /\ AnalyticsFollowTracker'
    BY DEF IInv, FlowCountsDistinctEvents, AnalyticsFollowTracker, MoveSession, engine, bounds
  <1> QED BY <1>1, <1>2, <1>3, <1>4 DEF IInv

LEMMA RestartKeeps == ASSUME IInv, Restart PROVE IInv'
  <1>1. TypeOK /\ faults' \in 0..MaxFaults /\ faults' > 0
    BY FaultFacts DEF IInv, Restart
  <1>2. task' \in [Handlers -> TaskType] /\ \A h \in Handlers : task'[h].phase = "idle"
    BY RestFacts DEF Restart
  <1>3. /\ session' \in {"NONE", "ACTIVE", "IDLE"} /\ seen' \in SUBSET Events
        /\ flow' \in [entries : Nat, exits : Nat] /\ peak' \in Nat
        /\ \A h \in Clients : task'[h].phase \notin {"vision", "adrift", "route"}
    BY <1>2 DEF Restart, Handlers
  <1>4. TypeOK'
    BY <1>1, <1>2, <1>3, NoOccupancyFacts DEF Restart, TypeOK
  <1>5. WorkersHaveEvents' /\ OneInside' /\ InsideIsAhead'
    BY <1>2 DEF WorkersHaveEvents, OneInside, InsideIsAhead
  <1>6. HeadCountWithinTotals' /\ TrackerNeverBehindFlow' /\ PeakCoversOccupancy'
    BY NoOccupancyFacts DEF Restart, HeadCountWithinTotals, TrackerNeverBehindFlow,
                            PeakCoversOccupancy, NoOccupancy
  <1>7. FlowCountsDistinctEvents'
    <2>1. seen' \cap Entries = {} /\ seen' \cap Exits = {}
      BY DEF Restart
    <2> QED BY <2>1, FS_EmptySet DEF Restart, FlowCountsDistinctEvents
  <1>8. AnalyticsFollowTracker'
    BY <1>1 DEF AnalyticsFollowTracker
  <1> QED BY <1>4, <1>5, <1>6, <1>7, <1>8 DEF IInv

LEMMA StutterKeeps == ASSUME IInv, UNCHANGED vars PROVE IInv'
  <1>1. TypeOK'
    BY DEF IInv, TypeOK, vars
  <1>2. WorkersHaveEvents' /\ OneInside' /\ InsideIsAhead'
    BY DEF IInv, WorkersHaveEvents, OneInside, InsideIsAhead, vars
  <1>3. HeadCountWithinTotals' /\ TrackerNeverBehindFlow' /\ PeakCoversOccupancy'
    BY DEF IInv, HeadCountWithinTotals, TrackerNeverBehindFlow, PeakCoversOccupancy, vars
  <1>4. FlowCountsDistinctEvents' /\ AnalyticsFollowTracker'
    BY DEF IInv, FlowCountsDistinctEvents, AnalyticsFollowTracker, vars
  <1> QED BY <1>1, <1>2, <1>3, <1>4 DEF IInv

LEMMA StepInvariant == IInv /\ [Next]_vars => IInv'
  <1> SUFFICES ASSUME IInv, [Next]_vars PROVE IInv'
    OBVIOUS
  <1>1. ASSUME NEW h \in Clients, NEW e \in ApiEvents, Submit(h, e) PROVE IInv'
    BY <1>1, SubmitKeeps
  <1>2. ASSUME NEW h \in Consumers, NEW e \in CameraEvents, PickFrame(h, e) PROVE IInv'
    BY <1>2, FrameKeeps
  <1>3. ASSUME NEW h \in Consumers, ProceedFrame(h) \/ Cancel(h) PROVE IInv'
    BY <1>3, SeeCrossingKeeps, FrameKeeps, RouteKeeps DEF ProceedFrame
  <1>4. ASSUME NEW h \in Handlers, Proceed(h) PROVE IInv'
    BY <1>4, AnalyseKeeps, ProceedKeeps DEF Proceed
  <1>5. CASE MoveSession
    BY <1>5, MoveSessionKeeps
  <1>6. CASE Restart
    BY <1>6, RestartKeeps
  <1>7. CASE UNCHANGED vars
    BY <1>7, StutterKeeps
  <1> QED BY <1>1, <1>2, <1>3, <1>4, <1>5, <1>6, <1>7 DEF Next

------------------------------------------------------------------------------
(* The theorems. *)

\* The inductive invariant holds in every state of every behaviour: EventService,
\* the camera consumers and their threads, for any number of each.
THEOREM Invariance == Spec => []IInv
  <1> QED BY InitInvariant, StepInvariant, PTL DEF Spec

\* Every value of the ingestion keeps its type; the tracker's counts are naturals.
THEOREM TypeCorrect == Spec => []TypeOK
  <1>1. IInv => TypeOK
    BY DEF IInv
  <1> QED BY Invariance, <1>1, PTL

\* OccupancyTracker: the head count stays between max(0, entries - exits) and the
\* entries in the tracker and in the copy that OccupancyAnalytics holds.
THEOREM HeadCount == Spec => []HeadCountWithinTotals
  <1>1. IInv => HeadCountWithinTotals
    BY DEF IInv
  <1> QED BY Invariance, <1>1, PTL

\* FlowAnalytics never counts a crossing that OccupancyTracker has missed, however
\* worker threads and handlers interleave.
THEOREM TrackerAhead == Spec => []TrackerNeverBehindFlow
  <1>1. IInv => TrackerNeverBehindFlow
    BY DEF IInv
  <1> QED BY Invariance, <1>1, PTL

\* The peak of PeakTracker covers the head count the analytics hold.
THEOREM PeakCovers == Spec => []PeakCoversOccupancy
  <1>1. IInv => PeakCoversOccupancy
    BY DEF IInv
  <1> QED BY Invariance, <1>1, PTL

\* Until FlowAnalytics drops ids, its totals are the distinct events seen.
THEOREM FlowCounts == Spec => []FlowCountsDistinctEvents
  <1>1. IInv => FlowCountsDistinctEvents
    BY DEF IInv
  <1> QED BY Invariance, <1>1, PTL

\* The analytics hold the tracker's state but for crossings that are on their way.
THEOREM AnalyticsFollow == Spec => []AnalyticsFollowTracker
  <1>1. IInv => AnalyticsFollowTracker
    BY DEF IInv
  <1> QED BY Invariance, <1>1, PTL

\* The documents of EventRepository are written once.
THEOREM DocsImmutable == Spec => EventDocsAreImmutable
  <1>1. IInv /\ [Next]_vars =>
            [\A e \in Events : docs[e] # "NONE" => docs'[e] = docs[e]]_vars
    <2> SUFFICES ASSUME IInv, Next,
                        NEW e \in Events, docs[e] # "NONE"
                 PROVE  docs'[e] = docs[e]
      OBVIOUS
    <2>1. docs \in [Events -> Outcomes \cup {"NONE"}]
      BY DEF IInv, TypeOK
    <2>2. CASE \E h \in Handlers : Insert(h)
      BY <2>1, <2>2 DEF Insert
    <2>3. CASE ~\E h \in Handlers : Insert(h)
      <3>1. docs' = docs
        BY <2>3 DEF Next, Submit, PickFrame, ProceedFrame, SeeCrossing, SeeNothing, Route,
                    Cancel, Proceed, Analyse, Find, FindFails, InsertFails, Announce, Send,
                    SendFails, MoveSession, Restart
      <3> QED BY <3>1
    <2> QED BY <2>2, <2>3
  <1> QED BY Invariance, <1>1, PTL DEF Spec, EventDocsAreImmutable

------------------------------------------------------------------------------
(* Requests that come one at a time. *)

Fitting(e) == docs[e] = IF e \in seen THEN "processed" ELSE "NONE"
Held == [current |-> synced.current, entries |-> flow.entries, exits |-> flow.exits]
Shows == seen # {} => shown = Held

\* What the one handler at work has done: nothing that shows before the analysis; its
\* event is seen and, before the insert, the only one whose document may be missing;
\* the figures it is about to send are those of this moment.
Stage(h) ==
    LET e == task[h].event IN
    CASE task[h].phase \in {"vision", "route", "counted"} -> (\A o \in Events : Fitting(o)) /\ Shows
      [] task[h].phase = "find" ->
            /\ e \in seen /\ \A o \in Events \ {e} : Fitting(o)
            /\ \/ docs[e] = "NONE" /\ task[h].outcome = "processed"
               \/ docs[e] = "processed"
      [] task[h].phase = "insert" ->
            /\ e \in seen /\ \A o \in Events \ {e} : Fitting(o)
            /\ docs[e] \in {"NONE", "processed"} /\ task[h].outcome = "processed"
      [] task[h].phase = "announce" -> \A o \in Events : Fitting(o)
      [] task[h].phase = "send" -> (\A o \in Events : Fitting(o)) /\ task[h].figures = Held
      [] OTHER -> FALSE

SerialInv ==
    Serial =>
        /\ \A h, k \in Handlers : ~Resting(h) /\ ~Resting(k) => h = k
        /\ AllAtRest => (\A e \in Events : Fitting(e)) /\ Shows
        /\ \A h \in Handlers : ~Resting(h) => Stage(h)

LEMMA SerialInit == Init => SerialInv
  BY DEF Init, SerialInv, Resting, AtRest, Fitting, Shows

LEMMA SerialBefore ==
    ASSUME IInv, [Next]_vars, Serial'
    PROVE  Serial /\ faults' = faults
  <1>1. faults \in Nat
    BY IngestBounds DEF IInv, TypeOK
  <1>2. Fault => faults' > 0
    BY <1>1 DEF Fault
  <1>3. ~Fault
    BY <1>2 DEF Serial
  <1>4. ASSUME NEW e, FlowRecord(e) PROVE evicted' = evicted \/ evicted'
    BY <1>4 DEF FlowRecord, Remember
  <1>5. faults' = faults
    BY <1>3 DEF Next, Submit, PickFrame, ProceedFrame, SeeCrossing, SeeNothing, Route,
       Cancel, Proceed, Analyse, Find, FindFails, Insert, InsertFails, Announce, Send,
       SendFails, MoveSession, Restart, vars, bounds
  <1>6. overlapped => overlapped'
    BY <1>3 DEF Next, Submit, PickFrame, Takes, ProceedFrame, SeeCrossing, SeeNothing, Route,
       Cancel, Proceed, Analyse, Find, FindFails, Insert, InsertFails, Announce, Send,
       SendFails, MoveSession, Restart, vars, bounds
  <1>7. evicted' = evicted \/ evicted'
    BY <1>3, <1>4 DEF Next, Submit, PickFrame, ProceedFrame, SeeCrossing, SeeNothing, Route,
       Cancel, Proceed, Analyse, Find, FindFails, Insert, InsertFails, Announce, Send,
       SendFails, MoveSession, Restart, vars, bounds
  <1> QED
    BY <1>5, <1>6, <1>7 DEF Serial

\* The steps of a handler that nobody else is at work with.
LEMMA SerialStep ==
    ASSUME IInv, IInv', SerialInv, Serial, Serial', NEW h \in Handlers,
           \A k \in Handlers \ {h} : task'[k] = task[k] /\ Resting(k),
           IF Resting(h)' THEN (\A e \in Events : Fitting(e)') /\ Shows' ELSE Stage(h)'
    PROVE  SerialInv'
  <1>1. \A k \in Handlers \ {h} : Resting(k)'
    BY DEF Resting
  <1>2. AllAtRest' => Resting(h)'
    BY DEF AllAtRest
  <1> QED
    BY <1>1, <1>2 DEF SerialInv
\* Every step keeps it.
LEMMA SerialNext == IInv /\ IInv' /\ SerialInv /\ [Next]_vars => SerialInv'
  <1> SUFFICES ASSUME IInv, IInv', SerialInv, [Next]_vars, Serial' PROVE SerialInv'
    BY DEF SerialInv
  <1>1. Serial /\ faults' = faults /\ ~evicted /\ ~evicted' /\ ~overlapped' /\ faults = 0
    BY SerialBefore DEF Serial
  <1>2. ~Fault /\ ~Restart /\ \A h \in Handlers : ~Cancel(h) /\ ~FindFails(h) /\ ~InsertFails(h) /\ ~SendFails(h)
    BY <1>1 DEF Fault, Restart, Cancel, FindFails, InsertFails, SendFails
  <1>3. /\ TypeOK /\ task \in [Handlers -> TaskType] /\ Handlers = Clients \cup Consumers
    BY DEF IInv, TypeOK, Handlers
  <1>4. ASSUME NEW h \in Handlers, ~Resting(h)
        PROVE  /\ Stage(h) /\ task[h].event \in Events /\ task[h].phase # "adrift"
               /\ \A k \in Handlers \ {h} : Resting(k)
    BY <1>1, <1>4 DEF SerialInv, IInv, WorkersHaveEvents, Resting
  <1>5. ASSUME NEW h \in Handlers, Resting(h), \A k \in Handlers \ {h} : Resting(k)
        PROVE  (\A e \in Events : Fitting(e)) /\ Shows
    BY <1>1, <1>5 DEF SerialInv, AllAtRest
  <1>6. ASSUME UNCHANGED <<docs, seen, shown, synced, flow>>
        PROVE  /\ \A e \in Events : Fitting(e)' <=> Fitting(e)
               /\ Shows' <=> Shows
               /\ Held' = Held
    BY <1>6 DEF Fitting, Shows, Held
  <1>7. ASSUME NEW h \in Handlers, NEW e \in Events, NEW p \in {"counted", "vision"},
               Resting(h), Takes(h, e, p), UNCHANGED <<docs, seen, shown, synced, flow>>
        PROVE  SerialInv'
    <2>1. \A k \in Handlers \ {h} : Resting(k)
      BY <1>1, <1>7 DEF Takes
    <2>2. (\A o \in Events : Fitting(o)') /\ Shows'
      BY <1>5, <1>6, <1>7, <2>1
    <2>3. task'[h].phase = p /\ task'[h].event = e /\ \A k \in Handlers \ {h} : task'[k] = task[k]
      BY <1>3, <1>7, TakesFacts DEF Phases
    <2>4. Stage(h)' /\ ~Resting(h)'
      BY <1>7, <2>2, <2>3 DEF Stage, Resting
    <2> QED
      BY <1>1, <2>1, <2>3, <2>4, SerialStep
  <1>8. ASSUME NEW h \in Handlers, ~Resting(h), \A k \in Handlers \ {h} : task'[k] = task[k],
               IF Resting(h)' THEN (\A e \in Events : Fitting(e)') /\ Shows' ELSE Stage(h)'
        PROVE  SerialInv'
    BY <1>1, <1>4, <1>8, SerialStep
  <1>9. ASSUME NEW h \in Clients, NEW e \in ApiEvents, Submit(h, e) PROVE SerialInv'
    BY <1>3, <1>7, <1>9 DEF Submit, Events
  <1>10. ASSUME NEW h \in Consumers, NEW e \in CameraEvents, PickFrame(h, e) PROVE SerialInv'
    BY <1>3, <1>7, <1>10 DEF PickFrame, Events, engine
  <1>11. ASSUME NEW h \in Consumers, ProceedFrame(h) PROVE SerialInv'
    <2>1. /\ h \in Handlers /\ ~Resting(h) /\ UNCHANGED <<docs, seen, shown, synced, flow>>
          /\ task[h].phase \in {"vision", "adrift", "route"}
      BY <1>3, <1>11 DEF ProceedFrame, SeeCrossing, SeeNothing, Route, Resting, engine
    <2>2. Goes(h, "route") \/ Goes(h, "counted") \/ Rests(h)
      BY <1>11 DEF ProceedFrame, SeeCrossing, SeeNothing, Route
    <2>3. /\ \A k \in Handlers \ {h} : task'[k] = task[k]
          /\ task'[h].phase \in {"route", "counted", "idle"}
      BY <1>3, <2>1, <2>2, GoesFacts, RestsFacts DEF Phases
    <2>4. (\A e \in Events : Fitting(e)) /\ Shows
      BY <1>4, <2>1 DEF Stage
    <2>5. (\A e \in Events : Fitting(e)') /\ Shows'
      BY <1>6, <2>1, <2>4
    <2>6. IF Resting(h)' THEN (\A e \in Events : Fitting(e)') /\ Shows' ELSE Stage(h)'
      BY <2>3, <2>5 DEF Stage, Resting
    <2> QED
      BY <1>8, <2>1, <2>3, <2>6
  <1>12. ASSUME NEW h \in Handlers, Analyse(h) PROVE SerialInv'
    <2> DEFINE e == task[h].event
    <2>1. task[h].phase = "counted" /\ ~Resting(h) /\ docs' = docs
      BY <1>12 DEF Analyse, Resting
    <2>2. (\A o \in Events : Fitting(o)) /\ e \in Events
      BY <1>4, <2>1 DEF Stage
    <2>3. seen' = seen \cup {e}
      BY <1>1, <1>12 DEF Analyse, FlowRecord, Remember
    <2>4. /\ \A k \in Handlers \ {h} : task'[k] = task[k]
          /\ task'[h].phase = "find" /\ task'[h].event = e
          /\ task'[h].outcome = IF e \in seen THEN "ignored" ELSE "processed"
      BY <1>3, <1>12 DEF Analyse, TaskType
    <2>5. Stage(h)' /\ ~Resting(h)'
      <3>1. \A o \in Events \ {e} : Fitting(o)'
        BY <2>1, <2>2, <2>3 DEF Fitting
      <3>2. (docs'[e] = "NONE" /\ task'[h].outcome = "processed") \/ docs'[e] = "processed"
        BY <2>1, <2>2, <2>4 DEF Fitting
      <3> QED
        BY <2>3, <2>4, <3>1, <3>2 DEF Stage, Resting
    <2> QED
      BY <1>8, <2>1, <2>4, <2>5
  <1>13. ASSUME NEW h \in Handlers, Find(h) PROVE SerialInv'
    <2> DEFINE e == task[h].event
    <2>1. /\ task[h].phase = "find" /\ ~Resting(h) /\ UNCHANGED <<docs, seen, shown, synced, flow>>
          /\ Goes(h, IF docs[e] # "NONE" THEN "announce" ELSE "insert")
      BY <1>13 DEF Find, Awaiting, Resting, engine
    <2>2. /\ e \in seen /\ (\A o \in Events \ {e} : Fitting(o)) /\ e \in Events
          /\ (docs[e] = "NONE" /\ task[h].outcome = "processed") \/ docs[e] = "processed"
      BY <1>4, <2>1 DEF Stage
    <2>3. /\ \A k \in Handlers \ {h} : task'[k] = task[k]
          /\ task'[h].phase = IF docs[e] # "NONE" THEN "announce" ELSE "insert"
          /\ task'[h].event = e /\ task'[h].outcome = task[h].outcome
      BY <1>3, <2>1 DEF Goes, TaskType
    <2>4. \A o \in Events \ {e} : Fitting(o)'
      BY <1>6, <2>1, <2>2
    <2>5. docs[e] = "processed" => \A o \in Events : Fitting(o)'
      BY <2>1, <2>2 DEF Fitting
    <2>6. Stage(h)' /\ ~Resting(h)'
      BY <2>1, <2>2, <2>3, <2>4, <2>5 DEF Stage, Resting
    <2> QED
      BY <1>8, <2>1, <2>3, <2>6
  <1>14. ASSUME NEW h \in Handlers, Insert(h) PROVE SerialInv'
    <2> DEFINE e == task[h].event
    <2>1. /\ task[h].phase = "insert" /\ ~Resting(h) /\ seen' = seen
          /\ docs' = [docs EXCEPT ![e] = IF @ = "NONE" THEN task[h].outcome ELSE @]
          /\ Goes(h, "announce")
      BY <1>14 DEF Insert, Awaiting, Resting, engine
    <2>2. /\ e \in seen /\ (\A o \in Events \ {e} : Fitting(o)) /\ e \in Events
          /\ docs[e] \in {"NONE", "processed"} /\ task[h].outcome = "processed"
      BY <1>4, <2>1 DEF Stage
    <2>3. task'[h].phase = "announce" /\ \A k \in Handlers \ {h} : task'[k] = task[k]
      BY <1>3, <2>1 DEF Goes, TaskType
    <2>4. \A o \in Events : Fitting(o)'
      BY <1>3, <2>1, <2>2 DEF Fitting, TypeOK
    <2>5. Stage(h)' /\ ~Resting(h)'
      BY <2>3, <2>4 DEF Stage, Resting
    <2> QED
      BY <1>8, <2>1, <2>3, <2>5
  <1>15. ASSUME NEW h \in Handlers, Announce(h) PROVE SerialInv'
    <2>1. /\ task[h].phase = "announce" /\ ~Resting(h) /\ UNCHANGED <<docs, seen, shown, synced, flow>>
          /\ task' = [task EXCEPT ![h].phase = "send", ![h].figures = Held]
      BY <1>15 DEF Announce, Awaiting, Resting, engine, Held
    <2>2. \A o \in Events : Fitting(o)
      BY <1>4, <2>1 DEF Stage
    <2>3. /\ \A k \in Handlers \ {h} : task'[k] = task[k]
          /\ task'[h].phase = "send" /\ task'[h].figures = Held
      BY <1>3, <2>1 DEF TaskType
    <2>4. (\A o \in Events : Fitting(o)') /\ Held' = Held
      BY <1>6, <2>1, <2>2
    <2>5. Stage(h)' /\ ~Resting(h)'
      BY <2>3, <2>4 DEF Stage, Resting
    <2> QED
      BY <1>8, <2>1, <2>3, <2>5
  <1>16. ASSUME NEW h \in Handlers, Send(h) PROVE SerialInv'
    <2>1. /\ task[h].phase = "send" /\ ~Resting(h) /\ UNCHANGED <<docs, seen, synced, flow>>
          /\ shown' = task[h].figures /\ Rests(h)
      BY <1>16 DEF Send, Awaiting, Resting, engine
    <2>2. (\A o \in Events : Fitting(o)) /\ task[h].figures = Held
      BY <1>4, <2>1 DEF Stage
    <2>3. task'[h].phase = "idle" /\ \A k \in Handlers \ {h} : task'[k] = task[k]
      BY <1>3, <2>1, RestsFacts
    <2>4. (\A o \in Events : Fitting(o)') /\ Shows' /\ Resting(h)'
      BY <2>1, <2>2, <2>3 DEF Fitting, Shows, Held, Resting
    <2> QED
      BY <1>8, <2>1, <2>3, <2>4
  <1>17. CASE MoveSession \/ UNCHANGED vars
    <2>1. UNCHANGED <<task, docs, seen, shown, synced, flow>>
      BY <1>17 DEF MoveSession, vars, engine
    <2> QED
      BY <1>1, <2>1 DEF SerialInv, AllAtRest, Resting, Stage, Fitting, Shows, Held
  <1> QED
    BY <1>2, <1>3, <1>9, <1>10, <1>11, <1>12, <1>13, <1>14, <1>15, <1>16, <1>17 DEF Next, Proceed

\* Requests that come one at a time and meet no failure leave every seen event stored as
\* processed and the dashboards with the figures of the engines.
THEOREM SerialIngest == Spec => []SerialIngestIsConsistent
  <1>1. SerialInv => SerialIngestIsConsistent
    BY DEF SerialInv, SerialIngestIsConsistent, Fitting, Shows, Held
  <1> QED BY <1>1, Invariance, SerialInit, SerialNext, PTL DEF Spec
------------------------------------------------------------------------------
(* The sum over the gates, and the inductions it takes. *)

\* Induction over the numbers: what has no least counterexample has none.
LEMMA NumbersInduct ==
    ASSUME NEW F \in SUBSET Nat, 0 \in F, \A n \in F : n + 1 \in F
    PROVE  F = Nat
  <1>1. PICK R : IsWellFoundedOn(R, Nat) /\ R = OpToRel(<, Nat)
    BY NatLessThanWellFounded
  <1>2. SUFFICES ASSUME Nat \ F # {} PROVE FALSE
    OBVIOUS
  <1>3. PICK n \in Nat \ F : \A m \in Nat \ F : ~(<<m, n>> \in R)
    BY <1>1, <1>2, WFMin
  <1>4. n # 0 /\ n - 1 \in Nat /\ <<n - 1, n>> \in R
    BY <1>1, <1>3 DEF OpToRel
  <1>5. n - 1 \in F
    BY <1>3, <1>4
  <1>6. (n - 1) + 1 = n
    BY <1>3
  <1> QED BY <1>3, <1>5, <1>6

\* Induction over the subsets of a finite set.
LEMMA SubsetsInduct ==
    ASSUME NEW S, IsFiniteSet(S), NEW F \in SUBSET SUBSET S, {} \in F,
           \A T \in SUBSET S : T # {} /\ (\A x \in T : T \ {x} \in F) => T \in F
    PROVE  F = SUBSET S
  <1> DEFINE N == {n \in Nat : \A T \in SUBSET S : Cardinality(T) = n => T \in F}
  <1>1. \A T \in SUBSET S : IsFiniteSet(T) /\ Cardinality(T) \in Nat
    BY FS_Subset, FS_CardinalityType
  <1>2. 0 \in N
    BY <1>1, FS_EmptySet
  <1>3. ASSUME NEW n \in N PROVE n + 1 \in N
    <2>0. n \in Nat /\ n + 1 # 0
      BY <1>3
    <2>1. ASSUME NEW T \in SUBSET S, Cardinality(T) = n + 1 PROVE T \in F
      <3>1. T # {}
        BY <2>0, <2>1, FS_EmptySet
      <3>2. ASSUME NEW x \in T PROVE T \ {x} \in F
        <4>1. IsFiniteSet(T) /\ T \ {x} \in SUBSET S
          BY <1>1
        <4>2. Cardinality(T \ {x}) = Cardinality(T) - 1
          BY <4>1, FS_RemoveElement
        <4>3. Cardinality(T \ {x}) = n
          BY <2>0, <2>1, <4>2
        <4> QED BY <1>3, <4>1, <4>3
      <3> QED BY <3>1, <3>2
    <2> QED BY <2>0, <2>1
  <1>4. N \in SUBSET Nat
    OBVIOUS
  <1> HIDE DEF N
  <1>5. N = Nat
    BY <1>2, <1>3, <1>4, NumbersInduct
  <1> QED BY <1>1, <1>5 DEF N

------------------------------------------------------------------------------
(* Sums over a function. *)

Pick(s) == CHOOSE x \in s : TRUE

\* The recursion by which FoldFunction adds, one element after the other, on the sets D.
Adding(f, D, it) == [s \in D |-> IF s = {} THEN 0 ELSE f[Pick(s)] + it[s \ {Pick(s)}]]

Sums(f) == CHOOSE it : it = Adding(f, SUBSET DOMAIN f, it)

\* The subsets of S with n elements at most.
UpTo(S, n) == {s \in SUBSET S : Cardinality(s) <= n}

\* The sum of a function is what the recursion gives for its whole domain.
Sum(f) == FoldFunction(+, 0, f)

LEMMA SumUnfolds == ASSUME NEW f PROVE Sum(f) = Sums(f)[DOMAIN f]
  BY DEF Sum, FoldFunction, FoldFunctionOnSet, MapThenFoldSet, Adding, Pick, Sums

\* There is such a function: sets of n elements are summed up by means of smaller ones.
LEMMA SumsExist ==
    ASSUME NEW S, IsFiniteSet(S), NEW f \in [S -> Nat]
    PROVE  Sums(f) = Adding(f, SUBSET S, Sums(f))
  <1> DEFINE N == {n \in Nat : \E it : it = Adding(f, UpTo(S, n), it)}
  <1>1. \A s \in SUBSET S : /\ IsFiniteSet(s) /\ Cardinality(s) \in Nat
                            /\ Cardinality(s) <= Cardinality(S)
                            /\ Cardinality(s) = 0 => s = {}
    BY FS_Subset, FS_CardinalityType, FS_EmptySet
  <1>2. \A s \in SUBSET S : s # {} => /\ Pick(s) \in s /\ s \ {Pick(s)} \in SUBSET S
                                      /\ Cardinality(s \ {Pick(s)}) = Cardinality(s) - 1
    BY <1>1, FS_RemoveElement DEF Pick
  <1>3. 0 \in N
    <2> DEFINE it == [s \in UpTo(S, 0) |-> 0]
    <2>1. \A s \in UpTo(S, 0) : s = {}
      BY <1>1 DEF UpTo
    <2>2. it = Adding(f, UpTo(S, 0), it)
      BY <2>1 DEF Adding
    <2> QED BY <2>2
  <1>4. ASSUME NEW n \in N PROVE n + 1 \in N
    <2>1. PICK it : it = Adding(f, UpTo(S, n), it)
      OBVIOUS
    <2>2. n \in Nat
      OBVIOUS
    <2> DEFINE new == Adding(f, UpTo(S, n + 1), it)
    <2>3. \A s \in UpTo(S, n) : s \in UpTo(S, n + 1)
      BY <1>1, <2>2 DEF UpTo
    <2>4. \A s \in UpTo(S, n) : new[s] = it[s]
      BY <2>1, <2>3 DEF Adding
    <2>5. \A s \in UpTo(S, n + 1) : s # {} => s \ {Pick(s)} \in UpTo(S, n)
      BY <1>1, <1>2, <2>2 DEF UpTo
    <2>6. new = Adding(f, UpTo(S, n + 1), new)
      BY <2>4, <2>5 DEF Adding
    <2> QED BY <2>2, <2>6
  <1>5. N \in SUBSET Nat
    OBVIOUS
  <1>6. N = Nat
    <2> HIDE DEF N
    <2> QED BY <1>3, <1>4, <1>5, NumbersInduct
  <1>7. PICK it : it = Adding(f, UpTo(S, Cardinality(S)), it)
    BY <1>1, <1>6, FS_CardinalityType
  <1>8. UpTo(S, Cardinality(S)) = SUBSET S
    BY <1>1 DEF UpTo
  <1>9. it = Adding(f, SUBSET DOMAIN f, it)
    BY <1>7, <1>8
  <1> QED BY <1>9 DEF Sums

\* Each set is summed up by one of its elements and the rest.
LEMMA SumsFacts ==
    ASSUME NEW S, IsFiniteSet(S), NEW f \in [S -> Nat]
    PROVE  /\ Sums(f)[{}] = 0
           /\ \A s \in SUBSET S : s # {} => Pick(s) \in s /\ Sums(f)[s] = f[Pick(s)] + Sums(f)[s \ {Pick(s)}]
           /\ \A s \in SUBSET S : Sums(f)[s] \in Nat
  <1>1. Sums(f) = Adding(f, SUBSET S, Sums(f))
    BY SumsExist
  <1>2. /\ Sums(f)[{}] = 0
        /\ \A s \in SUBSET S : s # {} => Pick(s) \in s /\ Sums(f)[s] = f[Pick(s)] + Sums(f)[s \ {Pick(s)}]
    BY <1>1 DEF Adding, Pick
  <1> DEFINE F == {s \in SUBSET S : Sums(f)[s] \in Nat}
  <1>3. {} \in F
    BY <1>2
  <1>4. ASSUME NEW T \in SUBSET S, T # {}, \A x \in T : T \ {x} \in F PROVE T \in F
    <2>1. Pick(T) \in T /\ f[Pick(T)] \in Nat /\ Sums(f)[T] = f[Pick(T)] + Sums(f)[T \ {Pick(T)}]
      BY <1>2, <1>4
    <2>2. Sums(f)[T \ {Pick(T)}] \in Nat
      BY <1>4, <2>1
    <2> QED BY <2>1, <2>2
  <1>5. F \in SUBSET SUBSET S
    OBVIOUS
  <1>6. F = SUBSET S
    <2> HIDE DEF F
    <2> QED BY <1>3, <1>4, <1>5, SubsetsInduct
  <1> QED BY <1>2, <1>6

\* Where one value changes, the sum changes by as much.
LEMMA SumChanges ==
    ASSUME NEW S, IsFiniteSet(S), NEW f \in [S -> Nat], NEW g \in S, NEW n \in Nat
    PROVE  LET new == [f EXCEPT ![g] = n]
           IN  Sum(new) = Sum(f) + n - f[g]
  <1> DEFINE new == [f EXCEPT ![g] = n]
             a == Sums(f)
             b == Sums(new)
             F == {s \in SUBSET S : b[s] = IF g \in s THEN a[s] + n - f[g] ELSE a[s]}
  <1>1. new \in [S -> Nat] /\ new[g] = n /\ \A x \in S : x # g => new[x] = f[x]
    OBVIOUS
  <1> HIDE DEF new
  <1>2. /\ a[{}] = 0 /\ \A s \in SUBSET S : a[s] \in Nat
        /\ \A s \in SUBSET S : s # {} => Pick(s) \in s /\ a[s] = f[Pick(s)] + a[s \ {Pick(s)}]
    BY SumsFacts
  <1>3. /\ b[{}] = 0 /\ \A s \in SUBSET S : b[s] \in Nat
        /\ \A s \in SUBSET S : s # {} => Pick(s) \in s /\ b[s] = new[Pick(s)] + b[s \ {Pick(s)}]
    BY <1>1, SumsFacts
  <1> HIDE DEF a, b
  <1>4. {} \in F
    BY <1>2, <1>3
  <1>5. ASSUME NEW T \in SUBSET S, T # {}, \A x \in T : T \ {x} \in F PROVE T \in F
    <2> DEFINE x == Pick(T)
               R == T \ {x}
    <2>1. x \in T /\ R \in SUBSET S /\ a[T] = f[x] + a[R] /\ b[T] = new[x] + b[R]
      BY <1>2, <1>3, <1>5
    <2>2. b[R] = IF g \in R THEN a[R] + n - f[g] ELSE a[R]
      BY <1>5, <2>1
    <2>3. a[R] \in Nat /\ f[x] \in Nat /\ f[g] \in Nat
      BY <1>2, <2>1
    <2>4. CASE x = g
      <3>1. g \notin R /\ g \in T
        BY <2>1, <2>4
      <3> HIDE DEF R, x
      <3> QED BY <1>1, <2>1, <2>2, <2>3, <2>4, <3>1
    <2>5. CASE x # g
      <3>1. (g \in R <=> g \in T) /\ new[x] = f[x]
        BY <1>1, <2>1, <2>5
      <3> HIDE DEF R, x
      <3> QED BY <2>1, <2>2, <2>3, <3>1
    <2> QED BY <2>4, <2>5
  <1>6. F \in SUBSET SUBSET S
    OBVIOUS
  <1>7. F = SUBSET S
    <2> HIDE DEF F
    <2> QED BY <1>4, <1>5, <1>6, SubsetsInduct
  <1>8. b[S] = a[S] + n - f[g]
    BY <1>7
  <1>9. DOMAIN f = S /\ DOMAIN new = S
    BY <1>1
  <1> QED BY <1>8, <1>9, SumUnfolds DEF a, b, new

------------------------------------------------------------------------------
(* The counts of the gates against the venue's. *)

GateSum(occ) == Sum(occ.gate)

\* The invariant in the terms of the lemmas.
LEMMA GateSumStated == GateSumCoversVenue <=> tracker.current <= GateSum(tracker)
  BY DEF GateSumCoversVenue, GateSum, Sum

\* What the gates hold is a number, and nobody is in a new tracker.
LEMMA GateSumFacts ==
    /\ \A occ \in OccupancyType : GateSum(occ) \in Nat
    /\ \A occ \in OccupancyType : \A g \in Gates : occ.gate[g] <= GateSum(occ)
    /\ NoOccupancy.current <= GateSum(NoOccupancy)
  <1>1. ASSUME NEW occ \in OccupancyType PROVE GateSum(occ) \in Nat
    <2>1. occ.gate \in [Gates -> Nat]
      BY DEF OccupancyType
    <2> QED BY <2>1, GatesFinite, SumUnfolds, SumsFacts DEF GateSum
  <1>2. ASSUME NEW occ \in OccupancyType, NEW g \in Gates PROVE occ.gate[g] <= GateSum(occ)
    <2> DEFINE none == [occ EXCEPT !.gate = [@ EXCEPT ![g] = 0]]
    <2>1. occ.gate \in [Gates -> Nat] /\ occ.gate[g] \in Nat
      BY DEF OccupancyType
    <2>2. none \in OccupancyType /\ none.gate = [occ.gate EXCEPT ![g] = 0]
      BY DEF OccupancyType
    <2> HIDE DEF none
    <2>3. GateSum(none) = GateSum(occ) + 0 - occ.gate[g]
      BY <2>1, <2>2, GatesFinite, SumChanges DEF GateSum
    <2>4. GateSum(none) \in Nat /\ GateSum(occ) \in Nat
      BY <1>1, <2>2
    <2> QED BY <2>1, <2>3, <2>4
  <1>3. NoOccupancy \in OccupancyType /\ NoOccupancy.current = 0
    BY NoOccupancyFacts DEF NoOccupancy
  <1> QED BY <1>1, <1>2, <1>3

\* A crossing takes no more from the gates than from the venue.
LEMMA CrossingKeepsGateSum ==
    ASSUME NEW occ \in OccupancyType, NEW e \in Events, occ.current <= GateSum(occ)
    PROVE  Recorded(occ, e).current <= GateSum(Recorded(occ, e))
  <1> DEFINE g == GateOf[e]
             new == Recorded(occ, e)
  <1>1. g \in Gates /\ occ.gate \in [Gates -> Nat] /\ occ.gate[g] \in Nat /\ occ.current \in Nat
    BY GatesKnown DEF OccupancyType
  <1>2. GateSum(occ) \in Nat /\ occ.gate[g] <= GateSum(occ)
    BY <1>1, GateSumFacts
  <1> HIDE DEF g
  <1>3. CASE e \in Entries
    <2>1. new.current = occ.current + 1 /\ new.gate = [occ.gate EXCEPT ![g] = occ.gate[g] + 1]
      BY <1>1, <1>3 DEF Recorded, RecordEntry, g
    <2>2. occ.gate[g] + 1 \in Nat
      BY <1>1
    <2> HIDE DEF new
    <2>3. GateSum(new) = GateSum(occ) + (occ.gate[g] + 1) - occ.gate[g]
      BY <1>1, <2>1, <2>2, GatesFinite, SumChanges DEF GateSum
    <2>4. new.current <= GateSum(new)
      BY <1>1, <1>2, <2>1, <2>3
    <2> QED BY <2>4 DEF new
  <1>4. CASE e \notin Entries
    <2>1. new.current = LessOne(occ.current) /\ new.gate = [occ.gate EXCEPT ![g] = LessOne(occ.gate[g])]
      BY <1>1, <1>4 DEF Recorded, RecordExit, g
    <2>2. LessOne(occ.gate[g]) \in Nat
      BY <1>1 DEF LessOne
    <2> HIDE DEF new
    <2>3. GateSum(new) = GateSum(occ) + LessOne(occ.gate[g]) - occ.gate[g]
      BY <1>1, <2>1, <2>2, GatesFinite, SumChanges DEF GateSum
    <2>4. new.current <= GateSum(new)
      BY <1>1, <1>2, <2>1, <2>3 DEF LessOne
    <2> QED BY <2>4 DEF new
  <1> QED BY <1>3, <1>4

\* Only a crossing and a restart move the tracker.
LEMMA GateSumStep == IInv /\ GateSumCoversVenue /\ [Next]_vars => GateSumCoversVenue'
  <1> SUFFICES ASSUME IInv, GateSumCoversVenue, [Next]_vars PROVE GateSumCoversVenue'
    OBVIOUS
  <1>1. /\ tracker \in OccupancyType /\ task \in [Handlers -> TaskType]
        /\ tracker.current <= GateSum(tracker)
    BY GateSumStated DEF IInv, TypeOK
  <1>2. SUFFICES \/ tracker' = tracker
                 \/ tracker' = NoOccupancy
                 \/ \E e \in Events : tracker' = Recorded(tracker, e)
    <2>1. tracker'.current <= GateSum(tracker')
      BY <1>1, GateSumFacts, CrossingKeepsGateSum
    <2>2. (GateSumCoversVenue <=> tracker.current <= GateSum(tracker))'
      BY GateSumStated, PTL
    <2> QED BY <2>1, <2>2
  <1>3. ASSUME NEW h \in Clients, NEW e \in ApiEvents, Submit(h, e)
        PROVE  \E d \in Events : tracker' = Recorded(tracker, d)
    BY <1>3 DEF Submit, Events
  <1>4. ASSUME NEW h \in Handlers, ProceedFrame(h)
        PROVE  \/ tracker' = tracker
               \/ \E d \in Events : tracker' = Recorded(tracker, d)
    <2>1. task[h].phase # "idle" => task[h].event \in Events
      BY DEF IInv, WorkersHaveEvents
    <2>2. CASE SeeCrossing(h)
      BY <2>1, <2>2 DEF SeeCrossing
    <2>3. CASE Route(h)
      BY <2>1, <2>3 DEF Route
    <2>4. CASE SeeNothing(h)
      BY <2>4 DEF SeeNothing, engine
    <2> QED BY <1>4, <2>2, <2>3, <2>4 DEF ProceedFrame
  <1>5. ASSUME NEW h \in Handlers, Proceed(h) PROVE tracker' = tracker
    BY <1>5 DEF Proceed, Analyse, Find, FindFails, Insert, InsertFails, Announce, Send,
                SendFails, engine
  <1>6. CASE \E h \in Consumers, e \in CameraEvents : PickFrame(h, e)
    BY <1>6 DEF PickFrame, engine
  <1>7. CASE \E h \in Consumers : Cancel(h)
    BY <1>7 DEF Cancel, engine
  <1>8. CASE MoveSession
    BY <1>8 DEF MoveSession, engine
  <1>9. CASE Restart
    BY <1>9 DEF Restart
  <1>10. CASE UNCHANGED vars
    BY <1>10 DEF vars
  <1>11. Consumers \subseteq Handlers
    BY DEF Handlers
  <1> QED BY <1>3, <1>4, <1>5, <1>6, <1>7, <1>8, <1>9, <1>10, <1>11 DEF Next

\* The gates together never hold fewer people than the venue: occupancy.py bounds
\* the count of the venue and the count of each gate by 0 one by one, and still an
\* exit takes one from the venue whenever it takes one from its gate.
THEOREM GatesCover == Spec => []GateSumCoversVenue
  <1>1. Init => GateSumCoversVenue
    BY GateSumFacts, GateSumStated DEF Init
  <1> QED BY <1>1, GateSumStep, Invariance, PTL DEF Spec
=============================================================================
