------------------------------- MODULE Movement -------------------------------
(***************************************************************************)
(* MovementEngine of ai-engine/movement: the cameras of a venue turn the   *)
(* positions of their tracks into ENTRY and EXIT events.                   *)
(*                                                                         *)
(* process_frame runs in a worker thread per camera and a gate has one     *)
(* camera: the gate of a camera is named by the camera. Track states and   *)
(* the deduplicator's keys name the gate and are touched by its camera's   *)
(* thread only; occupancy and journeys are shared by all cameras and held  *)
(* under a lock for one call. A step ends with one such call.              *)
(*                                                                         *)
(* A position is the side of the gate's line it lies on. Positions on      *)
(* different sides are at least MIN_CROSSING_DISTANCE apart and the path   *)
(* between them meets the line segment; so are two positions on the line.  *)
(***************************************************************************)
EXTENDS OccupancyTracker, Sequences, FiniteSets

CONSTANTS
    Tracks,       \* the tracks of all cameras
    GateOf,       \* [Tracks -> Gates]: the gate of the track's camera
    Persons,      \* identities that recognition can report
    PersonOf,     \* [Tracks -> Persons]: whom the track shows
    Unknown,      \* identity_id of a sighting nobody was recognised in
    Normal,       \* gates configured with a normal_vector
    Accepted,     \* [Gates -> SUBSET Directions]: gate_type
    Window,       \* TRAJECTORY_WINDOW
    MaxLost,      \* MAX_TRACK_LOST_FRAMES
    Dedup,        \* EVENT_DEDUP_WINDOW, in ticks
    MaxFrames,    \* bound: frames of all cameras together
    MaxTicks      \* bound: ticks of the clock

Directions == {"ENTRY", "EXIT"}

ASSUME MovementConstants ==
    /\ IsFiniteSet(Gates) /\ GateOf \in [Tracks -> Gates]
    /\ PersonOf \in [Tracks -> Persons]
    /\ Unknown \notin Persons /\ Tracks \cap Persons = {}
    /\ Normal \subseteq Gates /\ Accepted \in [Gates -> SUBSET Directions]
    /\ Window \in Nat \ {0} /\ MaxLost \in Nat /\ Dedup \in Nat \ {0}
    /\ MaxFrames \in Nat /\ MaxTicks \in Nat

Sides == {"outer", "line", "inner"}

VARIABLES
    path,       \* trajectory of the track's state, <<>> when it has no state
    state,      \* current_state
    previous,   \* previous_state
    lost,       \* frames_lost
    age,        \* ticks since _history was stamped, Dedup when that is no matter
    todo,       \* [Gates -> SUBSET Tracks]: tracks of the frame still to be processed
    missing,    \* [Gates -> SUBSET Tracks]: tracks the frame does not show
    step,       \* where the camera's thread is in process_frame
    event,      \* the event under way
    tracker,    \* OccupancyTracker of the venue
    active,     \* keys of the active journeys
    completed,  \* number of completed journeys
    frames, ticks,   \* bounds
    quiet,      \* history: ticks since an event with the key was let through
    missed,     \* history: frames since the track was last in one
    seen,       \* history: sightings since the track was away for more than MaxLost
    done,       \* history: the last event among those sightings
    last,       \* history: last event of the track
    since,      \* history: sightings since then
    back        \* history: some of them off the side that event led to

tracking == <<path, state, previous, lost>>
journeys == <<active, completed>>
sightings == <<quiet, missed, seen, done, last, since, back>>
vars == <<path, state, previous, lost, age, todo, missing, step, event, tracker, active,
          completed, frames, ticks, quiet, missed, seen, done, last, since, back>>

TracksAt(g) == {t \in Tracks : GateOf[t] = g}
\* Keys of the deduplicator. A track key names its gate through GateOf.
Key == (Directions \X Tracks) \cup (Directions \X Persons \X Gates)
NoEvent == [type |-> "NONE"]
Event == [type : Directions, track : Tracks, who : Persons \cup {Unknown}]
States == {"UNKNOWN", "INSIDE", "ENTERED", "EXITED", "LOST"}
Outcome == Directions \cup {"NONE"}

TypeOK ==
    /\ path \in [Tracks -> Seq(Sides)] /\ \A t \in Tracks : Len(path[t]) <= Window
    /\ state \in [Tracks -> States] /\ previous \in [Tracks -> States]
    /\ lost \in [Tracks -> 0..MaxLost] /\ age \in [Key -> 0..Dedup]
    /\ quiet \in [Key -> 0..Dedup]
    /\ todo \in [Gates -> SUBSET Tracks] /\ missing \in [Gates -> SUBSET Tracks]
    /\ step \in [Gates -> {"idle", "tracks", "journey"}]
    /\ event \in [Gates -> Event \cup {NoEvent}]
    /\ tracker \in OccupancyType /\ WithinBounds(tracker)
    /\ active \subseteq Tracks \cup Persons /\ completed \in Nat
    /\ missed \in [Tracks -> 0..MaxLost + 1] /\ seen \in [Tracks -> 0..Window]
    /\ done \in [Tracks -> Outcome] /\ last \in [Tracks -> Outcome]
    /\ since \in [Tracks -> 0..Window] /\ back \in [Tracks -> BOOLEAN]

Init ==
    /\ path = [t \in Tracks |-> <<>>]
    /\ state = [t \in Tracks |-> "UNKNOWN"] /\ previous = [t \in Tracks |-> "UNKNOWN"]
    /\ lost = [t \in Tracks |-> 0] /\ age = [k \in Key |-> Dedup]
    /\ todo = [g \in Gates |-> {}] /\ missing = [g \in Gates |-> {}]
    /\ step = [g \in Gates |-> "idle"] /\ event = [g \in Gates |-> NoEvent]
    /\ tracker = NoOccupancy /\ active = {} /\ completed = 0
    /\ frames = 0 /\ ticks = 0 /\ quiet = [k \in Key |-> Dedup]
    /\ missed = [t \in Tracks |-> 0] /\ seen = [t \in Tracks |-> 0]
    /\ done = [t \in Tracks |-> "NONE"] /\ last = [t \in Tracks |-> "NONE"]
    /\ since = [t \in Tracks |-> 0] /\ back = [t \in Tracks |-> FALSE]
-----------------------------------------------------------------------------
(***************************************************************************)
(* The line zone.                                                          *)
(***************************************************************************)
Depth == [s \in Sides |-> CASE s = "outer" -> 0 [] s = "line" -> 1 [] s = "inner" -> 2]

\* evaluate_trajectory: only the two ends of the window matter. "NONE" stands for
\* no crossing and for a crossing of no direction, which are dropped alike.
Crossing(g, p) ==
    LET from == Depth[p[1]]
        to == Depth[p[Len(p)]]
    IN  IF Len(p) < 2 \/ (from = to /\ from # 1) THEN "NONE"
        ELSE IF g \in Normal THEN IF to >= from THEN "ENTRY" ELSE "EXIT"
        ELSE IF to = 2 THEN "ENTRY"
        ELSE IF to = 0 THEN "EXIT"
        ELSE "NONE"

\* A trajectory that is never cut.
AppendAll(p, s) == Append(p, s)

\* deque(maxlen = trajectory_window).append
AppendPoint(p, s) ==
    LET all == Append(p, s)
    IN  IF Len(all) > Window THEN Tail(all) ELSE all

(***************************************************************************)
(* The deduplicator.                                                       *)
(***************************************************************************)
TrackKey(e) == <<e.type, e.track>>
IdentityKey(e) == <<e.type, e.who, GateOf[e.track]>>
KeysOf(e) == {TrackKey(e)} \cup IF e.who = Unknown THEN {} ELSE {IdentityKey(e)}

IsDuplicate(e) == \E k \in KeysOf(e) : age[k] < Dedup

\* Only the track is remembered.
RecordTrackOnly(e) == [age EXCEPT ![TrackKey(e)] = 0]

\* record_event: expired keys that it deletes have the age Dedup already.
RecordEvent(e) == [k \in Key |-> IF k \in KeysOf(e) THEN 0 ELSE age[k]]

Stamped(ages, e) == [k \in Key |-> IF k \in KeysOf(e) THEN 0 ELSE ages[k]]
-----------------------------------------------------------------------------
(***************************************************************************)
(* The state of a track.                                                   *)
(***************************************************************************)
\* update_position leaves LOST for the state before it.
Recovered(t) ==
    IF state[t] # "LOST" THEN state[t]
    ELSE IF previous[t] # "LOST" THEN previous[t] ELSE "INSIDE"

MoveTo(t, after) ==
    /\ state' = [state EXCEPT ![t] = after]
    /\ previous' = [previous EXCEPT ![t] =
                     IF after # Recovered(t) THEN Recovered(t)
                     ELSE IF after # state[t] THEN state[t] ELSE @]

\* The frame at hand is not counted yet.
ExpiresLate(t) == lost[t] > MaxLost

\* is_expired, after mark_lost has counted the frame.
IsExpired(t) == lost[t] + 1 > MaxLost

\* A track that is LOST is marked again.
LosesAgain(t) == state[t] # "EXITED"

\* mark_lost: an EXITED track stays so, and a LOST one keeps what it was before.
Loses(t) == state[t] \notin {"LOST", "EXITED"}

\* mark_missing_tracks: only tracks that have a state are marked, expired ones lose it.
MarkMissing(g) ==
    LET known == {t \in missing[g] : path[t] # <<>>}
        gone == {t \in known : IsExpired(t)}
        losing == {t \in known \ gone : Loses(t)}
    IN  /\ path' = [t \in Tracks |-> IF t \in gone THEN <<>> ELSE path[t]]
        /\ lost' = [t \in Tracks |-> IF t \in gone THEN 0
                                     ELSE IF t \in known THEN lost[t] + 1 ELSE lost[t]]
        /\ state' = [t \in Tracks |-> IF t \in gone THEN "UNKNOWN"
                                      ELSE IF t \in losing THEN "LOST" ELSE state[t]]
        /\ previous' = [t \in Tracks |-> IF t \in gone THEN "UNKNOWN"
                                         ELSE IF t \in losing THEN state[t] ELSE previous[t]]
-----------------------------------------------------------------------------
(***************************************************************************)
(* process_frame.                                                          *)
(***************************************************************************)
\* CameraAIPipeline hands on no frame without a track.
BeginFrame(g) ==
    /\ step[g] = "idle" /\ frames < MaxFrames
    /\ \E shown \in SUBSET TracksAt(g) \ {{}} :
           /\ todo' = [todo EXCEPT ![g] = shown]
           /\ missing' = [missing EXCEPT ![g] = TracksAt(g) \ shown]
    /\ step' = [step EXCEPT ![g] = "tracks"] /\ frames' = frames + 1
    /\ UNCHANGED <<path, state, previous, lost, age, event, tracker, active, completed, ticks,
                   sightings>>

\* The history need not count beyond what a trajectory can hold.
Counted(n) == IF n < Window THEN n + 1 ELSE Window

FarSide(type) == IF type = "ENTRY" THEN "inner" ELSE "outer"

\* A sighting nothing comes of: no crossing, the wrong direction, a duplicate.
PassOver(t, side) ==
    /\ MoveTo(t, Recovered(t))
    /\ UNCHANGED <<age, tracker, step, event, quiet, done, last>>
    /\ since' = [since EXCEPT ![t] = Counted(@)]
    /\ back' = [back EXCEPT ![t] = @ \/ (last[t] # "NONE" /\ side # FarSide(last[t]))]

\* The crossing becomes an event and is counted.
LetThrough(t, e) ==
    LET g == GateOf[t]
    IN  /\ age' = RecordEvent(e)
        /\ MoveTo(t, IF e.type = "ENTRY" THEN "ENTERED" ELSE "EXITED")
        /\ tracker' = IF e.type = "ENTRY" THEN RecordEntry(tracker, g) ELSE RecordExit(tracker, g)
        /\ step' = [step EXCEPT ![g] = "journey"] /\ event' = [event EXCEPT ![g] = e]
        /\ quiet' = Stamped(quiet, e)
        /\ done' = [done EXCEPT ![t] = e.type] /\ last' = [last EXCEPT ![t] = e.type]
        /\ since' = [since EXCEPT ![t] = 0] /\ back' = [back EXCEPT ![t] = FALSE]

\* The next track of the frame.
Sight(t) ==
    LET g == GateOf[t]
    IN  /\ step[g] = "tracks" /\ t \in todo[g]
        /\ \E side \in Sides, who \in {Unknown, PersonOf[t]} :
              LET p == AppendPoint(path[t], side)
                  type == Crossing(g, p)
                  e == [type |-> type, track |-> t, who |-> who]
              IN  /\ path' = [path EXCEPT ![t] = p]
                  /\ IF type \in Accepted[g] /\ ~IsDuplicate(e) THEN LetThrough(t, e)
                     ELSE PassOver(t, side)
        /\ lost' = [lost EXCEPT ![t] = 0] /\ todo' = [todo EXCEPT ![g] = @ \ {t}]
        /\ missed' = [missed EXCEPT ![t] = 0] /\ seen' = [seen EXCEPT ![t] = Counted(@)]
        /\ UNCHANGED <<missing, journeys, frames, ticks>>

JourneyKey(e) == IF e.who = Unknown THEN e.track ELSE e.who

\* Every exit completes a journey.
JourneyAlways(g) ==
    LET e == event[g]
        key == JourneyKey(e)
    IN  /\ step[g] = "journey"
        /\ active' = IF e.type = "ENTRY" THEN active \cup {key} ELSE active \ {key}
        /\ completed' = IF e.type = "EXIT" THEN completed + 1 ELSE completed
        /\ step' = [step EXCEPT ![g] = "tracks"] /\ event' = [event EXCEPT ![g] = NoEvent]
        /\ UNCHANGED <<tracking, age, todo, missing, tracker, frames, ticks, sightings>>

\* start_journey keeps the journey that is active; complete_journey wants one.
Journey(g) ==
    LET e == event[g]
        key == JourneyKey(e)
    IN  /\ step[g] = "journey"
        /\ active' = IF e.type = "ENTRY" THEN active \cup {key} ELSE active \ {key}
        /\ completed' = IF e.type = "EXIT" /\ key \in active THEN completed + 1 ELSE completed
        /\ step' = [step EXCEPT ![g] = "tracks"] /\ event' = [event EXCEPT ![g] = NoEvent]
        /\ UNCHANGED <<tracking, age, todo, missing, tracker, frames, ticks, sightings>>

\* The history of a track starts over when it was away for more than MaxLost frames.
EndFrame(g) ==
    /\ step[g] = "tracks" /\ todo[g] = {}
    /\ MarkMissing(g)
    /\ step' = [step EXCEPT ![g] = "idle"] /\ missing' = [missing EXCEPT ![g] = {}]
    /\ missed' = [t \in Tracks |-> IF t \in missing[g] /\ missed[t] <= MaxLost
                                   THEN missed[t] + 1 ELSE missed[t]]
    /\ LET away == {t \in missing[g] : missed[t] >= MaxLost}
       IN  /\ seen' = [t \in Tracks |-> IF t \in away THEN 0 ELSE seen[t]]
           /\ done' = [t \in Tracks |-> IF t \in away THEN "NONE" ELSE done[t]]
    /\ UNCHANGED <<age, todo, event, tracker, journeys, frames, ticks, quiet, last, since, back>>

\* EVENT_DEDUP_WINDOW is measured by the clock, whatever the cameras do.
Tick ==
    /\ ticks < MaxTicks
    /\ ticks' = ticks + 1
    /\ age' = [k \in Key |-> IF age[k] < Dedup THEN age[k] + 1 ELSE Dedup]
    /\ quiet' = [k \in Key |-> IF quiet[k] < Dedup THEN quiet[k] + 1 ELSE Dedup]
    /\ UNCHANGED <<tracking, todo, missing, step, event, tracker, journeys, frames, missed, seen,
                   done, last, since, back>>

Next ==
    \/ \E g \in Gates : BeginFrame(g) \/ Journey(g) \/ EndFrame(g)
    \/ \E t \in Tracks : Sight(t)
    \/ Tick

Spec == Init /\ [][Next]_vars
-----------------------------------------------------------------------------
\* What a track last did is never lost while its state is: a person who is hidden
\* for up to MaxLost frames is taken neither for gone nor for new (mark_lost,
\* update_position, is_expired).
StateRemembersLastEvent ==
    \A t \in Tracks :
        LET known == IF state[t] = "LOST" THEN previous[t] ELSE state[t]
        IN  known = CASE done[t] = "ENTRY" -> "ENTERED" [] done[t] = "EXIT" -> "EXITED"
                      [] done[t] = "NONE" -> "UNKNOWN"

\* A trajectory never reaches back over an absence of more than MaxLost frames: no
\* crossing is made up of what the track was before it and after it.
TrajectoryIsRecent == \A t \in Tracks : Len(path[t]) <= seen[t]

\* The event that a step lets through at gate g.
Emits(g) == step[g] = "tracks" /\ step'[g] = "journey"

\* The same track, and the same person whatever track shows him, makes no second
\* event of a direction at a gate within EVENT_DEDUP_WINDOW (is_duplicate and
\* record_event).
OncePerWindow ==
    [][\A g \in Gates : Emits(g) => \A k \in KeysOf(event'[g]) : quiet[k] = Dedup]_vars

\* Repeats of one crossing die out: a track that has stayed on the side its last
\* event led to makes that event again only while the point before the crossing is
\* in its trajectory.
RepeatsDieOut ==
    [][\A g \in Gates : Emits(g) =>
         LET t == event'[g].track
         IN  event'[g].type = last[t] /\ ~back[t] => since[t] + 1 < Window]_vars

UnderWay(type) == Cardinality({g \in Gates : step[g] = "journey" /\ event[g].type = type})

\* Every journey stems from an entry that was counted and ends with an exit that was
\* counted, whatever cameras and identities are mixed up on the way.
JourneysAreCounted ==
    /\ completed + Cardinality(active) + UnderWay("ENTRY") <= tracker.entries
    /\ completed + UnderWay("EXIT") <= tracker.exits

\* "A single physical crossing must produce exactly one ENTRY event."
\* (movement/tests/test_movement_engine.py:54): a track makes an event again only
\* when it has left the side the event led to.
CrossingMakesOneEvent ==
    [][\A g \in Gates : Emits(g) =>
         LET t == event'[g].track IN event'[g].type = last[t] => back[t]]_vars
=============================================================================
