---------------------------- MODULE MovementProofs ----------------------------
(***************************************************************************)
(* What the movement engine keeps for any tracks, gates, persons, window,  *)
(* time to lose a track and deduplication window.                          *)
(*                                                                         *)
(* The history a property speaks of is tied to what the engine keeps: a    *)
(* track that has a state has been away for as many frames as the state    *)
(* says, a track that has none has no history, the deduplicator's ages are *)
(* the true ones, and what a track saw since its last event is the end of  *)
(* its trajectory.                                                         *)
(***************************************************************************)
EXTENDS Movement, FiniteSetTheorems, SequenceTheorems, TLAPS

\* A state's frames_lost is the truth, and a track without one is as new.
KnownTracks ==
    \A t \in Tracks :
        /\ state[t] = "LOST" => previous[t] # "LOST"
        /\ path[t] = <<>> => state[t] = "UNKNOWN" /\ previous[t] = "UNKNOWN" /\ lost[t] = 0
        /\ path[t] # <<>> => lost[t] = missed[t]

\* A track that has stayed on the side its event led to has only points of that
\* side in its trajectory, as far back as the event.
Settled ==
    \A t \in Tracks :
        last[t] # "NONE" /\ ~back[t] =>
            \A i \in 1..Len(path[t]) :
                i > Len(path[t]) - since[t] => path[t][i] = FarSide(last[t])

UnderWayHasEvent == \A g \in Gates : step[g] = "journey" => event[g] \in Event

StateInv == KnownTracks /\ StateRemembersLastEvent /\ TrajectoryIsRecent /\ Settled
CountInv == UnderWayHasEvent /\ IsFiniteSet(active) /\ JourneysAreCounted

IInv == TypeOK /\ age = quiet /\ StateInv /\ CountInv

------------------------------------------------------------------------------
(* The tracker. *)

\* A new tracker is one, within its bounds.
LEMMA NoOccupancyFacts == NoOccupancy \in OccupancyType /\ WithinBounds(NoOccupancy)
  BY DEF NoOccupancy, OccupancyType, WithinBounds

\* An entry keeps a tracker a tracker, within its bounds, and adds one entry.
LEMMA EntryFacts ==
    ASSUME NEW occ \in OccupancyType, NEW g \in Gates
    PROVE  /\ RecordEntry(occ, g) \in OccupancyType
           /\ WithinBounds(occ) => WithinBounds(RecordEntry(occ, g))
           /\ RecordEntry(occ, g).entries = occ.entries + 1
           /\ RecordEntry(occ, g).exits = occ.exits
  <1> DEFINE new == RecordEntry(occ, g)
  <1>1. /\ new.entries = occ.entries + 1 /\ new.exits = occ.exits
        /\ new.current = occ.current + 1
        /\ new.gate = [occ.gate EXCEPT ![g] = @ + 1]
    BY DEF RecordEntry, OccupancyType
  <1>2. new \in OccupancyType
    BY DEF RecordEntry, OccupancyType
  <1>3. WithinBounds(occ) => WithinBounds(new)
    BY <1>1 DEF WithinBounds, OccupancyType
  <1> QED BY <1>1, <1>2, <1>3

\* An exit does too, and takes nobody from a count that is 0.
LEMMA ExitFacts ==
    ASSUME NEW occ \in OccupancyType, NEW g \in Gates
    PROVE  /\ RecordExit(occ, g) \in OccupancyType
           /\ WithinBounds(occ) => WithinBounds(RecordExit(occ, g))
           /\ RecordExit(occ, g).exits = occ.exits + 1
           /\ RecordExit(occ, g).entries = occ.entries
  <1> DEFINE new == RecordExit(occ, g)
  <1>1. /\ new.entries = occ.entries /\ new.exits = occ.exits + 1
        /\ new.current = LessOne(occ.current)
        /\ new.gate = [occ.gate EXCEPT ![g] = LessOne(@)]
    BY DEF RecordExit, OccupancyType
  <1>2. \A n \in Nat : LessOne(n) \in Nat /\ LessOne(n) <= n /\ n <= LessOne(n) + 1
    BY DEF LessOne
  <1>3. new \in OccupancyType
    BY <1>2 DEF RecordExit, OccupancyType
  <1>4. WithinBounds(occ) => WithinBounds(new)
    <2> SUFFICES ASSUME WithinBounds(occ) PROVE WithinBounds(new)
      OBVIOUS
    <2>1. new.current <= new.entries /\ new.entries <= new.current + new.exits
      BY <1>1, <1>2 DEF WithinBounds, OccupancyType
    <2>2. \A x \in Gates : new.gate[x] <= new.entries
      BY <1>1, <1>2 DEF WithinBounds, OccupancyType
    <2> QED BY <2>1, <2>2 DEF WithinBounds
  <1> QED BY <1>1, <1>3, <1>4

------------------------------------------------------------------------------
(* The line, the trajectory and the state. *)

\* A trajectory grows by the new point and never beyond the window.
LEMMA AppendFacts ==
    ASSUME NEW p \in Seq(Sides), Len(p) <= Window, NEW s \in Sides
    PROVE  LET q == AppendPoint(p, s)
           IN  /\ q \in Seq(Sides) /\ q # <<>> /\ Len(q) <= Window
               /\ Len(q) = IF Len(p) < Window THEN Len(p) + 1 ELSE Window
               /\ q[Len(q)] = s
               /\ \A i \in 1..(Len(q) - 1) : q[i] = p[i + (Len(p) + 1 - Len(q))]
  <1> DEFINE all == Append(p, s)
  <1>1. /\ all \in Seq(Sides) /\ Len(all) = Len(p) + 1 /\ all[Len(p) + 1] = s
        /\ \A i \in 1..Len(p) : all[i] = p[i]
    OBVIOUS
  <1>2. Window \in Nat /\ Window >= 1
    BY MovementConstants
  <1>3. CASE Len(all) > Window
    <2>1. Len(p) = Window
      BY <1>1, <1>2, <1>3
    <2>2. /\ Tail(all) \in Seq(Sides) /\ Len(Tail(all)) = Len(p)
          /\ \A i \in 1..Len(p) : Tail(all)[i] = all[i + 1]
      BY <1>1, <1>2, <2>1
    <2>3. AppendPoint(p, s) = Tail(all)
      BY <1>3 DEF AppendPoint
    <2>4. Tail(all) # <<>> /\ Tail(all)[Window] = s
      BY <1>1, <2>1, <2>2, <1>2
    <2>5. \A i \in 1..(Window - 1) : Tail(all)[i] = p[i + 1]
      BY <1>1, <2>1, <2>2, <1>2
    <2>6. Len(p) + 1 - Window = 1
      BY <2>1, <1>2
    <2> HIDE DEF all
    <2> QED BY <1>2, <2>1, <2>2, <2>3, <2>4, <2>5, <2>6
  <1>4. CASE ~(Len(all) > Window)
    <2>1. AppendPoint(p, s) = all
      BY <1>4 DEF AppendPoint
    <2>2. Len(p) < Window
      BY <1>1, <1>2, <1>4
    <2>3. all # <<>>
      BY <1>1
    <2> HIDE DEF all
    <2> QED BY <1>1, <1>2, <2>1, <2>2, <2>3
  <1> QED BY <1>3, <1>4

\* No crossing begins on the side it leads to.
LEMMA CrossingLeaves ==
    ASSUME NEW g \in Gates, NEW p \in Seq(Sides), Crossing(g, p) # "NONE"
    PROVE  /\ Len(p) >= 2
           /\ Crossing(g, p) \in Directions
           /\ p[1] # FarSide(Crossing(g, p))
  <1>1. Len(p) >= 2 /\ Len(p) \in Nat
    BY DEF Crossing
  <1>2. p[1] \in Sides /\ p[Len(p)] \in Sides
    BY <1>1
  <1>3. Depth["outer"] = 0 /\ Depth["line"] = 1 /\ Depth["inner"] = 2
    BY DEF Depth, Sides
  <1> QED BY <1>1, <1>2, <1>3 DEF Crossing, Directions, FarSide, Sides

\* A transition of the state machine to a state other than LOST.
LEMMA MoveFacts ==
    ASSUME TypeOK, KnownTracks, NEW t \in Tracks, NEW after \in States \ {"LOST"},
           MoveTo(t, after)
    PROVE  /\ state' \in [Tracks -> States] /\ previous' \in [Tracks -> States]
           /\ state'[t] = after
           /\ \A u \in Tracks \ {t} : state'[u] = state[u] /\ previous'[u] = previous[u]
  <1>1. Recovered(t) \in States
    BY DEF Recovered, TypeOK, States
  <1> QED BY <1>1 DEF MoveTo, TypeOK

\* A track that comes back is in the state its last event put it in.
LEMMA RecoveredFacts ==
    ASSUME TypeOK, KnownTracks, StateRemembersLastEvent, NEW t \in Tracks
    PROVE  /\ Recovered(t) \in States \ {"LOST"}
           /\ Recovered(t) = CASE done[t] = "ENTRY" -> "ENTERED" [] done[t] = "EXIT" -> "EXITED"
                               [] done[t] = "NONE" -> "UNKNOWN"
  BY DEF Recovered, TypeOK, KnownTracks, StateRemembersLastEvent, States, Outcome, Directions

------------------------------------------------------------------------------
(* The events under way. *)

Busy(type) == {g \in Gates : step[g] = "journey" /\ event[g].type = type}

LEMMA BusyFacts ==
    ASSUME NEW type
    PROVE  /\ IsFiniteSet(Busy(type)) /\ UnderWay(type) = Cardinality(Busy(type))
           /\ UnderWay(type) \in Nat
  <1>1. Busy(type) \subseteq Gates
    BY DEF Busy
  <1>2. IsFiniteSet(Busy(type))
    BY <1>1, FS_Subset, MovementConstants
  <1> QED BY <1>2, FS_CardinalityType DEF UnderWay, Busy

\* The gate that lets an event through has one more of its type under way.
LEMMA UnderWayAdds ==
    ASSUME TypeOK, NEW g \in Gates, step[g] # "journey", NEW e \in Event,
           step' = [step EXCEPT ![g] = "journey"], event' = [event EXCEPT ![g] = e],
           NEW type
    PROVE  UnderWay(type)' = UnderWay(type) + IF e.type = type THEN 1 ELSE 0
  <1>1. /\ step'[g] = "journey" /\ event'[g] = e
        /\ \A h \in Gates \ {g} : step'[h] = step[h] /\ event'[h] = event[h]
    BY DEF TypeOK
  <1>2. g \notin Busy(type)
    BY DEF Busy
  <1>3. UnderWay(type)' = Cardinality(Busy(type)')
    BY DEF UnderWay, Busy
  <1>4. CASE e.type = type
    <2>1. Busy(type)' = Busy(type) \cup {g}
      BY <1>1, <1>2, <1>4 DEF Busy
    <2>2. Cardinality(Busy(type) \cup {g}) = Cardinality(Busy(type)) + 1
      BY <1>2, BusyFacts, FS_AddElement
    <2> QED BY <1>3, <1>4, <2>1, <2>2, BusyFacts
  <1>5. CASE e.type # type
    <2>1. Busy(type)' = Busy(type)
      BY <1>1, <1>2, <1>5 DEF Busy
    <2> QED BY <1>3, <1>5, <2>1, BusyFacts
  <1> QED BY <1>4, <1>5

\* The gate whose event is dealt with has one less.
LEMMA UnderWayEnds ==
    ASSUME TypeOK, NEW g \in Gates, step[g] = "journey",
           step' = [step EXCEPT ![g] = "tracks"], event' = [event EXCEPT ![g] = NoEvent],
           NEW type
    PROVE  UnderWay(type) = UnderWay(type)' + IF event[g].type = type THEN 1 ELSE 0
  <1>1. /\ step'[g] = "tracks"
        /\ \A h \in Gates \ {g} : step'[h] = step[h] /\ event'[h] = event[h]
    BY DEF TypeOK
  <1>2. UnderWay(type)' = Cardinality(Busy(type)')
    BY DEF UnderWay, Busy
  <1>3. CASE event[g].type = type
    <2>1. Busy(type)' = Busy(type) \ {g} /\ g \in Busy(type)
      BY <1>1, <1>3 DEF Busy
    <2>2. Cardinality(Busy(type) \ {g}) = Cardinality(Busy(type)) - 1
      BY <2>1, BusyFacts, FS_RemoveElement
    <2> QED BY <1>2, <1>3, <2>1, <2>2, BusyFacts
  <1>4. CASE event[g].type # type
    <2>1. Busy(type)' = Busy(type)
      BY <1>1, <1>4 DEF Busy
    <2> QED BY <1>2, <1>4, <2>1, BusyFacts
  <1> QED BY <1>3, <1>4

\* A step that begins and ends no event, or moves a gate between frames.
LEMMA UnderWayStays ==
    ASSUME event' = event, \A g \in Gates : (step'[g] = "journey") = (step[g] = "journey"),
           NEW type
    PROVE  UnderWay(type)' = UnderWay(type)
  BY DEF UnderWay

------------------------------------------------------------------------------
(* The first state. *)

LEMMA InitInvariant == Init => IInv
  <1> SUFFICES ASSUME Init PROVE IInv
    OBVIOUS
  <1> USE DEF Init
  <1>1. TypeOK
    <2>1. /\ path \in [Tracks -> Seq(Sides)] /\ \A t \in Tracks : Len(path[t]) <= Window
      BY MovementConstants
    <2>2. tracker \in OccupancyType /\ WithinBounds(tracker)
      BY NoOccupancyFacts
    <2>3. /\ age \in [Key -> 0..Dedup] /\ quiet \in [Key -> 0..Dedup]
          /\ lost \in [Tracks -> 0..MaxLost] /\ missed \in [Tracks -> 0..MaxLost + 1]
          /\ seen \in [Tracks -> 0..Window] /\ since \in [Tracks -> 0..Window]
      BY MovementConstants
    <2> QED BY <2>1, <2>2, <2>3 DEF TypeOK, States, Outcome
  <1>2. StateInv
    BY DEF StateInv, KnownTracks, StateRemembersLastEvent, TrajectoryIsRecent, Settled
  <1>3. CountInv
    <2>1. \A type : Busy(type) = {}
      BY DEF Busy
    <2>2. UnderWay("ENTRY") = 0 /\ UnderWay("EXIT") = 0
      BY <2>1, BusyFacts, FS_EmptySet
    <2>3. IsFiniteSet(active) /\ Cardinality(active) = 0
      BY FS_EmptySet
    <2> QED BY <2>2, <2>3 DEF CountInv, UnderWayHasEvent, JourneysAreCounted, NoOccupancy
  <1> QED BY <1>1, <1>2, <1>3 DEF IInv

------------------------------------------------------------------------------
(* A frame begins, or time passes: no property is about it. *)

LEMMA BeginFrameKeeps ==
    ASSUME IInv, NEW g \in Gates, BeginFrame(g)
    PROVE  IInv'
  <1>1. /\ step' = [step EXCEPT ![g] = "tracks"] /\ step[g] = "idle" /\ frames' = frames + 1
        /\ UNCHANGED <<path, state, previous, lost, age, event, tracker, active, completed, ticks,
                       quiet, missed, seen, done, last, since, back>>
    BY DEF BeginFrame, sightings
  <1>2. PICK shown \in SUBSET TracksAt(g) :
           /\ todo' = [todo EXCEPT ![g] = shown]
           /\ missing' = [missing EXCEPT ![g] = TracksAt(g) \ shown]
    BY DEF BeginFrame
  <1>3. shown \in SUBSET Tracks /\ TracksAt(g) \ shown \in SUBSET Tracks
    BY DEF TracksAt
  <1>4. TypeOK'
    BY <1>1, <1>2, <1>3 DEF IInv, TypeOK, WithinBounds
  <1>5. \A h \in Gates : (step'[h] = "journey") = (step[h] = "journey")
    BY <1>1 DEF IInv, TypeOK
  <1>6. UnderWay("ENTRY")' = UnderWay("ENTRY") /\ UnderWay("EXIT")' = UnderWay("EXIT")
    BY <1>1, <1>5, UnderWayStays
  <1>7. CountInv'
    BY <1>1, <1>5, <1>6 DEF IInv, CountInv, UnderWayHasEvent, JourneysAreCounted
  <1>8. StateInv'
    BY <1>1 DEF IInv, StateInv, KnownTracks, StateRemembersLastEvent, TrajectoryIsRecent, Settled
  <1> QED BY <1>1, <1>4, <1>7, <1>8 DEF IInv

LEMMA TickKeeps ==
    ASSUME IInv, Tick
    PROVE  IInv'
  <1>1. UNCHANGED <<path, state, previous, lost, todo, missing, step, event, tracker, active,
                    completed, frames, missed, seen, done, last, since, back>>
    BY DEF Tick, tracking, journeys
  <1>2. age' = quiet' /\ age' \in [Key -> 0..Dedup] /\ quiet' \in [Key -> 0..Dedup]
    BY MovementConstants DEF Tick, IInv, TypeOK
  <1>3. TypeOK'
    BY <1>1, <1>2 DEF IInv, TypeOK, WithinBounds
  <1>4. UnderWay("ENTRY")' = UnderWay("ENTRY") /\ UnderWay("EXIT")' = UnderWay("EXIT")
    BY <1>1, UnderWayStays
  <1>5. CountInv'
    BY <1>1, <1>4 DEF IInv, CountInv, UnderWayHasEvent, JourneysAreCounted
  <1>6. StateInv'
    BY <1>1 DEF IInv, StateInv, KnownTracks, StateRemembersLastEvent, TrajectoryIsRecent, Settled
  <1> QED BY <1>2, <1>3, <1>5, <1>6 DEF IInv

------------------------------------------------------------------------------
(* An event is dealt with, a frame ends. *)

\* A journey that starts was counted as under way, and so was one that ends.
LEMMA JourneyKeeps ==
    ASSUME IInv, NEW g \in Gates, Journey(g)
    PROVE  IInv'
  <1> DEFINE e == event[g]
  <1> DEFINE key == JourneyKey(e)
  <1>1. /\ step[g] = "journey"
        /\ active' = IF e.type = "ENTRY" THEN active \cup {key} ELSE active \ {key}
        /\ completed' = IF e.type = "EXIT" /\ key \in active THEN completed + 1 ELSE completed
        /\ step' = [step EXCEPT ![g] = "tracks"] /\ event' = [event EXCEPT ![g] = NoEvent]
        /\ UNCHANGED <<path, state, previous, lost, age, todo, missing, tracker, frames, ticks,
                       quiet, missed, seen, done, last, since, back>>
    BY DEF Journey, tracking, sightings
  <1>2. e \in Event /\ e.type \in Directions /\ key \in Tracks \cup Persons
    BY <1>1 DEF IInv, CountInv, UnderWayHasEvent, Event, JourneyKey
  <1>3. TypeOK'
    <2> HIDE DEF e, key
    <2>1. event' \in [Gates -> Event \cup {NoEvent}]
      BY <1>1 DEF IInv, TypeOK
    <2>2. active' \subseteq Tracks \cup Persons /\ completed' \in Nat
      BY <1>1, <1>2 DEF IInv, TypeOK
    <2> QED BY <1>1, <2>1, <2>2 DEF IInv, TypeOK, WithinBounds
  <1>4. CountInv'
    <2>1. /\ UnderWay("ENTRY") = UnderWay("ENTRY")' + IF e.type = "ENTRY" THEN 1 ELSE 0
          /\ UnderWay("EXIT") = UnderWay("EXIT")' + IF e.type = "EXIT" THEN 1 ELSE 0
      BY <1>1, UnderWayEnds DEF IInv
    <2>2. /\ UnderWay("ENTRY") \in Nat /\ UnderWay("EXIT") \in Nat
          /\ UnderWay("ENTRY")' \in Nat /\ UnderWay("EXIT")' \in Nat
      <3>1. /\ UnderWay("ENTRY")' = Cardinality(Busy("ENTRY")')
            /\ UnderWay("EXIT")' = Cardinality(Busy("EXIT")')
        BY DEF UnderWay, Busy
      <3>2. Busy("ENTRY")' \subseteq Gates /\ Busy("EXIT")' \subseteq Gates
        BY DEF Busy
      <3> QED BY <3>1, <3>2, BusyFacts, FS_Subset, FS_CardinalityType, MovementConstants
    <2>3. /\ IsFiniteSet(active) /\ Cardinality(active) \in Nat
          /\ completed \in Nat /\ tracker.entries \in Nat /\ tracker.exits \in Nat
      BY FS_CardinalityType DEF IInv, CountInv, TypeOK, OccupancyType
    <2>4. /\ completed + Cardinality(active) + UnderWay("ENTRY") <= tracker.entries
          /\ completed + UnderWay("EXIT") <= tracker.exits
      BY DEF IInv, CountInv, JourneysAreCounted
    <2> HIDE DEF e, key
    <2>5. IsFiniteSet(active')
      BY <1>1, <2>3, FS_AddElement, FS_RemoveElement
    <2>6. UnderWayHasEvent'
      BY <1>1 DEF IInv, TypeOK, CountInv, UnderWayHasEvent
    <2>7. CASE e.type = "ENTRY"
      <3>1. active' = active \cup {key} /\ completed' = completed
        BY <1>1, <2>7
      <3>2. /\ Cardinality(active') <= Cardinality(active) + 1
            /\ Cardinality(active') \in Nat
        BY <3>1, <2>3, <2>5, FS_AddElement, FS_CardinalityType
      <3>3. UnderWay("ENTRY") = UnderWay("ENTRY")' + 1 /\ UnderWay("EXIT") = UnderWay("EXIT")'
        BY <2>1, <2>2, <2>7
      <3> QED BY <1>1, <2>2, <2>3, <2>4, <2>5, <2>6, <3>1, <3>2, <3>3
              DEF CountInv, JourneysAreCounted
    <2>8. CASE e.type = "EXIT"
      <3>1. active' = active \ {key}
        BY <1>1, <2>8
      <3>2. /\ Cardinality(active') = IF key \in active THEN Cardinality(active) - 1
                                      ELSE Cardinality(active)
            /\ completed' = IF key \in active THEN completed + 1 ELSE completed
        BY <1>1, <2>8, <3>1, <2>3, FS_RemoveElement
      <3>3. UnderWay("ENTRY") = UnderWay("ENTRY")' /\ UnderWay("EXIT") = UnderWay("EXIT")' + 1
        BY <2>1, <2>2, <2>8
      <3> QED BY <1>1, <2>2, <2>3, <2>4, <2>5, <2>6, <3>2, <3>3
              DEF CountInv, JourneysAreCounted
    <2> QED BY <1>2, <2>7, <2>8 DEF Directions
  <1>5. StateInv'
    BY <1>1 DEF IInv, StateInv, KnownTracks, StateRemembersLastEvent, TrajectoryIsRecent, Settled
  <1> QED BY <1>1, <1>3, <1>4, <1>5 DEF IInv

\* The tracks whose state goes are those whose history starts over.
LEMMA EndFrameKeeps ==
    ASSUME IInv, NEW g \in Gates, EndFrame(g)
    PROVE  IInv'
  <1> DEFINE known == {t \in missing[g] : path[t] # <<>>}
  <1> DEFINE gone == {t \in known : IsExpired(t)}
  <1> DEFINE losing == {t \in known \ gone : Loses(t)}
  <1> DEFINE away == {t \in missing[g] : missed[t] >= MaxLost}
  <1>1. /\ path' = [t \in Tracks |-> IF t \in gone THEN <<>> ELSE path[t]]
        /\ lost' = [t \in Tracks |-> IF t \in gone THEN 0
                                     ELSE IF t \in known THEN lost[t] + 1 ELSE lost[t]]
        /\ state' = [t \in Tracks |-> IF t \in gone THEN "UNKNOWN"
                                      ELSE IF t \in losing THEN "LOST" ELSE state[t]]
        /\ previous' = [t \in Tracks |-> IF t \in gone THEN "UNKNOWN"
                                         ELSE IF t \in losing THEN state[t] ELSE previous[t]]
    BY DEF EndFrame, MarkMissing
  <1>2. /\ step[g] = "tracks"
        /\ step' = [step EXCEPT ![g] = "idle"] /\ missing' = [missing EXCEPT ![g] = {}]
        /\ missed' = [t \in Tracks |-> IF t \in missing[g] /\ missed[t] <= MaxLost
                                       THEN missed[t] + 1 ELSE missed[t]]
        /\ seen' = [t \in Tracks |-> IF t \in away THEN 0 ELSE seen[t]]
        /\ done' = [t \in Tracks |-> IF t \in away THEN "NONE" ELSE done[t]]
        /\ UNCHANGED <<age, todo, event, tracker, active, completed, frames, ticks, quiet,
                       last, since, back>>
    BY DEF EndFrame, journeys
  <1>3. MaxLost \in Nat /\ Window \in Nat
    BY MovementConstants
  <1>4. \A t \in Tracks :
           /\ lost[t] \in 0..MaxLost /\ missed[t] \in 0..MaxLost + 1 /\ seen[t] \in 0..Window
           /\ state[t] \in States /\ previous[t] \in States /\ done[t] \in Outcome
           /\ path[t] \in Seq(Sides) /\ Len(path[t]) <= Window /\ Len(path[t]) \in Nat
    BY DEF IInv, TypeOK
  <1>5. \A t \in Tracks :
           /\ state[t] = "LOST" => previous[t] # "LOST"
           /\ path[t] = <<>> => state[t] = "UNKNOWN" /\ previous[t] = "UNKNOWN" /\ lost[t] = 0
           /\ path[t] # <<>> => lost[t] = missed[t]
           /\ Len(path[t]) <= seen[t]
    BY DEF IInv, StateInv, KnownTracks, TrajectoryIsRecent
  <1>6. \A t \in known : t \in gone <=> t \in away
    BY <1>3, <1>4, <1>5 DEF IInv, TypeOK, IsExpired
  <1>7. \A t \in gone : t \in Tracks
    BY DEF IInv, TypeOK
  <1>8. <<>> \in Seq(Sides) /\ Len(<<>>) = 0
    OBVIOUS
  <1>9. TypeOK'
    <2>1. path' \in [Tracks -> Seq(Sides)] /\ \A t \in Tracks : Len(path'[t]) <= Window
      BY <1>1, <1>3, <1>4, <1>8
    <2>2. state' \in [Tracks -> States] /\ previous' \in [Tracks -> States]
      BY <1>1, <1>4 DEF States
    <2>3. lost' \in [Tracks -> 0..MaxLost]
      BY <1>1, <1>3, <1>4 DEF IsExpired
    <2>4. missed' \in [Tracks -> 0..MaxLost + 1] /\ seen' \in [Tracks -> 0..Window]
      BY <1>2, <1>3, <1>4
    <2>5. done' \in [Tracks -> Outcome]
      BY <1>2, <1>4 DEF Outcome
    <2>6. step' \in [Gates -> {"idle", "tracks", "journey"}] /\ missing' \in [Gates -> SUBSET Tracks]
      BY <1>2 DEF IInv, TypeOK
    <2> HIDE DEF known, gone, losing, away
    <2> QED BY <1>2, <2>1, <2>2, <2>3, <2>4, <2>5, <2>6 DEF IInv, TypeOK, WithinBounds
  <1>10. KnownTracks'
    <2> SUFFICES ASSUME NEW t \in Tracks
                 PROVE  /\ state'[t] = "LOST" => previous'[t] # "LOST"
                        /\ path'[t] = <<>> =>
                              state'[t] = "UNKNOWN" /\ previous'[t] = "UNKNOWN" /\ lost'[t] = 0
                        /\ path'[t] # <<>> => lost'[t] = missed'[t]
      BY DEF KnownTracks
    <2>1. CASE t \in gone
      BY <1>1, <2>1
    <2>2. CASE t \in known \ gone
      <3>1. /\ path'[t] = path[t] /\ path[t] # <<>> /\ lost'[t] = lost[t] + 1
            /\ state'[t] = (IF Loses(t) THEN "LOST" ELSE state[t])
            /\ previous'[t] = IF Loses(t) THEN state[t] ELSE previous[t]
        BY <1>1, <2>2
      <3>2. missed[t] <= MaxLost /\ missed'[t] = missed[t] + 1
        BY <1>2, <1>3, <1>4, <1>6, <2>2
      <3> QED BY <1>5, <3>1, <3>2 DEF Loses
    <2>3. CASE t \notin known
      <3>1. /\ path'[t] = path[t] /\ lost'[t] = lost[t]
            /\ state'[t] = state[t] /\ previous'[t] = previous[t]
        BY <1>1, <2>3
      <3>2. path[t] # <<>> => missed'[t] = missed[t]
        BY <1>2, <2>3
      <3> QED BY <1>5, <3>1, <3>2
    <2> QED BY <2>1, <2>2, <2>3
  <1>11. StateRemembersLastEvent'
    <2> SUFFICES ASSUME NEW t \in Tracks
                 PROVE  (IF state'[t] = "LOST" THEN previous'[t] ELSE state'[t])
                          = CASE done'[t] = "ENTRY" -> "ENTERED" [] done'[t] = "EXIT" -> "EXITED"
                              [] done'[t] = "NONE" -> "UNKNOWN"
      BY DEF StateRemembersLastEvent
    <2>1. (IF state[t] = "LOST" THEN previous[t] ELSE state[t])
            = CASE done[t] = "ENTRY" -> "ENTERED" [] done[t] = "EXIT" -> "EXITED"
                [] done[t] = "NONE" -> "UNKNOWN"
      BY DEF IInv, StateInv, StateRemembersLastEvent
    <2>2. CASE t \in gone
      BY <1>1, <1>2, <1>6, <2>2
    <2>3. CASE t \in known \ gone
      <3>1. /\ state'[t] = (IF Loses(t) THEN "LOST" ELSE state[t])
            /\ previous'[t] = (IF Loses(t) THEN state[t] ELSE previous[t])
            /\ done'[t] = done[t]
        BY <1>1, <1>2, <1>6, <2>3
      <3> QED BY <2>1, <3>1 DEF Loses
    <2>4. CASE t \notin known
      <3>1. state'[t] = state[t] /\ previous'[t] = previous[t]
        BY <1>1, <2>4
      <3>2. CASE t \in away
        BY <1>2, <1>5, <2>4, <3>1, <3>2
      <3>3. CASE t \notin away
        BY <1>2, <2>1, <3>1, <3>3
      <3> QED BY <3>2, <3>3
    <2> QED BY <2>2, <2>3, <2>4
  <1>12. TrajectoryIsRecent'
    <2> SUFFICES ASSUME NEW t \in Tracks PROVE Len(path'[t]) <= seen'[t]
      BY DEF TrajectoryIsRecent
    <2>1. CASE t \in away
      BY <1>1, <1>2, <1>6, <1>8, <2>1
    <2>2. CASE t \notin away
      BY <1>1, <1>2, <1>4, <1>5, <1>8, <2>2
    <2> QED BY <2>1, <2>2
  <1>13. Settled'
    <2> SUFFICES ASSUME NEW t \in Tracks, last[t] # "NONE", ~back[t],
                        NEW i \in 1..Len(path'[t]), i > Len(path'[t]) - since[t]
                 PROVE  path'[t][i] = FarSide(last[t])
      BY <1>2 DEF Settled
    <2>1. path'[t] = path[t]
      BY <1>1, <1>8
    <2> QED BY <2>1 DEF IInv, StateInv, Settled
  <1>14. CountInv'
    <2>1. \A h \in Gates : (step'[h] = "journey") = (step[h] = "journey")
      BY <1>2 DEF IInv, TypeOK
    <2>2. UnderWay("ENTRY")' = UnderWay("ENTRY") /\ UnderWay("EXIT")' = UnderWay("EXIT")
      BY <1>2, <2>1, UnderWayStays
    <2> QED BY <1>2, <2>1, <2>2 DEF IInv, CountInv, UnderWayHasEvent, JourneysAreCounted
  <1> QED BY <1>2, <1>9, <1>10, <1>11, <1>12, <1>13, <1>14 DEF IInv, StateInv

------------------------------------------------------------------------------
(* A track is sighted. *)

\* What a sighting does whether it makes an event or not, and what it may make.
Sighting(t, side, e) ==
    /\ step[GateOf[t]] = "tracks"
    /\ path' = [path EXCEPT ![t] = AppendPoint(path[t], side)]
    /\ e.type = Crossing(GateOf[t], AppendPoint(path[t], side))
    /\ e.track = t /\ e.who \in {Unknown, PersonOf[t]}
    /\ \/ e \in Event /\ ~IsDuplicate(e) /\ LetThrough(t, e)
       \/ PassOver(t, side)
    /\ lost' = [lost EXCEPT ![t] = 0] /\ todo' = [todo EXCEPT ![GateOf[t]] = @ \ {t}]
    /\ missed' = [missed EXCEPT ![t] = 0] /\ seen' = [seen EXCEPT ![t] = Counted(@)]
    /\ UNCHANGED <<missing, active, completed, frames, ticks>>

LEMMA SightCases ==
    ASSUME IInv, NEW t \in Tracks, Sight(t)
    PROVE  \E side \in Sides : \E e : Sighting(t, side, e)
  <1> DEFINE g == GateOf[t]
  <1>1. g \in Gates /\ Accepted[g] \subseteq Directions /\ PersonOf[t] \in Persons
    BY MovementConstants
  <1>2. PICK side \in Sides, who \in {Unknown, PersonOf[t]} :
           LET p == AppendPoint(path[t], side)
               type == Crossing(g, p)
               e == [type |-> type, track |-> t, who |-> who]
           IN  /\ path' = [path EXCEPT ![t] = p]
               /\ IF type \in Accepted[g] /\ ~IsDuplicate(e) THEN LetThrough(t, e)
                  ELSE PassOver(t, side)
    BY DEF Sight
  <1> DEFINE type == Crossing(g, AppendPoint(path[t], side))
  <1> DEFINE e == [type |-> type, track |-> t, who |-> who]
  <1>3. type \in Accepted[g] => e \in Event
    BY <1>1 DEF Event
  <1>4. Sighting(t, side, e)
    BY <1>2, <1>3 DEF Sighting, Sight, journeys
  <1> QED BY <1>4

\* The trajectory grows with what was seen.
LEMMA SightingPath ==
    ASSUME IInv, NEW t \in Tracks, NEW side \in Sides, NEW e, Sighting(t, side, e)
    PROVE  /\ path' \in [Tracks -> Seq(Sides)]
           /\ \A u \in Tracks : Len(path'[u]) <= Window /\ Len(path'[u]) <= seen'[u]
           /\ path'[t] = AppendPoint(path[t], side) /\ path'[t] # <<>>
           /\ \A u \in Tracks \ {t} : path'[u] = path[u]
           /\ lost' \in [Tracks -> 0..MaxLost] /\ missed' \in [Tracks -> 0..MaxLost + 1]
           /\ seen' \in [Tracks -> 0..Window]
           /\ lost'[t] = 0 /\ missed'[t] = 0
           /\ \A u \in Tracks \ {t} : lost'[u] = lost[u] /\ missed'[u] = missed[u]
           /\ todo' \in [Gates -> SUBSET Tracks]
  <1>1. /\ path \in [Tracks -> Seq(Sides)] /\ lost \in [Tracks -> 0..MaxLost]
        /\ missed \in [Tracks -> 0..MaxLost + 1] /\ seen \in [Tracks -> 0..Window]
        /\ todo \in [Gates -> SUBSET Tracks]
        /\ \A u \in Tracks : Len(path[u]) <= Window /\ Len(path[u]) <= seen[u]
    BY DEF IInv, TypeOK, StateInv, TrajectoryIsRecent
  <1>2. MaxLost \in Nat /\ Window \in Nat
    BY MovementConstants
  <1> DEFINE q == AppendPoint(path[t], side)
  <1>3. /\ q \in Seq(Sides) /\ q # <<>> /\ Len(q) <= Window
        /\ Len(q) = IF Len(path[t]) < Window THEN Len(path[t]) + 1 ELSE Window
    BY <1>1, AppendFacts
  <1>4. /\ path' = [path EXCEPT ![t] = q]
        /\ lost' = [lost EXCEPT ![t] = 0] /\ todo' = [todo EXCEPT ![GateOf[t]] = @ \ {t}]
        /\ missed' = [missed EXCEPT ![t] = 0] /\ seen' = [seen EXCEPT ![t] = Counted(@)]
    BY DEF Sighting
  <1> HIDE DEF q
  <1>5. /\ seen' \in [Tracks -> 0..Window] /\ \A u \in Tracks \ {t} : seen'[u] = seen[u]
        /\ seen'[t] = IF seen[t] < Window THEN seen[t] + 1 ELSE Window
    BY <1>1, <1>2, <1>4 DEF Counted
  <1>6. Len(path[t]) \in Nat /\ seen[t] \in Nat
    BY <1>1
  <1>7. Len(q) <= seen'[t]
    BY <1>1, <1>2, <1>3, <1>5, <1>6
  <1>8. \A u \in Tracks : Len(path'[u]) <= Window /\ Len(path'[u]) <= seen'[u]
    BY <1>1, <1>3, <1>4, <1>5, <1>7
  <1>9. /\ path' \in [Tracks -> Seq(Sides)] /\ path'[t] = q
        /\ \A u \in Tracks \ {t} : path'[u] = path[u]
    BY <1>1, <1>3, <1>4
  <1>10. /\ lost' \in [Tracks -> 0..MaxLost] /\ missed' \in [Tracks -> 0..MaxLost + 1]
         /\ lost'[t] = 0 /\ missed'[t] = 0
         /\ \A u \in Tracks \ {t} : lost'[u] = lost[u] /\ missed'[u] = missed[u]
    BY <1>1, <1>2, <1>4
  <1>11. todo' \in [Gates -> SUBSET Tracks]
    BY <1>1, <1>4
  <1> QED BY <1>3, <1>5, <1>8, <1>9, <1>10, <1>11 DEF q

\* A track that was just seen is known, and the others are left alone.
LEMMA KnownStays ==
    ASSUME KnownTracks, NEW t \in Tracks,
           path'[t] # <<>>, state'[t] # "LOST", lost'[t] = missed'[t],
           \A u \in Tracks \ {t} : /\ path'[u] = path[u] /\ lost'[u] = lost[u]
                                   /\ missed'[u] = missed[u]
                                   /\ state'[u] = state[u] /\ previous'[u] = previous[u]
    PROVE  KnownTracks'
  <1> SUFFICES ASSUME NEW u \in Tracks
               PROVE  /\ state'[u] = "LOST" => previous'[u] # "LOST"
                      /\ path'[u] = <<>> => /\ state'[u] = "UNKNOWN"
                                            /\ previous'[u] = "UNKNOWN" /\ lost'[u] = 0
                      /\ path'[u] # <<>> => lost'[u] = missed'[u]
    BY DEF KnownTracks
  <1>1. CASE u = t
    BY <1>1
  <1>2. CASE u # t
    BY <1>2 DEF KnownTracks
  <1> QED BY <1>1, <1>2

\* A sighting that makes no event leaves the track in the state it was in before it
\* was lost.
LEMMA PassOverKeeps ==
    ASSUME IInv, NEW t \in Tracks, NEW side \in Sides, NEW e, Sighting(t, side, e),
           PassOver(t, side)
    PROVE  IInv'
  <1>1. /\ MoveTo(t, Recovered(t))
        /\ UNCHANGED <<age, tracker, step, event, quiet, done, last>>
        /\ since' = [since EXCEPT ![t] = Counted(@)]
        /\ back' = [back EXCEPT ![t] = @ \/ (last[t] # "NONE" /\ side # FarSide(last[t]))]
        /\ UNCHANGED <<missing, active, completed, frames, ticks>>
    BY DEF PassOver, Sighting
  <1>2. TypeOK /\ KnownTracks /\ StateRemembersLastEvent /\ Settled
    BY DEF IInv, StateInv
  <1>3. /\ Recovered(t) \in States \ {"LOST"}
        /\ Recovered(t) = CASE done[t] = "ENTRY" -> "ENTERED" [] done[t] = "EXIT" -> "EXITED"
                            [] done[t] = "NONE" -> "UNKNOWN"
    BY <1>2, RecoveredFacts
  <1>4. /\ state' \in [Tracks -> States] /\ previous' \in [Tracks -> States]
        /\ state'[t] = Recovered(t)
        /\ \A u \in Tracks \ {t} : state'[u] = state[u] /\ previous'[u] = previous[u]
    BY <1>1, <1>2, <1>3, MoveFacts
  <1>5. Window \in Nat /\ \A u \in Tracks : since[u] \in 0..Window /\ back[u] \in BOOLEAN
    BY <1>2, MovementConstants DEF TypeOK
  <1>6. /\ since' \in [Tracks -> 0..Window] /\ back' \in [Tracks -> BOOLEAN]
        /\ since'[t] = IF since[t] < Window THEN since[t] + 1 ELSE Window
        /\ \A u \in Tracks \ {t} : since'[u] = since[u] /\ back'[u] = back[u]
        /\ back'[t] = (back[t] \/ (last[t] # "NONE" /\ side # FarSide(last[t])))
    BY <1>1, <1>2, <1>5 DEF TypeOK, Counted
  <1>7. TypeOK'
    BY <1>1, <1>2, <1>4, <1>6, SightingPath DEF TypeOK, WithinBounds
  <1>8. KnownTracks'
    <2>1. /\ path'[t] # <<>> /\ state'[t] # "LOST" /\ lost'[t] = missed'[t]
          /\ \A u \in Tracks \ {t} : /\ path'[u] = path[u] /\ lost'[u] = lost[u]
                                     /\ missed'[u] = missed[u]
      BY <1>3, <1>4, SightingPath
    <2> QED BY <1>2, <1>4, <2>1, KnownStays
  <1>9. StateRemembersLastEvent'
    BY <1>1, <1>2, <1>3, <1>4 DEF StateRemembersLastEvent
  <1>10. TrajectoryIsRecent'
    BY SightingPath DEF TrajectoryIsRecent
  <1>11. Settled'
    <2> SUFFICES ASSUME NEW u \in Tracks, last[u] # "NONE", ~back'[u],
                        NEW i \in 1..Len(path'[u]), i > Len(path'[u]) - since'[u]
                 PROVE  path'[u][i] = FarSide(last[u])
      BY <1>1 DEF Settled
    <2>1. CASE u # t
      <3>1. path'[u] = path[u] /\ since'[u] = since[u] /\ ~back[u]
        BY <1>6, <2>1, SightingPath
      <3> QED BY <1>2, <3>1 DEF Settled
    <2>2. CASE u = t
      <3> DEFINE p == path[t]
      <3> DEFINE q == path'[t]
      <3>1. p \in Seq(Sides) /\ Len(p) \in Nat /\ Len(p) <= Window
        BY <1>2 DEF TypeOK
      <3>2. /\ Len(q) = IF Len(p) < Window THEN Len(p) + 1 ELSE Window
            /\ q[Len(q)] = side
            /\ \A j \in 1..(Len(q) - 1) : q[j] = p[j + (Len(p) + 1 - Len(q))]
        <4>1. q = AppendPoint(p, side)
          BY SightingPath
        <4> DEFINE r == AppendPoint(p, side)
        <4> HIDE DEF p, q
        <4>2. /\ Len(r) = IF Len(p) < Window THEN Len(p) + 1 ELSE Window
              /\ r[Len(r)] = side
              /\ \A j \in 1..(Len(r) - 1) : r[j] = p[j + (Len(p) + 1 - Len(r))]
          BY <3>1, AppendFacts
        <4>3. q = r
          BY <4>1
        <4> HIDE DEF r
        <4> QED BY <4>2, <4>3
      <3>3. side = FarSide(last[t]) /\ ~back[t]
        BY <1>6, <2>2
      <3>4. \A j \in 1..Len(p) : j > Len(p) - since[t] => p[j] = FarSide(last[t])
        BY <1>2, <2>2, <3>3 DEF Settled
      <3> HIDE DEF p, q
      <3>5. CASE i = Len(q)
        BY <2>2, <3>2, <3>3, <3>5 DEF q
      <3>6. CASE i # Len(q)
        <4> DEFINE j == i + (Len(p) + 1 - Len(q))
        <4>1. i \in 1..(Len(q) - 1) /\ i > Len(q) - since'[t]
          BY <2>2, <3>1, <3>2, <3>6, <1>5 DEF q
        <4>2. j \in 1..Len(p) /\ j > Len(p) - since[t]
          <5>1. since[t] \in 0..Window /\ since'[t] \in 0..Window /\ since'[t] <= since[t] + 1
            BY <1>5, <1>6
          <5>2. Len(q) \in Nat /\ Len(q) <= Len(p) + 1 /\ Len(q) >= Len(p)
            BY <1>5, <3>1, <3>2
          <5> QED BY <3>1, <4>1, <5>1, <5>2, <1>5
        <4>3. q[i] = p[j]
          BY <3>2, <4>1
        <4> QED BY <2>2, <3>4, <4>2, <4>3 DEF q
      <3> QED BY <3>5, <3>6
    <2> QED BY <2>1, <2>2
  <1>12. CountInv'
    BY <1>1, UnderWayStays DEF IInv, CountInv, UnderWayHasEvent, JourneysAreCounted
  <1> QED BY <1>1, <1>7, <1>8, <1>9, <1>10, <1>11, <1>12 DEF IInv, StateInv

\* A crossing that makes an event is counted, and the track's history begins anew.
LEMMA LetThroughKeeps ==
    ASSUME IInv, NEW t \in Tracks, NEW side \in Sides, NEW e, Sighting(t, side, e),
           e \in Event, LetThrough(t, e)
    PROVE  IInv'
  <1> DEFINE g == GateOf[t]
  <1> DEFINE after == IF e.type = "ENTRY" THEN "ENTERED" ELSE "EXITED"
  <1>1. /\ age' = RecordEvent(e) /\ quiet' = Stamped(quiet, e)
        /\ MoveTo(t, after)
        /\ tracker' = IF e.type = "ENTRY" THEN RecordEntry(tracker, g) ELSE RecordExit(tracker, g)
        /\ step[g] = "tracks"
        /\ step' = [step EXCEPT ![g] = "journey"] /\ event' = [event EXCEPT ![g] = e]
        /\ done' = [done EXCEPT ![t] = e.type] /\ last' = [last EXCEPT ![t] = e.type]
        /\ since' = [since EXCEPT ![t] = 0] /\ back' = [back EXCEPT ![t] = FALSE]
        /\ UNCHANGED <<missing, active, completed, frames, ticks>>
    BY DEF LetThrough, Sighting
  <1>2. TypeOK /\ KnownTracks /\ StateRemembersLastEvent /\ Settled /\ CountInv /\ age = quiet
    BY DEF IInv, StateInv
  <1>3. g \in Gates /\ e.type \in Directions /\ after \in States \ {"LOST"}
    BY MovementConstants DEF Event, States
  <1>4. /\ state' \in [Tracks -> States] /\ previous' \in [Tracks -> States]
        /\ state'[t] = after
        /\ \A u \in Tracks \ {t} : state'[u] = state[u] /\ previous'[u] = previous[u]
    BY <1>1, <1>2, <1>3, MoveFacts
  <1>5. /\ tracker' \in OccupancyType /\ WithinBounds(tracker')
        /\ tracker'.entries = tracker.entries + IF e.type = "ENTRY" THEN 1 ELSE 0
        /\ tracker'.exits = tracker.exits + IF e.type = "EXIT" THEN 1 ELSE 0
    <2>1. tracker \in OccupancyType /\ WithinBounds(tracker)
      BY <1>2 DEF TypeOK
    <2>2. tracker.entries \in Nat /\ tracker.exits \in Nat
      BY <2>1 DEF OccupancyType
    <2>3. CASE e.type = "ENTRY"
      <3>1. tracker' = RecordEntry(tracker, g)
        BY <1>1, <2>3
      <3> QED BY <1>3, <2>1, <2>2, <2>3, <3>1, EntryFacts
    <2>4. CASE e.type = "EXIT"
      <3>1. tracker' = RecordExit(tracker, g)
        BY <1>1, <2>4
      <3> QED BY <1>3, <2>1, <2>2, <2>4, <3>1, ExitFacts
    <2> QED BY <1>3, <2>3, <2>4 DEF Directions
  <1>6. /\ age' = quiet' /\ age' \in [Key -> 0..Dedup]
    BY <1>1, <1>2, MovementConstants DEF RecordEvent, Stamped, TypeOK
  <1>7. /\ done' \in [Tracks -> Outcome] /\ last' \in [Tracks -> Outcome]
        /\ since' \in [Tracks -> 0..Window] /\ back' \in [Tracks -> BOOLEAN]
    BY <1>1, <1>2, <1>3, MovementConstants DEF TypeOK, Outcome
  <1>8. /\ step' \in [Gates -> {"idle", "tracks", "journey"}]
        /\ event' \in [Gates -> Event \cup {NoEvent}]
    BY <1>1, <1>2 DEF TypeOK
  <1>9. TypeOK'
    <2>1. WithinBounds(tracker)'
      BY <1>5 DEF WithinBounds
    <2> QED BY <1>1, <1>2, <1>4, <1>5, <1>6, <1>7, <1>8, <2>1, SightingPath DEF TypeOK
  <1>10. KnownTracks'
    <2>1. /\ path'[t] # <<>> /\ state'[t] # "LOST" /\ lost'[t] = missed'[t]
          /\ \A u \in Tracks \ {t} : /\ path'[u] = path[u] /\ lost'[u] = lost[u]
                                     /\ missed'[u] = missed[u]
      BY <1>3, <1>4, SightingPath
    <2> QED BY <1>2, <1>4, <2>1, KnownStays
  <1>11. StateRemembersLastEvent'
    <2> SUFFICES ASSUME NEW u \in Tracks
                 PROVE  (IF state'[u] = "LOST" THEN previous'[u] ELSE state'[u])
                          = CASE done'[u] = "ENTRY" -> "ENTERED" [] done'[u] = "EXIT" -> "EXITED"
                              [] done'[u] = "NONE" -> "UNKNOWN"
      BY DEF StateRemembersLastEvent
    <2>1. CASE u = t
      <3>1. done'[t] = e.type
        BY <1>1, <1>2 DEF TypeOK
      <3> QED BY <1>3, <1>4, <2>1, <3>1 DEF Directions
    <2>2. CASE u # t
      <3>1. done'[u] = done[u]
        BY <1>1, <2>2
      <3> QED BY <1>2, <1>4, <2>2, <3>1 DEF StateRemembersLastEvent
    <2> QED BY <2>1, <2>2
  <1>12. TrajectoryIsRecent'
    BY SightingPath DEF TrajectoryIsRecent
  <1>13. Settled'
    <2> SUFFICES ASSUME NEW u \in Tracks, last'[u] # "NONE", ~back'[u],
                        NEW i \in 1..Len(path'[u]), i > Len(path'[u]) - since'[u]
                 PROVE  path'[u][i] = FarSide(last'[u])
      BY DEF Settled
    <2>1. CASE u = t
      <3>1. since'[t] = 0 /\ Len(path'[t]) \in Nat
        BY <1>1, <1>2, SightingPath DEF TypeOK
      <3> QED BY <2>1, <3>1
    <2>2. CASE u # t
      <3>1. /\ path'[u] = path[u] /\ since'[u] = since[u]
            /\ last'[u] = last[u] /\ back'[u] = back[u]
        BY <1>1, <2>2, SightingPath
      <3> QED BY <1>2, <3>1 DEF Settled
    <2> QED BY <2>1, <2>2
  <1>14. CountInv'
    <2>1. /\ UnderWay("ENTRY")' = UnderWay("ENTRY") + IF e.type = "ENTRY" THEN 1 ELSE 0
          /\ UnderWay("EXIT")' = UnderWay("EXIT") + IF e.type = "EXIT" THEN 1 ELSE 0
      BY <1>1, <1>2, <1>3, UnderWayAdds
    <2>2. UnderWayHasEvent'
      BY <1>1, <1>2 DEF TypeOK, CountInv, UnderWayHasEvent
    <2>3. /\ UnderWay("ENTRY") \in Nat /\ UnderWay("EXIT") \in Nat
          /\ Cardinality(active) \in Nat /\ completed \in Nat
          /\ tracker.entries \in Nat /\ tracker.exits \in Nat
      BY <1>2, BusyFacts, FS_CardinalityType DEF CountInv, TypeOK, OccupancyType
    <2>4. /\ completed + Cardinality(active) + UnderWay("ENTRY") <= tracker.entries
          /\ completed + UnderWay("EXIT") <= tracker.exits
      BY <1>2 DEF CountInv, JourneysAreCounted
    <2>5. /\ completed + Cardinality(active) + UnderWay("ENTRY")' <= tracker'.entries
          /\ completed + UnderWay("EXIT")' <= tracker'.exits
      BY <1>5, <2>1, <2>3, <2>4
    <2> QED BY <1>1, <1>2, <2>2, <2>5 DEF CountInv, JourneysAreCounted
  <1> QED BY <1>6, <1>9, <1>10, <1>11, <1>12, <1>13, <1>14 DEF IInv, StateInv

LEMMA SightKeeps ==
    ASSUME IInv, NEW t \in Tracks, Sight(t)
    PROVE  IInv'
  <1>1. PICK side \in Sides : \E e : Sighting(t, side, e)
    BY SightCases
  <1>2. PICK e : Sighting(t, side, e)
    BY <1>1
  <1>3. CASE e \in Event /\ LetThrough(t, e)
    BY <1>2, <1>3, LetThroughKeeps
  <1>4. CASE PassOver(t, side)
    BY <1>2, <1>4, PassOverKeeps
  <1> QED BY <1>2, <1>3, <1>4 DEF Sighting

------------------------------------------------------------------------------
(* The theorems. *)

LEMMA StutterKeeps == ASSUME IInv, UNCHANGED vars PROVE IInv'
  <1>1. UNCHANGED <<path, state, previous, lost, age, todo, missing, step, event, tracker,
                    active, completed, frames, ticks, quiet, missed, seen, done, last, since, back>>
    BY DEF vars
  <1>2. UnderWay("ENTRY")' = UnderWay("ENTRY") /\ UnderWay("EXIT")' = UnderWay("EXIT")
    BY <1>1, UnderWayStays
  <1>3. TypeOK'
    BY <1>1 DEF IInv, TypeOK, WithinBounds
  <1>4. StateInv'
    BY <1>1 DEF IInv, StateInv, KnownTracks, StateRemembersLastEvent, TrajectoryIsRecent, Settled
  <1>5. CountInv'
    BY <1>1, <1>2 DEF IInv, CountInv, UnderWayHasEvent, JourneysAreCounted
  <1> QED BY <1>1, <1>3, <1>4, <1>5 DEF IInv

LEMMA StepInvariant == IInv /\ [Next]_vars => IInv'
  <1> SUFFICES ASSUME IInv, [Next]_vars PROVE IInv'
    OBVIOUS
  <1>1. CASE \E g \in Gates : BeginFrame(g) \/ Journey(g) \/ EndFrame(g)
    BY <1>1, BeginFrameKeeps, JourneyKeeps, EndFrameKeeps
  <1>2. CASE \E t \in Tracks : Sight(t)
    BY <1>2, SightKeeps
  <1>3. CASE Tick
    BY <1>3, TickKeeps
  <1>4. CASE UNCHANGED vars
    BY <1>4, StutterKeeps
  <1> QED BY <1>1, <1>2, <1>3, <1>4 DEF Next

\* The history and the engine's state stay tied together in every step of any
\* cameras, tracks and identities.
THEOREM Invariance == Spec => []IInv
  BY InitInvariant, StepInvariant, PTL DEF Spec

\* Every value process_frame keeps has its type, frames_lost and trajectories their
\* bounds included.
THEOREM TypeCorrect == Spec => []TypeOK
  BY Invariance, PTL DEF IInv

\* mark_lost and update_position never lose what a track last did.
THEOREM Remembers == Spec => []StateRemembersLastEvent
  <1>1. IInv => StateRemembersLastEvent
    BY DEF IInv, StateInv
  <1> QED BY <1>1, Invariance, PTL

\* A trajectory never reaches back over an absence of more than MaxLost frames.
THEOREM Recent == Spec => []TrajectoryIsRecent
  <1>1. IInv => TrajectoryIsRecent
    BY DEF IInv, StateInv
  <1> QED BY <1>1, Invariance, PTL

\* Journeys stem from counted entries and end with counted exits, whatever the
\* threads of the cameras do between record_entry and start_journey.
THEOREM JourneysCounted == Spec => []JourneysAreCounted
  <1>1. IInv => JourneysAreCounted
    BY DEF IInv, CountInv
  <1> QED BY <1>1, Invariance, PTL

\* Only a sighting at the gate lets an event through, and it is the event's.
LEMMA EmitsFacts ==
    ASSUME IInv, [Next]_vars, NEW g \in Gates, Emits(g)
    PROVE  \E t \in Tracks, side \in Sides, e \in Event :
              /\ g = GateOf[t] /\ Sighting(t, side, e) /\ event'[g] = e
              /\ ~IsDuplicate(e) /\ e.type = Crossing(g, AppendPoint(path[t], side))
              /\ e.track = t
  <1>1. step[g] = "tracks" /\ step'[g] = "journey"
    BY DEF Emits
  <1>2. TypeOK
    BY DEF IInv
  <1>3. PICK t \in Tracks : Sight(t)
    <2>1. ~\E h \in Gates : BeginFrame(h) \/ Journey(h) \/ EndFrame(h)
      BY <1>1, <1>2 DEF BeginFrame, Journey, EndFrame, TypeOK
    <2>2. ~Tick /\ ~UNCHANGED vars
      BY <1>1 DEF Tick, vars
    <2> QED BY <2>1, <2>2 DEF Next
  <1>4. PICK side \in Sides : \E e : Sighting(t, side, e)
    BY <1>3, SightCases
  <1>5. PICK e : Sighting(t, side, e)
    BY <1>4
  <1>6. e \in Event /\ ~IsDuplicate(e) /\ LetThrough(t, e)
    BY <1>1, <1>5 DEF Sighting, PassOver
  <1>7. g = GateOf[t] /\ event'[g] = e
    BY <1>1, <1>2, <1>6 DEF LetThrough, TypeOK
  <1> QED BY <1>5, <1>6, <1>7 DEF Sighting

\* is_duplicate and record_event let a track, or a person, make one event of a
\* direction at a gate per window, however many tracks show the person.
THEOREM OncePer == Spec => OncePerWindow
  <1>1. IInv /\ [Next]_vars =>
          \A g \in Gates : Emits(g) => \A k \in KeysOf(event'[g]) : quiet[k] = Dedup
    <2> SUFFICES ASSUME IInv, [Next]_vars, NEW g \in Gates, Emits(g), NEW k \in KeysOf(event'[g])
                 PROVE  quiet[k] = Dedup
      OBVIOUS
    <2>1. PICK e \in Event : event'[g] = e /\ ~IsDuplicate(e)
      BY EmitsFacts
    <2>2. k \in Key
      BY <2>1, MovementConstants DEF KeysOf, TrackKey, IdentityKey, Key, Event
    <2>3. age[k] \in 0..Dedup /\ age[k] = quiet[k] /\ ~(age[k] < Dedup)
      BY <2>1, <2>2 DEF IInv, TypeOK, IsDuplicate
    <2> QED BY <2>3, MovementConstants
  <1> QED BY <1>1, Invariance, PTL DEF Spec, OncePerWindow

\* However the deduplicator is set, one crossing is found again only as long as the
\* trajectory holds a point from before it.
THEOREM DieOut == Spec => RepeatsDieOut
  <1>1. IInv /\ [Next]_vars =>
          \A g \in Gates : Emits(g) =>
            LET t == event'[g].track
            IN  event'[g].type = last[t] /\ ~back[t] => since[t] + 1 < Window
    <2> SUFFICES ASSUME IInv, [Next]_vars, NEW g \in Gates, Emits(g),
                        event'[g].type = last[event'[g].track], ~back[event'[g].track],
                        ~(since[event'[g].track] + 1 < Window)
                 PROVE  FALSE
      OBVIOUS
    <2>1. PICK t \in Tracks, side \in Sides, e \in Event :
             /\ event'[g] = e /\ e.track = t
             /\ e.type = Crossing(g, AppendPoint(path[t], side))
      BY EmitsFacts
    <2> DEFINE p == path[t]
    <2> DEFINE q == AppendPoint(p, side)
    <2>2. /\ p \in Seq(Sides) /\ Len(p) \in Nat /\ Len(p) <= Window
          /\ since[t] \in 0..Window /\ Window \in Nat
      BY MovementConstants DEF IInv, TypeOK
    <2>3. /\ q \in Seq(Sides)
          /\ Len(q) = IF Len(p) < Window THEN Len(p) + 1 ELSE Window
          /\ \A i \in 1..(Len(q) - 1) : q[i] = p[i + (Len(p) + 1 - Len(q))]
      BY <2>2, AppendFacts
    <2>4. e.type = last[t] /\ ~back[t] /\ since[t] + 1 >= Window /\ e.type \in Directions
      BY <2>1, <2>2 DEF Event
    <2>5. \A i \in 1..Len(p) : i > Len(p) - since[t] => p[i] = FarSide(e.type)
      BY <2>4 DEF IInv, StateInv, Settled, Directions
    <2>6. Len(q) >= 2 /\ q[1] # FarSide(e.type)
      <3>1. Crossing(g, q) # "NONE"
        BY <2>1, <2>4 DEF Directions
      <3> QED BY <2>1, <2>3, <3>1, CrossingLeaves
    <2> HIDE DEF p, q
    <2>7. Len(p) + 2 - Len(q) \in 1..Len(p) /\ Len(p) + 2 - Len(q) > Len(p) - since[t]
      <3>1. CASE Len(p) < Window
        <4>1. Len(q) = Len(p) + 1
          BY <2>3, <3>1
        <4>2. Len(p) + 2 - Len(q) = 1 /\ Len(p) >= 1 /\ since[t] >= Len(p)
          BY <2>2, <2>4, <2>6, <3>1, <4>1
        <4> QED BY <2>2, <4>2
      <3>2. CASE Len(p) = Window
        <4>1. Len(q) = Window
          BY <2>3, <3>2
        <4>2. Len(p) + 2 - Len(q) = 2 /\ Len(p) >= 2 /\ since[t] >= Len(p) - 1
          BY <2>2, <2>4, <2>6, <3>2, <4>1
        <4> QED BY <2>2, <4>2
      <3> QED BY <2>2, <3>1, <3>2
    <2>8. q[1] = p[Len(p) + 2 - Len(q)]
      <3>1. 1 \in 1..(Len(q) - 1) /\ 1 + (Len(p) + 1 - Len(q)) = Len(p) + 2 - Len(q)
        BY <2>2, <2>3, <2>6
      <3> QED BY <2>3, <3>1
    <2> QED BY <2>5, <2>6, <2>7, <2>8
  <1> QED BY <1>1, Invariance, PTL DEF Spec, RepeatsDieOut
=============================================================================
