--------------------------------- MODULE Vision ---------------------------------
(***************************************************************************)
(* RecognitionEngine of ai-engine/recognition on the tracks of a camera.   *)
(*                                                                         *)
(* process_tracking_result recognises the tracks of a frame one by one and *)
(* passes what it saw through the temporal stabilizer. A frame is one      *)
(* step: the engine is called with the tracker's result before the next    *)
(* frame of the camera. Faces and embeddings are not modelled: what the    *)
(* recognizer returns of a track is any sighting that the identity store   *)
(* allows.                                                                 *)
(***************************************************************************)
EXTENDS Tracking, Sequences

CONSTANTS
    Identities,   \* identities that may be enrolled
    Confirm,      \* TEMPORAL_CONFIRMATION_FRAMES
    Unknown       \* identity_id "UNKNOWN", and no stable identity

ASSUME VisionConstants == Confirm \in Nat \ {0} /\ Unknown \notin Identities

VARIABLES
    store,     \* identities in the store
    window,    \* history of a track: the observations a decision is made on
    stable,    \* stable_identity_id, Unknown while is_stable is false
    report,    \* what the last frame that showed the track reported of it
    streak     \* history: the current run of matches of one identity
               \* and the identity of the last one that was long enough

recognition == <<window, stable, report, streak>>
vars == <<frame, created, tracked, lost, last, known, missing, store, window, stable,
          report, streak>>

\* BAD is NO_FACE, QUALITY_REJECTED or ERROR; RAISED an exception of the recognizer.
Sight == [status : {"BAD", "RAISED", "UNKNOWN"}, who : {Unknown}]
            \cup [status : {"LOW_CONFIDENCE", "MATCHED"}, who : Identities]
NoReport == [status |-> "NONE", who |-> Unknown]
NoStreak == [who |-> Unknown, length |-> 0, settled |-> Unknown]

VisionTypeOK ==
    /\ TypeOK /\ store \subseteq Identities
    /\ window \in [Tracks -> Seq(Sight)] /\ stable \in [Tracks -> Identities \cup {Unknown}]
    /\ report \in [Tracks -> Sight \cup {NoReport}]

VisionInit ==
    /\ Init /\ store = {}
    /\ window = [t \in Tracks |-> <<>>] /\ stable = [t \in Tracks |-> Unknown]
    /\ report = [t \in Tracks |-> NoReport] /\ streak = [t \in Tracks |-> NoStreak]
-----------------------------------------------------------------------------
(***************************************************************************)
(* The identity store.                                                     *)
(***************************************************************************)
AddIdentity(i) ==
    /\ store' = store \cup {i}
    /\ UNCHANGED <<tracking, recognition>>

RemoveIdentity(i) ==
    /\ i \in store
    /\ store' = store \ {i}
    /\ UNCHANGED <<tracking, recognition>>

\* match_embedding: the nearest identity of the store, by how near it is.
MatchResults == {s \in Sight :
    \/ s.status = "UNKNOWN"
    \/ s.status \in {"LOW_CONFIDENCE", "MATCHED"} /\ s.who \in store}

\* recognize_face_in_track: a match, an early return or an exception.
Sightings == MatchResults \cup {s \in Sight : s.status \in {"BAD", "RAISED"}}
-----------------------------------------------------------------------------
(***************************************************************************)
(* The stabilizer.                                                         *)
(***************************************************************************)
\* Mutant: every sighting is recorded.
RecordsAll(s) == s.status # "RAISED"

Records(s) == s.status \notin {"BAD", "RAISED"}

\* deque(maxlen = confirmation_frames).append
AppendSight(w, s) ==
    LET all == Append(w, s)
    IN  IF Len(all) > Confirm THEN Tail(all) ELSE all

Confirmed(w, s) ==
    s.status = "MATCHED" /\ Len(w) >= Confirm /\ \A k \in DOMAIN w : w[k] = s

\* Mutant: the state of any track of the camera is taken.
EffectiveOfCamera(t, s) ==
    IF s.status = "BAD" /\ \E u \in tracked : stable[u] # Unknown
    THEN [status |-> "MATCHED",
          who |-> stable[CHOOSE u \in tracked : stable[u] # Unknown]]
    ELSE s

\* What update returns: a bad frame of a stable track reports the stable identity. An
\* exception does not reach the stabilizer.
Effective(t, s) ==
    IF s.status = "BAD" /\ stable[t] # Unknown
    THEN [status |-> "MATCHED", who |-> stable[t]]
    ELSE s

\* The run of matches that s continues, breaks or, as a bad frame, leaves alone.
Continue(r, s) ==
    IF s.status \in {"BAD", "RAISED"} THEN r
    ELSE IF s.status # "MATCHED" THEN [who |-> Unknown, length |-> 0, settled |-> r.settled]
    ELSE LET n == IF s.who = r.who THEN r.length + 1 ELSE 1
         IN  [who |-> s.who, length |-> IF n > Confirm THEN Confirm ELSE n,
              settled |-> IF n >= Confirm THEN s.who ELSE r.settled]

\* process_tracking_result: seen is what the recognizer returned of the shown tracks.
Recognize(seen) ==
    /\ window' = [t \in Tracks |->
            IF t \in DOMAIN seen /\ Records(seen[t])
            THEN AppendSight(window[t], seen[t]) ELSE window[t]]
    /\ stable' = [t \in Tracks |->
            IF t \in DOMAIN seen /\ Records(seen[t]) /\ Confirmed(window'[t], seen[t])
            THEN seen[t].who ELSE stable[t]]
    /\ report' = [t \in Tracks |->
            IF t \in DOMAIN seen THEN Effective(t, seen[t]) ELSE report[t]]
    /\ streak' = [t \in Tracks |->
            IF t \in DOMAIN seen THEN Continue(streak[t], seen[t]) ELSE streak[t]]
-----------------------------------------------------------------------------
\* A frame through tracking, recognition and movement.
VisionFrame ==
    /\ Next
    /\ \E seen \in [tracked' -> Sightings] : Recognize(seen)
    /\ UNCHANGED store

VisionNext ==
    \/ VisionFrame
    \/ \E i \in Identities : AddIdentity(i) \/ RemoveIdentity(i)

VisionSpec == VisionInit /\ [][VisionNext]_vars
-----------------------------------------------------------------------------
(***************************************************************************)
(* Properties.                                                             *)
(***************************************************************************)
\* A track is stable as the identity of the last Confirm matches that no other
\* observation came between, and bad frames neither count nor interrupt: the rules that
\* update states of its window, against a count of the matches themselves.
StableIsEarned == \A t \in Tracks : stable[t] = streak[t].settled

\* A track that a frame reports as somebody is reported as somebody in the store, or as
\* the identity that this very track had settled on before: the store may have lost the
\* identity since, and a track never inherits what another one earned.
MatchesAreKnown ==
    [][\A t \in tracked' : frame' # frame /\ report'[t].status = "MATCHED" =>
            report'[t].who \in store \/ report'[t].who = streak[t].settled]_vars
=============================================================================
