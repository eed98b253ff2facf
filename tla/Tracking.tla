-------------------------------- MODULE Tracking --------------------------------
(***************************************************************************)
(* The tracks of one camera, in the two engines that keep them: ByteTrack  *)
(* of ai-engine/tracking and the state manager of ai-engine/movement,      *)
(* called one after the other for every frame by process_frame of the      *)
(* camera pipeline.                                                        *)
(*                                                                         *)
(* Where people stand is not modelled: which tracks a frame's detections   *)
(* are associated with is any choice the two stages of update can make. A  *)
(* high detection is matched to a track or starts one; a low detection can *)
(* only keep a track that is active. A frame with no detection never       *)
(* reaches the tracker. The third stage is dead: a track is activated when *)
(* it is created. The camera has one gate, configured before the tracker   *)
(* runs.                                                                   *)
(***************************************************************************)
EXTENDS Integers, FiniteSets

CONSTANTS
    MaxLost,      \* MAX_LOST_FRAMES of the tracker
    MaxMissing,   \* MAX_TRACK_LOST_FRAMES of the movement engine
    MaxPersons,   \* bound: tracks a frame shows
    MaxTracks,    \* bound: track ids given out
    MaxFrames     \* bound: frames with a detection

\* Both limits are 30 in the settings: the movement engine is not the more forgetful.
ASSUME TrackingConstants ==
    /\ MaxLost \in Nat /\ MaxMissing \in Nat /\ MaxLost <= MaxMissing
    /\ MaxPersons \in Nat /\ MaxTracks \in Nat /\ MaxFrames \in Nat

Tracks == 1..MaxTracks

VARIABLES
    frame,      \* frame_id of the tracker
    created,    \* id_counter
    tracked,    \* tracked_stracks
    lost,       \* lost_stracks
    last,       \* frame_id of a track: the frame that showed it last
    known,      \* tracks the movement engine has a state of
    missing     \* frames_lost of those

memory == <<known, missing>>
tracking == <<frame, created, tracked, lost, last, known, missing>>

TypeOK ==
    /\ frame \in 0..MaxFrames /\ created \in 0..MaxTracks
    /\ tracked \subseteq 1..created /\ lost \subseteq 1..created
    /\ last \in [Tracks -> 0..MaxFrames]
    /\ known \subseteq 1..created /\ missing \in [Tracks -> 0..MaxFrames]

Init ==
    /\ frame = 0 /\ created = 0 /\ tracked = {} /\ lost = {}
    /\ last = [t \in Tracks |-> 0]
    /\ known = {} /\ missing = [t \in Tracks |-> 0]
-----------------------------------------------------------------------------
(***************************************************************************)
(* The tracker.                                                            *)
(***************************************************************************)
\* _next_track_id, once for each high detection left over.
NewTracks(fresh) == (created + 1)..(created + fresh)

Expires(t) == frame + 1 - last[t] > MaxLost

\* update: the tracks of shown are matched or new, every other one is lost or expires.
Update(shown, fresh) ==
    /\ frame' = frame + 1
    /\ created' = created + fresh
    /\ tracked' = shown
    /\ lost' = {t \in (tracked \cup lost) \ shown : ~Expires(t)}
    /\ last' = [t \in Tracks |-> IF t \in shown THEN frame + 1 ELSE last[t]]
-----------------------------------------------------------------------------
(***************************************************************************)
(* The movement engine.                                                    *)
(***************************************************************************)
\* Mutant: a track is forgotten when the count reaches the limit.
ForgottenEarly(t) == missing[t] + 1 >= MaxMissing

\* is_expired, after mark_lost.
Forgotten(t) == missing[t] + 1 > MaxMissing

\* update_position of the tracks of the frame, then mark_missing_tracks.
Remember(shown) ==
    /\ known' = shown \cup {t \in known : ~Forgotten(t)}
    /\ missing' = [t \in Tracks |->
            IF t \in known \ shown THEN missing[t] + 1 ELSE 0]
-----------------------------------------------------------------------------
\* process_frame, after detection: a frame that leaves no track active does not reach
\* the movement engine.
Frame(first, second, fresh) ==
    LET shown == first \cup second \cup NewTracks(fresh)
    IN  /\ Update(shown, fresh)
        /\ IF shown = {} THEN UNCHANGED memory ELSE Remember(shown)

\* Association: stage one matches any known track to a high detection, stage two a
\* track that is still active to a low one.
Associate(first, second, fresh) ==
    /\ frame < MaxFrames /\ created + fresh <= MaxTracks
    /\ Cardinality(first) + Cardinality(second) + fresh <= MaxPersons
    /\ Frame(first, second, fresh)

Next ==
    \E first \in SUBSET (tracked \cup lost), fresh \in 0..MaxPersons :
        \E second \in SUBSET (tracked \ first) : Associate(first, second, fresh)

Spec == Init /\ [][Next]_tracking
-----------------------------------------------------------------------------
(***************************************************************************)
(* Properties.                                                             *)
(***************************************************************************)
\* A track that the tracker may still find again keeps its trajectory and its side of
\* the gate in the movement engine: each counts frames of its own (update and
\* mark_missing_tracks), and the two limits leave no frame at which a track could come
\* back under its old id to an engine that has forgotten it.
FoundIsRemembered == tracked \cup lost \subseteq known
=============================================================================
