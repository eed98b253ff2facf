---------------------------- MODULE CameraRuntime -----------------------------
(***************************************************************************)
(* Cameras of all venues: the MongoDB documents of CameraRepository, the   *)
(* in-memory records and the per-venue CameraManagers of                   *)
(* CameraRuntimeService, and the requests that register, start, stop,      *)
(* delete and inspect a camera.                                            *)
(*                                                                         *)
(* A request runs without interruption between two awaits. Each call to    *)
(* MongoDB is a step of its own, and so is the code that runs when its     *)
(* answer is in: what a request has read is kept in its task and may be    *)
(* stale when it is used. start_stream does not suspend, stop_stream does. *)
(***************************************************************************)
EXTENDS Naturals, FiniteSets

CONSTANTS
    Cameras,      \* camera ids
    Venues,       \* venue ids
    Clients,      \* requests that may be in flight at the same time
    NoVenue,      \* owner of what does not exist
    WiredAtStart, \* whether start_runtime finds a camera repository: FALSE in
                  \* the program, which sets it with the first request, TRUE
                  \* where the service is built with one, as the tests do
    MaxFaults     \* bound: database calls that fail

ASSUME NoVenueIsNoVenue == NoVenue \notin Venues
ASSUME WiringIsBoolean == WiredAtStart \subseteq BOOLEAN
ASSUME FaultBound == MaxFaults \in Nat

VARIABLES
    doc,          \* CameraDBModel of each camera in the `cameras' collection
    rec,          \* CameraRuntimeService._records
    stream,       \* CameraManager.streams of each venue
    up,           \* the process runs
    task,         \* what each request is at
    faults,       \* history: database calls that failed
    disturbed     \* history: cameras that saw two requests in flight together, a
                  \* failed call or a restart

history == <<faults, disturbed>>
vars == <<doc, rec, stream, up, task, faults, disturbed>>

Stored == {"REGISTERED", "ONLINE", "OFFLINE"}

NoDoc == [venue |-> NoVenue, status |-> "ABSENT"]
DocType == [venue : Venues, status : Stored] \cup {NoDoc}

\* framed: last_frame_at is set. How long ago is left to the step that asks.
NoRec == [venue |-> NoVenue, status |-> "ABSENT", framed |-> FALSE]
RecType == [venue : Venues, status : Stored \cup {"DEGRADED"}, framed : BOOLEAN] \cup {NoRec}

\* absent: no key of streams; off: registered, not capturing; on: capturing;
\* halting: inside stop_stream; stuck: its health task waits for itself, so
\* that stop_stream raises and the capture stays open.
StreamState == {"absent", "off", "on", "halting", "stuck"}

Ops == {"register", "start", "stop", "delete", "health"}

\* What the task does next: look (at the document it has read), own (the second
\* look, inside the stop of a delete), insert, replace, remember, join (wait for
\* the tasks of the stream), put the status, report, judge, erase, forget.
Phases == {"idle", "look", "own", "insert", "replace", "remember", "join",
           "putOn", "putOff", "report", "judge", "erase", "forget"}

\* seen: owner of the document in the last answer of MongoDB.
NoTask == [op |-> "health", phase |-> "idle", venue |-> NoVenue,
           camera |-> CHOOSE c \in Cameras : TRUE, seen |-> NoVenue]

TaskType == [op : Ops, phase : Phases, venue : Venues, camera : Cameras,
             seen : Venues \cup {NoVenue}] \cup {NoTask}

TypeOK ==
    /\ doc \in [Cameras -> DocType]
    /\ rec \in [Cameras -> RecType]
    /\ stream \in [Venues -> [Cameras -> StreamState]]
    /\ up \in BOOLEAN
    /\ task \in [Clients -> TaskType]
    /\ faults \in 0..MaxFaults
    /\ disturbed \subseteq Cameras

NoRecords == [c \in Cameras |-> NoRec]
NoStreams == [v \in Venues |-> [c \in Cameras |-> "absent"]]

Init ==
    /\ doc = [c \in Cameras |-> NoDoc]
    /\ rec = NoRecords /\ stream = NoStreams
    /\ up = FALSE
    /\ task = [k \in Clients |-> NoTask]
    /\ faults = 0
    /\ disturbed = {}

Busy(c) == \E k \in Clients : task[k].phase # "idle" /\ task[k].camera = c

At(k, op, phase) == task[k].op = op /\ task[k].phase = phase
\* No step uses an answer after the one it came for: it is dropped.
To(k, phase) == task' = [task EXCEPT ![k].phase = phase, ![k].seen = NoVenue]
Ends(k) == task' = [task EXCEPT ![k] = NoTask]

------------------------------------------------------------------------------
(* CameraRepository: the effect of one call. Whatever goes wrong is caught. *)

\* A call on camera c fails, or it does not.
Call(c, failed, crowded) ==
    /\ failed => faults < MaxFaults
    /\ faults' = IF failed THEN faults + 1 ELSE faults
    /\ disturbed' = IF failed \/ crowded THEN disturbed \cup {c} ELSE disturbed

\* get_by_camera_id takes no venue, and find_one answers None when it fails.
Answer(c, failed) == IF failed THEN NoVenue ELSE doc[c].venue

\* The task reads its document again, and goes on with the answer.
ReadsAgain(k, phase) ==
    \E failed \in BOOLEAN :
        /\ Call(task[k].camera, failed, FALSE)
        /\ task' = [task EXCEPT ![k].phase = phase,
                                ![k].seen = Answer(task[k].camera, failed)]

\* update_status and update_health: update_one, which makes no document.
WithStatus(c, s) == IF doc[c] = NoDoc THEN NoDoc ELSE [doc[c] EXCEPT !.status = s]

\* reconcile_startup_statuses: DEGRADED is not among the statuses it looks for.
Reconciled ==
    [c \in Cameras |-> IF doc[c].status \in {"ONLINE", "RECONNECTING"}
                       THEN WithStatus(c, "OFFLINE") ELSE doc[c]]

------------------------------------------------------------------------------
(* Helpers of CameraRuntimeService. *)

\* _get_camera_doc, its answer in: the record stands in for a missing document.
Owner(k) == IF task[k].seen # NoVenue THEN task[k].seen ELSE rec[task[k].camera].venue

\* Mutant: the camera is looked up by its id alone.
MayUseAny(k) == Owner(k) # NoVenue

MayUse(k) == Owner(k) = task[k].venue

Marked(c, s) == IF rec[c] = NoRec THEN rec ELSE [rec EXCEPT ![c].status = s]

\* _get_or_create_record: a record that is there keeps its owner.
Recorded(k, s) ==
    IF rec[task[k].camera] # NoRec THEN Marked(task[k].camera, s)
    ELSE [rec EXCEPT ![task[k].camera] = [venue |-> Owner(k), status |-> s, framed |-> FALSE]]

StreamOf(k) == stream[task[k].venue][task[k].camera]
StreamTo(k, s) == stream' = [stream EXCEPT ![task[k].venue][task[k].camera] = s]

\* A request arrives: its first await is the read of the camera.
Arrives(k, op, v, c) ==
    /\ up /\ task[k].phase = "idle"
    /\ \E failed \in BOOLEAN :
        /\ Call(c, failed, Busy(c))
        /\ task' = [task EXCEPT ![k] =
             [op |-> op, phase |-> IF op = "health" THEN "judge" ELSE "look",
              venue |-> v, camera |-> c, seen |-> Answer(c, failed)]]
    /\ UNCHANGED <<doc, rec, stream, up>>

------------------------------------------------------------------------------
(* register_camera. *)

RegisterRefused(k) ==
    /\ At(k, "register", "look") /\ task[k].seen # NoVenue
    /\ Ends(k)
    /\ UNCHANGED <<doc, rec, stream, up, history>>

\* save_camera looks for the id once more.
SaveLooks(k) ==
    /\ At(k, "register", "look") /\ task[k].seen = NoVenue
    /\ \E failed \in BOOLEAN :
        /\ Call(task[k].camera, failed, FALSE)
        /\ To(k, IF Answer(task[k].camera, failed) = NoVenue THEN "insert" ELSE "replace")
    /\ UNCHANGED <<doc, rec, stream, up>>

Published(k) ==
    [doc EXCEPT ![task[k].camera] = [venue |-> task[k].venue, status |-> "REGISTERED"]]

\* insert_one, under the unique index on camera_id.
Inserts(k) ==
    /\ At(k, "register", "insert")
    /\ \E failed \in BOOLEAN :
        /\ Call(task[k].camera, failed, FALSE)
        /\ doc' = IF failed \/ doc[task[k].camera] # NoDoc THEN doc ELSE Published(k)
    /\ To(k, "remember")
    /\ UNCHANGED <<rec, stream, up>>

\* replace_one with upsert; nothing catches its failure.
Replaces(k) ==
    /\ At(k, "register", "replace")
    /\ \/ /\ Call(task[k].camera, FALSE, FALSE)
          /\ doc' = Published(k) /\ To(k, "remember")
       \/ /\ Call(task[k].camera, TRUE, FALSE)
          /\ Ends(k) /\ UNCHANGED doc
    /\ UNCHANGED <<rec, stream, up>>

\* The record is replaced, whoever it belonged to; the streams are left alone.
Remembers(k) ==
    /\ At(k, "register", "remember")
    /\ rec' = [rec EXCEPT ![task[k].camera] =
                 [venue |-> task[k].venue, status |-> "REGISTERED", framed |-> FALSE]]
    /\ Ends(k)
    /\ UNCHANGED <<doc, stream, up, history>>

------------------------------------------------------------------------------
(* start_camera. *)

StartRefused(k) ==
    /\ At(k, "start", "look") /\ ~MayUse(k)
    /\ Ends(k)
    /\ UNCHANGED <<doc, rec, stream, up, history>>

StartConnects(k) ==
    /\ At(k, "start", "look") /\ MayUse(k)
    /\ StreamTo(k, "on")
    /\ rec' = Recorded(k, "ONLINE")
    /\ To(k, "putOn")
    /\ UNCHANGED <<doc, up, history>>

\* connect() fails, which closes a capture that is open.
StartFails(k) ==
    /\ At(k, "start", "look") /\ MayUse(k)
    /\ StreamTo(k, IF StreamOf(k) = "halting" THEN "halting" ELSE "off")
    /\ rec' = Recorded(k, "OFFLINE")
    /\ To(k, "putOff")
    /\ UNCHANGED <<doc, up, history>>

\* update_status, or update_health after a failed start.
PutsStatus(k) ==
    LET c == task[k].camera IN
    /\ task[k].phase \in {"putOn", "putOff"}
    /\ \E failed \in BOOLEAN :
        /\ Call(c, failed, FALSE)
        /\ doc' = IF failed THEN doc
                  ELSE [doc EXCEPT ![c] = WithStatus(c, IF task[k].phase = "putOn" THEN "ONLINE" ELSE "OFFLINE")]
    /\ To(k, "report")
    /\ UNCHANGED <<rec, stream, up>>

\* _broadcast_health reads the camera once more, and swallows a 404.
Reports(k) ==
    /\ task[k].phase = "report"
    /\ ReadsAgain(k, "judge")
    /\ UNCHANGED <<doc, rec, stream, up>>

MayBeStale(c) == rec[c].status = "ONLINE" /\ rec[c].framed

\* Mutant: the health check stores what it has found.
JudgesAndStores(k) ==
    LET c == task[k].camera IN
    /\ task[k].phase = "judge"
    /\ MayUse(k) /\ MayBeStale(c)
    /\ rec' = Marked(c, "DEGRADED")
    /\ doc' = [doc EXCEPT ![c] = WithStatus(c, "DEGRADED")]
    /\ IF task[k].op = "delete" THEN To(k, "erase") ELSE Ends(k)
    /\ UNCHANGED <<stream, up, history>>

\* get_camera_health: a stale camera is DEGRADED in its record, and nowhere else.
Judges(k) ==
    /\ task[k].phase = "judge"
    /\ \/ UNCHANGED rec
       \/ MayUse(k) /\ MayBeStale(task[k].camera) /\ rec' = Marked(task[k].camera, "DEGRADED")
    /\ IF task[k].op = "delete" THEN To(k, "erase") ELSE Ends(k)
    /\ UNCHANGED <<doc, stream, up, history>>

------------------------------------------------------------------------------
(* stop_camera and delete_camera. *)

DeleteRefused(k) ==
    /\ At(k, "delete", "look") /\ ~MayUse(k)
    /\ Ends(k)
    /\ UNCHANGED <<doc, rec, stream, up, history>>

\* The stop inside a delete reads the camera again.
DeleteStops(k) ==
    /\ At(k, "delete", "look") /\ MayUse(k)
    /\ ReadsAgain(k, "own")
    /\ UNCHANGED <<doc, rec, stream, up>>

AtStop(k) == At(k, "stop", "look") \/ At(k, "delete", "own")

\* A delete passes over whatever its stop raises.
StopRefused(k) ==
    /\ AtStop(k) /\ ~MayUse(k)
    /\ IF task[k].op = "delete" THEN To(k, "erase") ELSE Ends(k)
    /\ UNCHANGED <<doc, rec, stream, up, history>>

StopAwaitsTasks(k) ==
    /\ AtStop(k) /\ MayUse(k)
    /\ StreamOf(k) \in {"on", "off", "halting"}
    /\ StreamTo(k, "halting")
    /\ To(k, "join")
    /\ UNCHANGED <<doc, rec, up, history>>

\* remove_camera: the key goes, with whatever has been started meanwhile.
StopJoins(k) ==
    /\ task[k].phase = "join"
    /\ StreamTo(k, "absent")
    /\ rec' = Marked(task[k].camera, "OFFLINE")
    /\ To(k, "putOff")
    /\ UNCHANGED <<doc, up, history>>

\* No stream in this venue, or one whose stop raises: caught, and carried on.
StopFindsNone(k) ==
    /\ AtStop(k) /\ MayUse(k)
    /\ StreamOf(k) \in {"absent", "stuck"}
    /\ rec' = Marked(task[k].camera, "OFFLINE")
    /\ To(k, "putOff")
    /\ UNCHANGED <<doc, stream, up, history>>

\* delete_one by camera_id alone.
Erases(k) ==
    /\ task[k].phase = "erase"
    /\ \E failed \in BOOLEAN :
        /\ Call(task[k].camera, failed, FALSE)
        /\ doc' = IF failed THEN doc ELSE [doc EXCEPT ![task[k].camera] = NoDoc]
    /\ To(k, "forget")
    /\ UNCHANGED <<rec, stream, up>>

\* Mutant: the record outlives the document.
ForgetsNothing(k) ==
    /\ task[k].phase = "forget"
    /\ Ends(k)
    /\ UNCHANGED <<doc, rec, stream, up, history>>

Forgets(k) ==
    /\ task[k].phase = "forget"
    /\ rec' = [rec EXCEPT ![task[k].camera] = NoRec]
    /\ Ends(k)
    /\ UNCHANGED <<doc, stream, up, history>>

------------------------------------------------------------------------------
(* The tasks of a stream, and the process. *)

\* _frame_callback writes last_frame_at of the record, if there is one.
FrameArrives(c) ==
    /\ \E v \in Venues : stream[v][c] = "on"
    /\ rec[c] # NoRec
    /\ rec' = [rec EXCEPT ![c].framed = TRUE]
    /\ UNCHANGED <<doc, stream, up, task, history>>

\* The source fails; the health task then tries to restart the stream and ends
\* up waiting for itself (CameraStream). The record is not told of either.
SourceFails(v, c) ==
    /\ \/ stream[v][c] = "on" /\ stream' = [stream EXCEPT ![v][c] = "off"]
       \/ stream[v][c] \in {"on", "off"} /\ stream' = [stream EXCEPT ![v][c] = "stuck"]
    /\ UNCHANGED <<doc, rec, up, task, history>>

\* start_runtime.
StartRuntime ==
    /\ ~up /\ up' = TRUE
    /\ \E wired \in WiredAtStart : doc' = IF wired THEN Reconciled ELSE doc
    /\ UNCHANGED <<rec, stream, task, history>>

\* stop_runtime, or a crash: no document is written.
StopRuntime ==
    /\ up /\ up' = FALSE
    /\ rec' = NoRecords /\ stream' = NoStreams
    /\ task' = [k \in Clients |-> NoTask]
    /\ disturbed' = disturbed \cup {c \in Cameras : doc[c] # NoDoc \/ Busy(c)}
    /\ UNCHANGED <<doc, faults>>

RequestSteps(k) ==
    \/ RegisterRefused(k) \/ SaveLooks(k) \/ Inserts(k) \/ Replaces(k) \/ Remembers(k)
    \/ StartRefused(k) \/ StartConnects(k) \/ StartFails(k)
    \/ PutsStatus(k) \/ Reports(k) \/ Judges(k)
    \/ DeleteRefused(k) \/ DeleteStops(k) \/ StopRefused(k) \/ StopAwaitsTasks(k)
    \/ StopJoins(k) \/ StopFindsNone(k) \/ Erases(k) \/ Forgets(k)

Next ==
    \/ \E k \in Clients, op \in Ops, v \in Venues, c \in Cameras : Arrives(k, op, v, c)
    \/ \E k \in Clients : RequestSteps(k)
    \/ \E c \in Cameras : FrameArrives(c)
    \/ \E v \in Venues, c \in Cameras : SourceFails(v, c)
    \/ StartRuntime
    \/ StopRuntime

Spec == Init /\ [][Next]_vars

------------------------------------------------------------------------------
(* Properties. *)

Catalog == INSTANCE CameraCatalog
           WITH Cameras <- Cameras, Venues <- Venues, NoVenue <- NoVenue, doc <- doc

\* Whatever the interleaving, the failures and the restarts, the collection
\* changes as CameraCatalog allows: a late start or stop does not bring a deleted
\* camera back, only a registration changes an owner, and what a health check
\* has guessed is never stored.
ImplementsCatalog == Catalog!CatalogSpec

\* What list_cameras shows of a camera: the record's status over the document's.
Listed(c) == IF rec[c] = NoRec THEN doc[c].status ELSE rec[c].status

\* A camera whose requests came one at a time, with no failed call and no
\* restart, agrees with itself between requests: document and record exist
\* together with one owner, only the owner has a stream, the document has the
\* record's status (ONLINE for DEGRADED), and a camera that captures is shown so.
SerialAgreement ==
    \A c \in Cameras : c \in disturbed \/ Busy(c) \/
        /\ rec[c].venue = doc[c].venue
        /\ doc[c].status = IF rec[c].status = "DEGRADED" THEN "ONLINE" ELSE rec[c].status
        /\ \A v \in Venues :
             /\ stream[v][c] # "absent" => stream[v][c] = "stuck" \/ v = doc[c].venue
             /\ stream[v][c] = "on" => Listed(c) \in {"ONLINE", "DEGRADED"}

\* A request of one venue does not touch the document, the record or the stream
\* of another venue's camera: only requests in flight together, a failed
\* read or a restart can make it.
OnlyItsOwner ==
    [][\A k \in Clients : RequestSteps(k) =>
         LET c == task[k].camera
             owner == doc[c].venue IN
         c \in disturbed' \/ owner \in {NoVenue, task[k].venue} \/
           (doc'[c] = doc[c] /\ rec'[c] = rec[c] /\ stream'[owner][c] = stream[owner][c])]_vars

\* Reconciliation "guarantees that persistent storage never falsely claims a
\* camera is ONLINE when the runtime is stopped": whatever was stored when the
\* last process ended, no document says ONLINE once start_runtime has run.
SettledAtStart ==
    [][~up /\ up' => \A c \in Cameras : doc'[c].status # "ONLINE"]_vars
=============================================================================
