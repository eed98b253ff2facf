---------------------------- MODULE SessionService ----------------------------
(***************************************************************************)
(* Monitoring sessions of one venue: the in-memory SessionManager, the     *)
(* frozen summaries of EventIntelligenceEngine, the MongoDB documents and  *)
(* the SessionService handlers that move between them.                     *)
(*                                                                         *)
(* The backend is one asyncio event loop: a handler runs without           *)
(* interruption from its first line to its first await, so the in-memory   *)
(* transition is one step. The MongoDB write and the dashboard broadcast   *)
(* that follow are awaited one after the other, and other handlers run in  *)
(* between: each is a step of its own, in whatever order the driver        *)
(* finishes them. A request that is refused (404, 409) changes nothing and *)
(* is a stuttering step.                                                   *)
(***************************************************************************)
EXTENDS Naturals, FiniteSets

CONSTANTS
    Sessions,     \* session ids that may be created
    Requests,     \* handlers that may be in flight at the same time
    NoSession,    \* None in SessionManager._active_session_id
    MaxHandled,   \* bound: requests accepted in a behaviour
    MaxFaults     \* bound: failed writes, failed sends and restarts in a behaviour

ASSUME SessionsFinite == IsFiniteSet(Sessions)
ASSUME NoSessionIsNoId == NoSession \notin Sessions
ASSUME BoundsAreNat == MaxFaults \in Nat /\ MaxHandled \in Nat

VARIABLES
    status,       \* SessionManager._sessions: status of each session, or "ABSENT"
    activeId,     \* SessionManager._active_session_id
    startedAt,    \* order in which the sessions got their started_at, 0 if None
    frozen,       \* keys of EventIntelligenceEngine._stopped_summaries
    stored,       \* status field of the session's MongoDB document, or "NONE"
    summarised,   \* sessions whose document has its summary field
    shown,        \* last status broadcast to the venue's dashboards, or "NONE"
    request,      \* what each handler still has to await
    handled,      \* history: how many requests were accepted
    faults,       \* history: how many of the things MaxFaults bounds happened
    overlapped    \* history: two handlers were in flight together

memory == <<status, activeId, startedAt, frozen>>
durable == <<stored, summarised>>
vars == <<status, activeId, startedAt, frozen, stored, summarised, shown,
          request, handled, faults, overlapped>>

Lifecycle == INSTANCE SessionLifecycle WITH Sessions <- Sessions, status <- status

Status   == Lifecycle!LiveStatus
Terminal == Lifecycle!Terminal
Running  == Lifecycle!Running

CanMove(s, target) == target \in Lifecycle!Allowed(status[s])

Ops == {"create", "start", "pause", "resume", "stop", "expire"}

Idle == [phase |-> "idle", op |-> "stop", about |-> {}, left |-> {},
         value |-> "STOPPED"]

\* One record per handler: the awaits it has still to make are `phase', for the
\* sessions in `left'; status_str, captured before the first await, is `value'.
RequestType == [phase : {"idle", "persist", "broadcast"}, op : Ops,
                about : SUBSET Sessions, left : SUBSET Sessions, value : Status]

TypeOK ==
    /\ status \in [Sessions -> Status \cup {"ABSENT"}]
    /\ activeId \in Sessions \cup {NoSession}
    /\ startedAt \in [Sessions -> Nat]
    /\ frozen \in SUBSET Sessions
    /\ stored \in [Sessions -> Status \cup {"NONE"}]
    /\ summarised \in SUBSET Sessions
    /\ shown \in [Sessions -> Status \cup {"NONE"}]
    /\ request \in [Requests -> RequestType]
    /\ handled \in 0..MaxHandled
    /\ faults \in 0..MaxFaults
    /\ overlapped \in BOOLEAN

Init ==
    /\ status = [s \in Sessions |-> "ABSENT"]
    /\ activeId = NoSession
    /\ startedAt = [s \in Sessions |-> 0]
    /\ frozen = {}
    /\ stored = [s \in Sessions |-> "NONE"]
    /\ summarised = {}
    /\ shown = [s \in Sessions |-> "NONE"]
    /\ request = [r \in Requests |-> Idle]
    /\ handled = 0
    /\ faults = 0
    /\ overlapped = FALSE

------------------------------------------------------------------------------
(* SessionManager and EventIntelligenceEngine, called under their locks. *)

\* started_at is written on the first move to ACTIVE only.
Stamped(s) ==
    IF startedAt[s] = 0
    THEN [startedAt EXCEPT ![s] = Cardinality({t \in Sessions : startedAt[t] # 0}) + 1]
    ELSE startedAt

CreateSession(s) ==
    /\ status[s] = "ABSENT"
    /\ status' = [status EXCEPT ![s] = "CREATED"]
    /\ UNCHANGED <<activeId, startedAt>>

\* transition_to(ACTIVE), and the session becomes the tracked one.
Activate(s) ==
    /\ CanMove(s, "ACTIVE")
    /\ status' = [status EXCEPT ![s] = "ACTIVE"]
    /\ activeId' = s
    /\ startedAt' = Stamped(s)

\* The tracked id is not moved to the session that starts.
StartUntracked(s) ==
    /\ status[s] = "ACTIVE" \/ CanMove(s, "ACTIVE")
    /\ status' = [status EXCEPT ![s] = "ACTIVE"]
    /\ startedAt' = Stamped(s)
    /\ UNCHANGED activeId

\* A session the process does not hold is looked up in MongoDB and started there.
StartFromStore(s) ==
    \/ Activate(s)
    \/ /\ status[s] = "ABSENT" /\ stored[s] \notin {"NONE", "ACTIVE"}
       /\ UNCHANGED <<status, activeId, startedAt>>

\* A session that is ACTIVE already answers True, untouched.
StartSession(s) ==
    \/ status[s] = "ACTIVE" /\ UNCHANGED <<status, activeId, startedAt>>
    \/ Activate(s)

\* pause_session sets the status without asking transition_to.
PauseUnchecked(s) ==
    /\ status[s] \notin {"ABSENT", "PAUSED"}
    /\ status' = [status EXCEPT ![s] = "PAUSED"]
    /\ UNCHANGED <<activeId, startedAt>>

PauseSession(s) ==
    /\ CanMove(s, "PAUSED")
    /\ status' = [status EXCEPT ![s] = "PAUSED"]
    /\ UNCHANGED <<activeId, startedAt>>

\* Asks only for the move to ACTIVE: a session that is CREATED resumes too.
ResumeSession(s) == Activate(s)

\* The stopped session stays the tracked one.
StopKeepingTracked(s) ==
    /\ status' = IF CanMove(s, "STOPPED") THEN [status EXCEPT ![s] = "STOPPED"]
                 ELSE status
    /\ UNCHANGED <<activeId, startedAt>>

\* Answers False, and changes nothing, if the session may not move to STOPPED.
StopSession(s) ==
    /\ IF CanMove(s, "STOPPED")
       THEN /\ status' = [status EXCEPT ![s] = "STOPPED"]
            /\ activeId' = IF activeId = s THEN NoSession ELSE activeId
       ELSE UNCHANGED <<status, activeId>>
    /\ UNCHANGED startedAt

\* The engine freezes a summary whatever StopSession answered, and an id that has
\* a frozen summary gets it back with no further look at the session.
EngineStop(s) ==
    /\ status[s] # "ABSENT"
    /\ IF s \in frozen THEN UNCHANGED <<status, activeId, startedAt>>
       ELSE StopSession(s)
    /\ frozen' = frozen \cup {s}

\* Sessions running since before the cutoff: every session has the same
\* max_duration_seconds, so those that expire are the ones started first.
Overdue(cutoff) ==
    {s \in Sessions : status[s] \in Running /\ startedAt[s] \in 1..cutoff}

CheckExpiration(cutoff) ==
    /\ status' = [s \in Sessions |-> IF s \in Overdue(cutoff) THEN "EXPIRED"
                                     ELSE status[s]]
    /\ activeId' = IF activeId \in Overdue(cutoff) THEN NoSession ELSE activeId
    /\ UNCHANGED startedAt

------------------------------------------------------------------------------
(* The synchronous part of the handlers of SessionService. *)

AllIdle == \A r \in Requests : request[r].phase = "idle"

\* The handler reaches its first await with the status string to persist.
Submit(r, op, about, value) ==
    /\ request[r].phase = "idle"
    /\ handled < MaxHandled
    /\ handled' = handled + 1
    /\ request' = [request EXCEPT ![r] = [phase |-> "persist", op |-> op,
                      about |-> about, left |-> about, value |-> value]]
    /\ overlapped' = (overlapped \/ ~AllIdle)
    /\ UNCHANGED <<durable, shown, faults>>

\* uuid4: the id is used by no session in memory, in MongoDB or on a screen.
Create(r, s) ==
    /\ stored[s] = "NONE" /\ shown[s] = "NONE"
    /\ CreateSession(s) /\ UNCHANGED frozen
    /\ Submit(r, "create", {s}, "CREATED")

Start(r, s) ==
    StartSession(s) /\ UNCHANGED frozen /\ Submit(r, "start", {s}, "ACTIVE")

Pause(r, s) ==
    PauseSession(s) /\ UNCHANGED frozen /\ Submit(r, "pause", {s}, "PAUSED")

Resume(r, s) ==
    ResumeSession(s) /\ UNCHANGED frozen /\ Submit(r, "resume", {s}, "ACTIVE")

\* Whatever became of the session, STOPPED is persisted and announced.
Stop(r, s) == EngineStop(s) /\ Submit(r, "stop", {s}, "STOPPED")

\* check_expirations with any now_epoch; nothing follows if no session expired.
CheckExpirations(r, cutoff) ==
    /\ Overdue(cutoff) # {}
    /\ CheckExpiration(cutoff) /\ UNCHANGED frozen
    /\ Submit(r, "expire", Overdue(cutoff), "EXPIRED")

------------------------------------------------------------------------------
(* The awaited part of the handlers. *)

Fault == faults < MaxFaults /\ faults' = faults + 1

\* After s, the next of `left'; after the last one, the next kind of await.
Advance(r, s) ==
    LET q == request[r]
    IN  request' = [request EXCEPT ![r] =
            IF q.left # {s} THEN [q EXCEPT !.left = @ \ {s}]
            ELSE IF q.phase = "persist" THEN [q EXCEPT !.phase = "broadcast", !.left = q.about]
            ELSE Idle]

\* The summary of a stop is written without its status.
PersistSummaryOnly(r, s) ==
    LET q == request[r]
    IN  /\ q.phase = "persist" /\ s \in q.left
        /\ stored' = IF q.op = "stop" THEN stored ELSE [stored EXCEPT ![s] = q.value]
        /\ summarised' = IF q.op = "stop" THEN summarised \cup {s} ELSE summarised
        /\ Advance(r, s)
        /\ UNCHANGED <<memory, shown, handled, faults, overlapped>>

\* create inserts (the unique index refuses a second document); the updates
\* filter on session_id with upsert=False and change nothing if there is none.
Persist(r, s) ==
    LET q == request[r]
        writes == (q.op = "create") = (stored[s] = "NONE")
    IN  /\ q.phase = "persist" /\ s \in q.left
        /\ stored' = IF writes THEN [stored EXCEPT ![s] = q.value] ELSE stored
        /\ summarised' = IF writes /\ q.op = "stop" THEN summarised \cup {s}
                         ELSE summarised
        /\ Advance(r, s)
        /\ UNCHANGED <<memory, shown, handled, faults, overlapped>>

\* The repository has no collection, or logs the driver's exception and goes on.
PersistFails(r, s) ==
    /\ request[r].phase = "persist" /\ s \in request[r].left
    /\ Advance(r, s)
    /\ Fault
    /\ UNCHANGED <<memory, durable, shown, handled, overlapped>>

Broadcast(r, s) ==
    /\ request[r].phase = "broadcast" /\ s \in request[r].left
    /\ shown' = [shown EXCEPT ![s] = request[r].value]
    /\ Advance(r, s)
    /\ UNCHANGED <<memory, durable, handled, faults, overlapped>>

\* The except around the broadcasts drops the rest of them.
BroadcastFails(r) ==
    /\ request[r].phase = "broadcast"
    /\ request' = [request EXCEPT ![r] = Idle]
    /\ Fault
    /\ UNCHANGED <<memory, durable, shown, handled, overlapped>>

\* Only MongoDB survives the process; nothing is read back at start-up, and the
\* venue's engines appear again with the next create_session.
Restart ==
    /\ status' = [s \in Sessions |-> "ABSENT"]
    /\ activeId' = NoSession
    /\ startedAt' = [s \in Sessions |-> 0]
    /\ frozen' = {}
    /\ request' = [r \in Requests |-> Idle]
    /\ Fault
    /\ UNCHANGED <<durable, shown, handled, overlapped>>

------------------------------------------------------------------------------
Handle(r, s) ==
    \/ Create(r, s) \/ Start(r, s) \/ Pause(r, s) \/ Resume(r, s) \/ Stop(r, s)

Settle(r, s) == Persist(r, s) \/ PersistFails(r, s) \/ Broadcast(r, s)

Next ==
    \/ \E r \in Requests, s \in Sessions : Handle(r, s)
    \/ \E r \in Requests, s \in Sessions : CheckExpirations(r, startedAt[s])
    \/ \E r \in Requests, s \in Sessions : Settle(r, s)
    \/ \E r \in Requests : BroadcastFails(r)
    \/ Restart

Spec == Init /\ [][Next]_vars

\* The event loop resumes a handler whose await has ended, and the driver's and
\* the socket's timeouts end every await, one way or the other. Clients owe nothing.
Resumes(r) == (\E s \in Sessions : Settle(r, s)) \/ BroadcastFails(r)
FairSpec == Spec /\ \A r \in Requests : WF_vars(Resumes(r))

------------------------------------------------------------------------------
(* Properties. *)

Undisturbed == faults = 0 /\ ~overlapped

\* The tracked id is never left on a session that has ended or never started:
\* start and resume set it, stop and expiration must clear it (session_manager.py).
TrackedIsRunning == activeId # NoSession => status[activeId] \in Running

\* While only one session was ever started since the process came up, nothing can
\* make /active lose it: pauses, repeated starts, and the life of sessions that
\* were only created leave the tracked id on it until it ends.
SoleSessionTracked ==
    \A s \in Sessions :
        /\ status[s] \in Running
        /\ \A t \in Sessions \ {s} : startedAt[t] = 0
        => activeId = s

\* Handlers that do not overlap and do not fail leave memory, MongoDB and the
\* dashboards telling the same status of every session, but for one case: a stop
\* that was answered from a frozen summary stored and announced STOPPED.
SerialAgreement ==
    Undisturbed /\ AllIdle =>
        \A s \in Sessions :
            /\ shown[s] = stored[s]
            /\ \/ stored[s] = status[s]
               \/ status[s] = "ABSENT" /\ stored[s] = "NONE"
               \/ s \in frozen /\ stored[s] = "STOPPED"

\* A document whose session the process does not know (it was restarted) stays as
\* it is: no handler, not even one that was in flight, writes to it again.
OrphansAreLeftAlone ==
    [][\A s \in Sessions :
        status[s] = "ABSENT" /\ stored[s] # "NONE"
            => status'[s] = "ABSENT" /\ stored'[s] = stored[s]]_vars

\* The service moves sessions along the transition table of session.py only,
\* whatever handlers overlap: no status skips a state or leaves a terminal one.
ImplementsLifecycle == Lifecycle!LifecycleSpec

\* The stop of a session reaches its document, unless a write fails, handlers
\* overlap or the process restarts first.
StopIsStored ==
    \A s \in Sessions :
        status[s] = "STOPPED" ~> (stored[s] = "STOPPED" /\ s \in summarised) \/ ~Undisturbed

\* api/v1/endpoints/sessions.py says of GET /active: "Returns the currently ACTIVE
\* monitoring session for the venue, or null if no session is active."
ActiveEndpointIsRight ==
    IF activeId = NoSession THEN \A s \in Sessions : status[s] # "ACTIVE"
    ELSE status[activeId] = "ACTIVE"

\* session_repository.py calls the frozen summary "the final immutable
\* SessionSummary generated when session is stopped".
FrozenMeansEnded == \A s \in frozen : status[s] \in Terminal
=============================================================================
