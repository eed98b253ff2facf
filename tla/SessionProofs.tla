---------------------------- MODULE SessionProofs -----------------------------
(***************************************************************************)
(* Proofs about SessionService, for any number of sessions and handlers.   *)
(* The inductive invariant adds to the properties two facts the handlers   *)
(* rely on: a session that runs, or that is tracked, was started in this   *)
(* process, and a handler in flight works for sessions held in memory.     *)
(* A second invariant follows one handler that works alone through its     *)
(* awaits, from one agreement of memory, MongoDB and dashboards to another.*)
(***************************************************************************)
EXTENDS SessionService, FiniteSetTheorems, TLAPS

\* A running session and the tracked one have a started_at.
StartedHasStamp ==
    /\ \A s \in Sessions : status[s] \in Running => startedAt[s] # 0
    /\ activeId # NoSession => startedAt[activeId] # 0

\* No handler outlives the in-memory session it works for.
PendingIsKnown ==
    \A r \in Requests : request[r].phase # "idle" =>
        /\ request[r].left \subseteq request[r].about
        /\ \A s \in request[r].about : status[s] # "ABSENT"

IInv == TypeOK /\ TrackedIsRunning /\ SoleSessionTracked /\ StartedHasStamp
        /\ PendingIsKnown

------------------------------------------------------------------------------
(* Facts about the transition table and the helpers. *)

LEMMA TableFacts ==
    /\ Status = {"CREATED", "ACTIVE", "PAUSED", "STOPPED", "EXPIRED"}
    /\ Running = {"ACTIVE", "PAUSED"}
    /\ Lifecycle!Allowed("ABSENT") = {}
    /\ Lifecycle!Allowed("CREATED") = {"ACTIVE"}
    /\ Lifecycle!Allowed("ACTIVE") = {"PAUSED", "STOPPED", "EXPIRED"}
    /\ Lifecycle!Allowed("PAUSED") = {"ACTIVE", "STOPPED", "EXPIRED"}
    /\ Lifecycle!Allowed("STOPPED") = {}
    /\ Lifecycle!Allowed("EXPIRED") = {}
  BY DEF Status, Running, Lifecycle!LiveStatus, Lifecycle!Running, Lifecycle!Allowed

\* Stamping a session gives it a number and touches no other session.
LEMMA StampedFacts ==
  ASSUME TypeOK, NEW s \in Sessions
  PROVE  /\ Stamped(s) \in [Sessions -> Nat]
         /\ Stamped(s)[s] # 0
         /\ \A t \in Sessions \ {s} : Stamped(s)[t] = startedAt[t]
         /\ \A t \in Sessions : startedAt[t] # 0 => Stamped(s)[t] # 0
<1> DEFINE S == {t \in Sessions : startedAt[t] # 0}
<1>1. IsFiniteSet(S)
  BY SessionsFinite, FS_Subset
<1>2. Cardinality(S) \in Nat
  BY <1>1, FS_CardinalityType
<1> QED
  BY <1>2 DEF Stamped, TypeOK

\* What a handler leaves behind when it reaches its first await.
LEMMA SubmitFacts ==
  ASSUME TypeOK, NEW r \in Requests, NEW op \in Ops, NEW about \in SUBSET Sessions,
         NEW value \in Status, Submit(r, op, about, value)
  PROVE  /\ request' \in [Requests -> RequestType]
         /\ request'[r].about = about /\ request'[r].left = about
         /\ \A q \in Requests \ {r} : request'[q] = request[q]
         /\ handled' \in 0..MaxHandled /\ overlapped' \in BOOLEAN
         /\ UNCHANGED <<stored, summarised, shown, faults>>
<1>1. [phase |-> "persist", op |-> op, about |-> about, left |-> about,
       value |-> value] \in RequestType
  BY DEF RequestType
<1>2. request' = [request EXCEPT ![r] = [phase |-> "persist", op |-> op,
                    about |-> about, left |-> about, value |-> value]]
  BY DEF Submit
<1>3. handled' \in 0..MaxHandled
  BY BoundsAreNat DEF Submit, TypeOK
<1>4. overlapped' \in BOOLEAN
  BY DEF Submit, TypeOK
<1> QED
  BY <1>1, <1>2, <1>3, <1>4 DEF Submit, durable, TypeOK

LEMMA IdleIsRequest == Idle \in RequestType
  BY TableFacts DEF Idle, RequestType, Ops

\* An await that ends shrinks or ends its handler's work and touches no other handler.
LEMMA AdvanceFacts ==
  ASSUME TypeOK, PendingIsKnown, NEW r \in Requests, NEW s \in Sessions,
         s \in request[r].left, request[r].phase # "idle", Advance(r, s),
         UNCHANGED status
  PROVE  request' \in [Requests -> RequestType] /\ PendingIsKnown'
<1> DEFINE q == request[r]
           n == IF q.left # {s} THEN [q EXCEPT !.left = @ \ {s}]
                ELSE IF q.phase = "persist"
                     THEN [q EXCEPT !.phase = "broadcast", !.left = q.about]
                     ELSE Idle
<1>1. q \in RequestType
  BY DEF TypeOK
<1>2. n \in RequestType
  BY <1>1, IdleIsRequest DEF RequestType
<1>3. request' = [request EXCEPT ![r] = n]
  BY DEF Advance
<1>4. request' \in [Requests -> RequestType]
  BY <1>2, <1>3 DEF TypeOK
<1>5. n.phase # "idle" => n.about = q.about /\ n.left \subseteq q.about
  <2>1. q.left \subseteq q.about
    BY DEF PendingIsKnown
  <2>2. CASE q.left # {s}
    BY <1>1, <2>1, <2>2 DEF RequestType
  <2>3. CASE q.left = {s} /\ q.phase = "persist"
    BY <1>1, <2>1, <2>3 DEF RequestType
  <2>4. CASE q.left = {s} /\ q.phase # "persist"
    BY <2>4 DEF Idle
  <2> QED
    BY <2>2, <2>3, <2>4
<1>6. PendingIsKnown'
  <2> SUFFICES ASSUME NEW p \in Requests, request'[p].phase # "idle"
               PROVE  /\ request'[p].left \subseteq request'[p].about
                      /\ \A t \in request'[p].about : status'[t] # "ABSENT"
    BY DEF PendingIsKnown
  <2>1. CASE p = r
    BY <1>3, <1>5, <2>1 DEF PendingIsKnown, TypeOK
  <2>2. CASE p # r
    BY <1>3, <2>2 DEF PendingIsKnown, TypeOK
  <2> QED
    BY <2>1, <2>2
<1> QED
  BY <1>4, <1>6

------------------------------------------------------------------------------
(* The invariant. *)

LEMMA InitInvariant == Init => IInv
<1> SUFFICES ASSUME Init PROVE IInv
  OBVIOUS
<1>1. TypeOK
  <2>1. overlapped \in BOOLEAN
    BY Zenon DEF Init
  <2>2. request \in [Requests -> RequestType]
    BY IdleIsRequest DEF Init
  <2> QED
    BY <2>1, <2>2, BoundsAreNat DEF Init, TypeOK
<1>2. TrackedIsRunning /\ SoleSessionTracked /\ StartedHasStamp
  BY TableFacts DEF Init, TrackedIsRunning, SoleSessionTracked, StartedHasStamp
<1>3. PendingIsKnown
  BY DEF Init, PendingIsKnown, Idle
<1> QED
  BY <1>1, <1>2, <1>3 DEF IInv

\* A request that no await of the step touches stays known if no session is lost.
LEMMA SubmitKeepsKnown ==
  ASSUME TypeOK, PendingIsKnown, NEW r \in Requests, NEW op \in Ops,
         NEW about \in SUBSET Sessions, NEW value \in Status,
         Submit(r, op, about, value),
         \A s \in Sessions : status[s] # "ABSENT" => status'[s] # "ABSENT",
         \A s \in about : status'[s] # "ABSENT"
  PROVE  PendingIsKnown'
<1> SUFFICES ASSUME NEW p \in Requests, request'[p].phase # "idle"
             PROVE  /\ request'[p].left \subseteq request'[p].about
                    /\ \A t \in request'[p].about : status'[t] # "ABSENT"
  BY DEF PendingIsKnown
<1>1. CASE p = r
  BY <1>1, SubmitFacts
<1>2. CASE p # r
  <2>1. request'[p] = request[p]
    BY <1>2, SubmitFacts
  <2>2. request[p].about \subseteq Sessions
    BY DEF TypeOK, RequestType
  <2> QED
    BY <2>1, <2>2 DEF PendingIsKnown
<1> QED
  BY <1>1, <1>2

LEMMA StepInvariant == IInv /\ [Next]_vars => IInv'
<1> SUFFICES ASSUME IInv, [Next]_vars PROVE IInv'
  OBVIOUS
<1> USE DEF IInv
<1>1. ASSUME NEW r \in Requests, NEW s \in Sessions, Create(r, s) PROVE IInv'
  <2>1. Submit(r, "create", {s}, "CREATED") /\ "create" \in Ops /\ "CREATED" \in Status
    BY <1>1, TableFacts DEF Create, CreateSession, Ops
  <2>2. TypeOK'
    BY <1>1, <2>1, SubmitFacts, TableFacts DEF Create, CreateSession, TypeOK
  <2>3. PendingIsKnown'
    BY <1>1, <2>1, SubmitKeepsKnown DEF Create, CreateSession, TypeOK
  <2>4. TrackedIsRunning' /\ SoleSessionTracked' /\ StartedHasStamp'
    BY <1>1, TableFacts DEF Create, CreateSession, TypeOK, TrackedIsRunning, SoleSessionTracked,
                            StartedHasStamp
  <2> QED
    BY <2>2, <2>3, <2>4
<1>2. ASSUME NEW r \in Requests, NEW s \in Sessions, NEW op \in {"start", "resume"},
             Submit(r, op, {s}, "ACTIVE"), UNCHANGED frozen,
             CanMove(s, "ACTIVE"), status' = [status EXCEPT ![s] = "ACTIVE"],
             activeId' = s, startedAt' = Stamped(s)
      PROVE IInv'
  <2>1. op \in Ops /\ "ACTIVE" \in Status /\ status[s] # "ABSENT"
    BY <1>2, TableFacts DEF Ops, CanMove
  <2>2. TypeOK'
    BY <1>2, <2>1, SubmitFacts, StampedFacts, TableFacts DEF TypeOK
  <2>3. PendingIsKnown'
    BY <1>2, <2>1, SubmitKeepsKnown DEF TypeOK
  <2>4. TrackedIsRunning'
    BY <1>2, TableFacts DEF TypeOK, TrackedIsRunning
  <2>5. StartedHasStamp'
    BY <1>2, StampedFacts, TableFacts DEF TypeOK, StartedHasStamp
  <2>6. SoleSessionTracked'
    <3> SUFFICES ASSUME NEW t \in Sessions, t # s, status'[t] \in Running,
                        \A u \in Sessions \ {t} : startedAt'[u] = 0
                 PROVE  FALSE
      BY <1>2 DEF SoleSessionTracked
    <3> QED
      BY <1>2, StampedFacts
  <2> QED
    BY <2>2, <2>3, <2>4, <2>5, <2>6
<1>3. ASSUME NEW r \in Requests, NEW s \in Sessions, Start(r, s) PROVE IInv'
  <2>1. CASE CanMove(s, "ACTIVE") /\ activeId' = s
             /\ status' = [status EXCEPT ![s] = "ACTIVE"] /\ startedAt' = Stamped(s)
    BY <1>2, <1>3, <2>1 DEF Start, StartSession, Activate
  <2>2. CASE status[s] = "ACTIVE" /\ UNCHANGED <<status, activeId, startedAt>>
    <3>1. Submit(r, "start", {s}, "ACTIVE") /\ "start" \in Ops /\ "ACTIVE" \in Status
      BY <1>3, TableFacts DEF Start, StartSession, Activate, Ops
    <3>2. TypeOK'
      BY <1>3, <2>2, <3>1, SubmitFacts DEF Start, StartSession, Activate, TypeOK
    <3>3. PendingIsKnown'
      BY <2>2, <3>1, SubmitKeepsKnown
    <3> QED
      BY <2>2, <3>2, <3>3 DEF TrackedIsRunning, SoleSessionTracked, StartedHasStamp
  <2> QED
    BY <1>3, <2>1, <2>2 DEF Start, StartSession, Activate
<1>4. ASSUME NEW r \in Requests, NEW s \in Sessions, Pause(r, s) PROVE IInv'
  <2>1. /\ Submit(r, "pause", {s}, "PAUSED") /\ "pause" \in Ops /\ "PAUSED" \in Status
        /\ status[s] = "ACTIVE"
    BY <1>4, TableFacts DEF Pause, PauseSession, Ops, CanMove, TypeOK
  <2>2. TypeOK'
    BY <1>4, <2>1, SubmitFacts, TableFacts DEF Pause, PauseSession, TypeOK
  <2>3. PendingIsKnown'
    BY <1>4, <2>1, SubmitKeepsKnown DEF Pause, PauseSession, TypeOK
  <2>4. TrackedIsRunning' /\ SoleSessionTracked' /\ StartedHasStamp'
    BY <1>4, <2>1, TableFacts DEF Pause, PauseSession, TypeOK, TrackedIsRunning, SoleSessionTracked,
                                  StartedHasStamp
  <2> QED
    BY <2>2, <2>3, <2>4
<1>5. ASSUME NEW r \in Requests, NEW s \in Sessions, Resume(r, s) PROVE IInv'
  BY <1>2, <1>5 DEF Resume, ResumeSession, Activate
<1>6. ASSUME NEW r \in Requests, NEW s \in Sessions, Stop(r, s) PROVE IInv'
  <2>1. Submit(r, "stop", {s}, "STOPPED") /\ "stop" \in Ops /\ "STOPPED" \in Status
    BY <1>6, TableFacts DEF Stop, EngineStop, StopSession, Ops
  <2>2. TypeOK'
    BY <1>6, <2>1, SubmitFacts, TableFacts DEF Stop, EngineStop, StopSession, TypeOK
  <2>3. PendingIsKnown'
    BY <1>6, <2>1, SubmitKeepsKnown DEF Stop, EngineStop, StopSession, TypeOK
  <2>4. TrackedIsRunning' /\ SoleSessionTracked' /\ StartedHasStamp'
    BY <1>6, TableFacts DEF Stop, EngineStop, StopSession, TypeOK, TrackedIsRunning, SoleSessionTracked,
                            StartedHasStamp
  <2> QED
    BY <2>2, <2>3, <2>4
<1>7. ASSUME NEW r \in Requests, NEW c \in Nat, CheckExpirations(r, c) PROVE IInv'
  <2> DEFINE E == Overdue(c)
  <2>1. /\ Submit(r, "expire", E, "EXPIRED") /\ "expire" \in Ops
        /\ "EXPIRED" \in Status /\ E \in SUBSET Sessions
    BY <1>7, TableFacts DEF CheckExpirations, CheckExpiration, Overdue, Ops
  <2>2. /\ status' = [s \in Sessions |-> IF s \in E THEN "EXPIRED" ELSE status[s]]
        /\ activeId' = IF activeId \in E THEN NoSession ELSE activeId
        /\ UNCHANGED <<startedAt, frozen>>
    BY <1>7 DEF CheckExpirations, CheckExpiration
  <2> HIDE DEF E
  <2>3. TypeOK'
    BY <2>1, <2>2, SubmitFacts, TableFacts DEF TypeOK
  <2>4. PendingIsKnown'
    BY <2>1, <2>2, SubmitKeepsKnown DEF TypeOK
  <2>5. TrackedIsRunning' /\ StartedHasStamp'
    BY <2>1, <2>2, TableFacts DEF TypeOK, TrackedIsRunning, StartedHasStamp
  <2>6. SoleSessionTracked'
    <3> SUFFICES ASSUME NEW t \in Sessions, status'[t] \in Running,
                        \A u \in Sessions \ {t} : startedAt'[u] = 0
                 PROVE  activeId' = t
      BY DEF SoleSessionTracked
    <3>1. t \notin E /\ status[t] \in Running
      BY <2>2, TableFacts
    <3>2. activeId = t
      BY <2>2, <3>1 DEF SoleSessionTracked
    <3> QED
      BY <2>2, <3>1, <3>2
  <2> QED
    BY <2>3, <2>4, <2>5, <2>6
<1>8. ASSUME NEW r \in Requests, NEW s \in Sessions, Settle(r, s) PROVE IInv'
  <2>1. /\ Advance(r, s) /\ s \in request[r].left /\ request[r].phase # "idle"
        /\ UNCHANGED <<memory, handled, overlapped>>
    BY <1>8 DEF Settle, Persist, PersistFails, Broadcast
  <2>2. request' \in [Requests -> RequestType] /\ PendingIsKnown'
    BY <2>1, AdvanceFacts DEF memory
  <2>3. request[r].value \in Status
    BY DEF TypeOK, RequestType
  <2>4. /\ stored' \in [Sessions -> Status \cup {"NONE"}]
        /\ shown' \in [Sessions -> Status \cup {"NONE"}]
        /\ summarised' \in SUBSET Sessions
        /\ faults' \in 0..MaxFaults
    <3>1. CASE Persist(r, s)
      BY <2>3, <3>1 DEF Persist, TypeOK
    <3>2. CASE PersistFails(r, s)
      BY <3>2, BoundsAreNat DEF PersistFails, Fault, durable, TypeOK
    <3>3. CASE Broadcast(r, s)
      BY <2>3, <3>3 DEF Broadcast, durable, TypeOK
    <3> QED
      BY <1>8, <3>1, <3>2, <3>3 DEF Settle
  <2>5. TypeOK'
    BY <2>1, <2>2, <2>4 DEF TypeOK, memory
  <2> QED
    BY <2>1, <2>2, <2>5 DEF memory, TrackedIsRunning, SoleSessionTracked, StartedHasStamp
<1>9. ASSUME NEW r \in Requests, BroadcastFails(r) PROVE IInv'
  <2>1. TypeOK'
    BY <1>9, IdleIsRequest, BoundsAreNat DEF BroadcastFails, Fault, memory, durable, TypeOK
  <2>2. PendingIsKnown'
    BY <1>9 DEF BroadcastFails, memory, TypeOK, PendingIsKnown, Idle
  <2> QED
    BY <1>9, <2>1, <2>2 DEF BroadcastFails, memory, TrackedIsRunning,
                            SoleSessionTracked, StartedHasStamp
<1>10. ASSUME Restart PROVE IInv'
  <2>1. TypeOK'
    BY <1>10, IdleIsRequest, BoundsAreNat DEF Restart, Fault, durable, TypeOK
  <2>2. PendingIsKnown'
    BY <1>10 DEF Restart, PendingIsKnown, Idle
  <2>3. TrackedIsRunning' /\ SoleSessionTracked' /\ StartedHasStamp'
    BY <1>10, TableFacts DEF Restart, TrackedIsRunning, SoleSessionTracked, StartedHasStamp
  <2> QED
    BY <2>1, <2>2, <2>3
<1>11. ASSUME UNCHANGED vars PROVE IInv'
  BY <1>11 DEF vars, TypeOK, TrackedIsRunning, SoleSessionTracked, StartedHasStamp,
               PendingIsKnown
<1>12. \A s \in Sessions : startedAt[s] \in Nat
  BY DEF TypeOK
<1> QED
  BY <1>1, <1>3, <1>4, <1>5, <1>6, <1>7, <1>8, <1>9, <1>10, <1>11, <1>12
  DEF Next, Handle

------------------------------------------------------------------------------
(* The theorems. *)

\* The invariant holds in every state the service reaches.
THEOREM Invariance == Spec => []IInv
  BY InitInvariant, StepInvariant, PTL DEF Spec

\* Every variable keeps its type, whatever handlers overlap, fail or are lost.
THEOREM TypeCorrect == Spec => []TypeOK
  BY Invariance, PTL DEF IInv

\* SessionManager never tracks a session that has ended or was never started.
THEOREM TrackedSession == Spec => []TrackedIsRunning
  BY Invariance, PTL DEF IInv

\* The only session started in a process stays tracked until it ends.
THEOREM SoleSession == Spec => []SoleSessionTracked
  BY Invariance, PTL DEF IInv

\* A document without its in-memory session is never written again, not even by a
\* handler that was in flight when the process restarted.
THEOREM Orphans == Spec => OrphansAreLeftAlone
<1>1. IInv /\ [Next]_vars => [\A s \in Sessions :
          status[s] = "ABSENT" /\ stored[s] # "NONE"
              => status'[s] = "ABSENT" /\ stored'[s] = stored[s]]_vars
  <2> SUFFICES ASSUME IInv, Next, NEW s \in Sessions,
                      status[s] = "ABSENT", stored[s] # "NONE"
               PROVE  status'[s] = "ABSENT" /\ stored'[s] = stored[s]
    BY DEF vars
  <2> USE DEF IInv
  <2>1. ASSUME NEW r \in Requests, NEW t \in Sessions, Handle(r, t)
        PROVE  status'[s] = "ABSENT" /\ stored'[s] = stored[s]
    <3>1. stored' = stored
      BY <2>1 DEF Handle, Create, Start, Pause, Resume, Stop,
         CreateSession, StartSession, PauseSession, ResumeSession, EngineStop,
         StopSession, Activate, Submit, durable
    <3>2. t # s
      BY <2>1, TableFacts DEF Handle, Create, Start, Pause, Resume, Stop,
         CreateSession, StartSession, PauseSession, ResumeSession, EngineStop,
         StopSession, Activate, CanMove
    <3>3. status' = status \/ \E v : status' = [status EXCEPT ![t] = v]
      BY <2>1 DEF Handle, Create, Start, Pause, Resume, Stop,
         CreateSession, StartSession, PauseSession, ResumeSession, EngineStop,
         StopSession, Activate
    <3> QED
      BY <3>1, <3>2, <3>3 DEF TypeOK
  <2>2. ASSUME NEW r \in Requests, NEW c \in Nat, CheckExpirations(r, c)
        PROVE  status'[s] = "ABSENT" /\ stored'[s] = stored[s]
    <3>1. s \notin Overdue(c)
      BY TableFacts DEF Overdue
    <3> QED
      BY <2>2, <3>1 DEF CheckExpirations, CheckExpiration, Submit, durable
  <2>3. ASSUME NEW r \in Requests, NEW t \in Sessions, Settle(r, t)
        PROVE  status'[s] = "ABSENT" /\ stored'[s] = stored[s]
    <3>1. t \in request[r].left /\ request[r].phase # "idle" /\ status' = status
      BY <2>3 DEF Settle, Persist, PersistFails, Broadcast, memory
    <3>2. t # s
      BY <3>1 DEF PendingIsKnown
    <3>3. stored' = stored \/ stored' = [stored EXCEPT ![t] = request[r].value]
      BY <2>3 DEF Settle, Persist, PersistFails, Broadcast, durable
    <3> QED
      BY <3>1, <3>2, <3>3 DEF TypeOK
  <2>4. ASSUME NEW r \in Requests, BroadcastFails(r)
        PROVE  status'[s] = "ABSENT" /\ stored'[s] = stored[s]
    BY <2>4 DEF BroadcastFails, memory, durable
  <2>5. ASSUME Restart
        PROVE  status'[s] = "ABSENT" /\ stored'[s] = stored[s]
    BY <2>5 DEF Restart, durable
  <2>6. \A t \in Sessions : startedAt[t] \in Nat
    BY DEF TypeOK
  <2> QED
    BY <2>1, <2>2, <2>3, <2>4, <2>5, <2>6 DEF Next
<1> QED
  BY <1>1, Invariance, PTL DEF Spec, OrphansAreLeftAlone

\* Every step of the service is a move of the transition table, a joint
\* expiration, the loss of the process memory, or no change of any status.
THEOREM Refinement == Spec => ImplementsLifecycle
<1>1. Init => Lifecycle!LifecycleInit
  BY DEF Init, Lifecycle!LifecycleInit
<1>2. IInv /\ [Next]_vars => [Lifecycle!LifecycleNext]_status
  <2> SUFFICES ASSUME IInv, Next, status' # status
               PROVE  Lifecycle!LifecycleNext
    BY DEF vars
  <2> USE DEF IInv
  <2>1. ASSUME NEW r \in Requests, NEW s \in Sessions, Handle(r, s)
        PROVE  Lifecycle!LifecycleNext
    <3>1. CASE Create(r, s)
      BY <3>1 DEF Create, CreateSession, Lifecycle!LifecycleNext, Lifecycle!Begin
    <3>2. ASSUME NEW target \in Status, CanMove(s, target),
                 status' = [status EXCEPT ![s] = target]
          PROVE  Lifecycle!LifecycleNext
      BY <3>2 DEF CanMove, Status, Lifecycle!LifecycleNext, Lifecycle!Move
    <3>3. "ACTIVE" \in Status /\ "PAUSED" \in Status /\ "STOPPED" \in Status
      BY TableFacts
    <3>4. \E target \in Status : Create(r, s) \/ (CanMove(s, target) /\
                                   status' = [status EXCEPT ![s] = target])
      BY <2>1, <3>3 DEF Handle, Create, Start, Pause, Resume, Stop,
         CreateSession, StartSession, PauseSession, ResumeSession, EngineStop,
         StopSession, Activate
    <3> QED
      BY <3>1, <3>2, <3>4
  <2>2. ASSUME NEW r \in Requests, NEW c \in Nat, CheckExpirations(r, c)
        PROVE  Lifecycle!LifecycleNext
    <3>1. \A s \in Overdue(c) : "EXPIRED" \in Lifecycle!Allowed(status[s])
      BY TableFacts DEF Overdue
    <3>2. Overdue(c) \in SUBSET Sessions
      BY DEF Overdue
    <3>3. Lifecycle!ExpireAll(Overdue(c))
      BY <2>2, <3>1 DEF CheckExpirations, CheckExpiration, Lifecycle!ExpireAll
    <3> QED
      BY <3>2, <3>3 DEF Lifecycle!LifecycleNext
  <2>3. ASSUME NEW r \in Requests, NEW s \in Sessions, Settle(r, s) PROVE FALSE
    BY <2>3 DEF Settle, Persist, PersistFails, Broadcast, memory
  <2>4. ASSUME NEW r \in Requests, BroadcastFails(r) PROVE FALSE
    BY <2>4 DEF BroadcastFails, memory
  <2>5. ASSUME Restart PROVE Lifecycle!LifecycleNext
    BY <2>5 DEF Restart, Lifecycle!LifecycleNext, Lifecycle!LoseAll
  <2>6. \A s \in Sessions : startedAt[s] \in Nat
    BY DEF TypeOK
  <2> QED
    BY <2>1, <2>2, <2>3, <2>4, <2>5, <2>6 DEF Next
<1> QED
  BY <1>1, <1>2, Invariance, PTL DEF Spec, ImplementsLifecycle, Lifecycle!LifecycleSpec

------------------------------------------------------------------------------
(* Agreement of memory, MongoDB and the dashboards. *)

\* v is the status of s, or the STOPPED that a frozen summary answers with.
Fits(s, v) ==
    \/ v = status[s]
    \/ status[s] = "ABSENT" /\ v = "NONE"
    \/ s \in frozen /\ v = "STOPPED"

Agreed(s) == shown[s] = stored[s] /\ Fits(s, stored[s])

\* What the handler of r has stored and shown already, and what it has still to.
InProgress(r) ==
    LET q == request[r]
    IN  \A s \in q.about :
            /\ Fits(s, q.value)
            /\ q.phase = "persist" =>
                 IF s \in q.left THEN q.op = "create" <=> stored[s] = "NONE"
                 ELSE stored[s] = q.value
            /\ q.phase = "broadcast" =>
                 stored[s] = q.value /\ (s \notin q.left => shown[s] = q.value)

OnlyBusy(r) ==
    /\ request[r].phase # "idle"
    /\ \A p \in Requests \ {r} : request[p].phase = "idle"

\* Until something fails or overlaps, one handler at most is at work, and the sessions
\* it is not about agree everywhere.
Consistent ==
    Undisturbed =>
        \/ AllIdle /\ \A s \in Sessions : Agreed(s)
        \/ \E r \in Requests : /\ OnlyBusy(r) /\ InProgress(r)
                               /\ \A s \in Sessions \ request[r].about : Agreed(s)

\* A handler that starts work alone finds every session agreed.
LEMMA SubmitConsistent ==
    ASSUME TypeOK, Consistent, NEW r \in Requests, NEW op \in Ops,
           NEW about \in SUBSET Sessions, NEW value \in Status,
           Submit(r, op, about, value),
           \A s \in Sessions \ about : status'[s] = status[s] /\ (s \in frozen => s \in frozen'),
           \A s \in about : value = status'[s] \/ (s \in frozen' /\ value = "STOPPED"),
           \A s \in about : IF op = "create" THEN stored[s] = "NONE" ELSE status[s] # "ABSENT"
    PROVE  Consistent'
<1> SUFFICES ASSUME Undisturbed' PROVE Consistent'
  BY DEF Consistent
<1>1. faults = 0 /\ ~overlapped /\ AllIdle
  <2>1. faults' = faults /\ overlapped' = (overlapped \/ ~AllIdle)
    BY DEF Submit
  <2> QED BY <2>1, Zenon DEF Undisturbed
<1>2. \A s \in Sessions : Agreed(s)
  <2>1. \A p \in Requests : ~OnlyBusy(p)
    BY <1>1 DEF AllIdle, OnlyBusy
  <2> QED BY <1>1, <2>1 DEF Consistent, Undisturbed
<1>3. /\ request' = [request EXCEPT ![r] = [phase |-> "persist", op |-> op,
                       about |-> about, left |-> about, value |-> value]]
      /\ stored' = stored /\ shown' = shown
  BY DEF Submit, durable
<1>4. OnlyBusy(r)'
  BY <1>1, <1>3 DEF OnlyBusy, AllIdle, TypeOK
<1>5. ASSUME NEW s \in about
      PROVE  Fits(s, value)' /\ (op = "create" <=> stored[s] = "NONE")
  <2>1. Fits(s, value)'
    BY DEF Fits
  <2>2. op # "create" => stored[s] # "NONE"
    BY <1>2, TableFacts DEF Agreed, Fits, TypeOK
  <2> QED BY <2>1, <2>2
<1>6. InProgress(r)'
  BY <1>3, <1>5 DEF InProgress, TypeOK, Fits
<1>7. \A s \in Sessions \ about : Agreed(s)'
  BY <1>2, <1>3 DEF Agreed, Fits
<1>8. request'[r].about = about
  BY <1>3 DEF TypeOK
<1> QED BY <1>4, <1>6, <1>7, <1>8 DEF Consistent

LEMMA HandleConsistent ==
    ASSUME TypeOK, Consistent, NEW r \in Requests, NEW s \in Sessions, Handle(r, s)
    PROVE  Consistent'
<1>1. CASE Create(r, s)
  <2>1. /\ Submit(r, "create", {s}, "CREATED") /\ stored[s] = "NONE"
        /\ status' = [status EXCEPT ![s] = "CREATED"] /\ frozen' = frozen
    BY <1>1 DEF Create, CreateSession
  <2> QED BY <2>1, SubmitConsistent, TableFacts DEF TypeOK, Ops
<1>2. CASE Start(r, s) \/ Resume(r, s)
  <2>1. PICK op \in {"start", "resume"} : Submit(r, op, {s}, "ACTIVE")
    BY <1>2 DEF Start, Resume
  <2>2. frozen' = frozen /\ status[s] # "ABSENT" /\ status' = [status EXCEPT ![s] = "ACTIVE"]
    BY <1>2, TableFacts DEF Start, StartSession, Resume, ResumeSession, Activate, CanMove, TypeOK
  <2> QED BY <2>1, <2>2, SubmitConsistent, TableFacts DEF TypeOK, Ops
<1>3. CASE Pause(r, s)
  <2>1. /\ Submit(r, "pause", {s}, "PAUSED") /\ frozen' = frozen /\ status[s] # "ABSENT"
        /\ status' = [status EXCEPT ![s] = "PAUSED"]
    BY <1>3, TableFacts DEF Pause, PauseSession, CanMove
  <2> QED BY <2>1, SubmitConsistent, TableFacts DEF TypeOK, Ops
<1>4. CASE Stop(r, s)
  <2>1. /\ Submit(r, "stop", {s}, "STOPPED") /\ frozen' = frozen \cup {s} /\ status[s] # "ABSENT"
        /\ \A t \in Sessions \ {s} : status'[t] = status[t]
    BY <1>4 DEF Stop, EngineStop, StopSession, TypeOK
  <2> QED BY <2>1, SubmitConsistent, TableFacts DEF TypeOK, Ops
<1> QED BY <1>1, <1>2, <1>3, <1>4 DEF Handle

LEMMA ExpireConsistent ==
    ASSUME TypeOK, Consistent, NEW r \in Requests, NEW c \in Nat, CheckExpirations(r, c)
    PROVE  Consistent'
<1> DEFINE E == Overdue(c)
<1>1. /\ E \in SUBSET Sessions /\ \A s \in E : status[s] # "ABSENT"
  BY TableFacts DEF Overdue
<1>2. /\ Submit(r, "expire", E, "EXPIRED") /\ frozen' = frozen
      /\ status' = [s \in Sessions |-> IF s \in E THEN "EXPIRED" ELSE status[s]]
  BY DEF CheckExpirations, CheckExpiration
<1> HIDE DEF E
<1> QED BY <1>1, <1>2, SubmitConsistent, TableFacts DEF TypeOK, Ops

\* The only handler at work stores and shows its value session by session.
LEMMA SettleConsistent ==
    ASSUME TypeOK, PendingIsKnown, Consistent,
           NEW r \in Requests, NEW s \in Sessions, Settle(r, s)
    PROVE  Consistent'
<1> SUFFICES ASSUME Undisturbed' PROVE Consistent'
  BY DEF Consistent
<1> DEFINE q == request[r]
<1>1. /\ Persist(r, s) \/ Broadcast(r, s)
      /\ s \in q.left /\ q.phase \in {"persist", "broadcast"} /\ Advance(r, s)
      /\ UNCHANGED <<status, frozen, faults, overlapped>>
  <2>1. ~PersistFails(r, s)
    BY DEF PersistFails, Fault, Undisturbed, TypeOK
  <2> QED BY <2>1 DEF Settle, Persist, Broadcast, memory
<1>2. /\ OnlyBusy(r) /\ InProgress(r) /\ \A t \in Sessions \ q.about : Agreed(t)
  <2>1. Undisturbed /\ ~AllIdle
    BY <1>1 DEF Undisturbed, AllIdle
  <2>2. \A p \in Requests : OnlyBusy(p) => p = r
    BY <1>1 DEF OnlyBusy
  <2> QED BY <2>1, <2>2 DEF Consistent
<1>3. q \in RequestType /\ q.left \subseteq q.about
  BY <1>1 DEF TypeOK, PendingIsKnown
<1>4. \A t \in q.about : \/ q.value = status'[t]
                         \/ status'[t] = "ABSENT" /\ q.value = "NONE"
                         \/ t \in frozen' /\ q.value = "STOPPED"
  <2>1. \A t \in q.about : Fits(t, q.value)
    BY <1>2 DEF InProgress
  <2> QED BY <1>1, <2>1 DEF Fits
<1>5. /\ \A t \in Sessions \ {s} : stored'[t] = stored[t] /\ shown'[t] = shown[t]
      /\ stored'[s] = q.value
      /\ IF q.phase = "persist" THEN shown' = shown ELSE shown'[s] = q.value
  <2>1. CASE Persist(r, s)
    <3>1. q.phase = "persist" /\ (q.op = "create" <=> stored[s] = "NONE")
      BY <1>1, <1>2, <1>3, <2>1 DEF Persist, InProgress
    <3>2. stored' = [stored EXCEPT ![s] = q.value] /\ shown' = shown
      BY <2>1, <3>1 DEF Persist
    <3> QED BY <3>1, <3>2 DEF TypeOK
  <2>2. CASE Broadcast(r, s)
    <3>1. q.phase = "broadcast" /\ stored' = stored /\ shown' = [shown EXCEPT ![s] = q.value]
      BY <2>2 DEF Broadcast, durable
    <3>2. stored[s] = q.value
      BY <1>1, <1>2, <1>3, <3>1 DEF InProgress
    <3> QED BY <3>1, <3>2 DEF TypeOK
  <2> QED BY <1>1, <2>1, <2>2
<1>6. \A t \in Sessions \ q.about : Agreed(t)'
  BY <1>1, <1>2, <1>3, <1>5 DEF Agreed, Fits
<1>7. CASE q.left # {s}
  <2>1. request' = [request EXCEPT ![r] = [q EXCEPT !.left = @ \ {s}]]
    BY <1>1, <1>7 DEF Advance
  <2>2. /\ request'[r].about = q.about /\ request'[r].left = q.left \ {s}
        /\ request'[r].phase = q.phase /\ request'[r].value = q.value /\ request'[r].op = q.op
        /\ \A p \in Requests \ {r} : request'[p] = request[p]
    BY <1>3, <2>1 DEF TypeOK, RequestType
  <2>3. OnlyBusy(r)'
    BY <1>2, <2>2 DEF OnlyBusy
  <2>4. InProgress(r)'
    <3> SUFFICES ASSUME NEW t \in q.about
                 PROVE  /\ q.phase = "persist" =>
                             IF t \in q.left \ {s} THEN q.op = "create" <=> stored'[t] = "NONE"
                             ELSE stored'[t] = q.value
                        /\ q.phase = "broadcast" =>
                             stored'[t] = q.value /\ (t \notin q.left \ {s} => shown'[t] = q.value)
      BY <1>4, <2>2 DEF InProgress, Fits
    <3>1. CASE t = s
      BY <1>5, <3>1
    <3>2. CASE t # s
      <4>1. t \in Sessions
        BY <1>3 DEF RequestType
      <4> QED BY <1>2, <1>5, <3>2, <4>1 DEF InProgress
    <3> QED BY <3>1, <3>2
  <2> QED BY <1>6, <2>2, <2>3, <2>4 DEF Consistent
<1>8. CASE q.left = {s} /\ q.phase = "persist"
  <2>1. request' = [request EXCEPT ![r] = [q EXCEPT !.phase = "broadcast", !.left = q.about]]
    BY <1>1, <1>8 DEF Advance
  <2>2. /\ request'[r].about = q.about /\ request'[r].left = q.about
        /\ request'[r].phase = "broadcast" /\ request'[r].value = q.value
        /\ \A p \in Requests \ {r} : request'[p] = request[p]
    BY <1>3, <2>1 DEF TypeOK, RequestType
  <2>3. OnlyBusy(r)'
    BY <1>2, <2>2 DEF OnlyBusy
  <2>4. \A t \in q.about : stored'[t] = q.value
    BY <1>2, <1>3, <1>5, <1>8 DEF InProgress, RequestType
  <2>5. InProgress(r)'
    BY <1>4, <2>2, <2>4 DEF InProgress, Fits
  <2> QED BY <1>6, <2>2, <2>3, <2>5 DEF Consistent
<1>9. CASE q.left = {s} /\ q.phase = "broadcast"
  <2>1. request' = [request EXCEPT ![r] = Idle]
    BY <1>1, <1>9 DEF Advance
  <2>2. AllIdle'
    BY <1>2, <2>1 DEF AllIdle, OnlyBusy, TypeOK, Idle
  <2>3. \A t \in q.about : stored'[t] = q.value /\ shown'[t] = q.value
    BY <1>2, <1>3, <1>5, <1>9 DEF InProgress, RequestType
  <2>4. \A t \in q.about : Agreed(t)'
    <3> SUFFICES ASSUME NEW t \in q.about
                 PROVE  shown'[t] = stored'[t] /\ Fits(t, stored[t])'
      BY DEF Agreed
    <3> QED BY <1>4, <2>3 DEF Fits
  <2> QED BY <1>6, <2>2, <2>4 DEF Consistent
<1> QED BY <1>1, <1>7, <1>8, <1>9

LEMMA InitConsistent == Init => Consistent
<1> SUFFICES ASSUME Init PROVE Consistent
  OBVIOUS
<1>1. AllIdle
  BY DEF Init, AllIdle, Idle
<1>2. \A s \in Sessions : Agreed(s)
  BY DEF Init, Agreed, Fits
<1> QED BY <1>1, <1>2 DEF Consistent

LEMMA StepConsistent == IInv /\ Consistent /\ [Next]_vars => Consistent'
<1> SUFFICES ASSUME IInv, Consistent, [Next]_vars PROVE Consistent'
  OBVIOUS
<1>1. TypeOK /\ PendingIsKnown /\ \A s \in Sessions : startedAt[s] \in Nat
  BY DEF IInv, TypeOK
<1>2. ASSUME \/ \E r \in Requests : BroadcastFails(r)
             \/ Restart
      PROVE  Consistent'
  <2>1. faults' = faults + 1 /\ faults \in Nat
    BY <1>1, <1>2, BoundsAreNat DEF BroadcastFails, Restart, Fault, TypeOK
  <2> QED BY <2>1 DEF Consistent, Undisturbed
<1>3. CASE UNCHANGED vars
  BY <1>3 DEF vars, Consistent, Undisturbed, AllIdle, Agreed, Fits, OnlyBusy, InProgress
<1> QED
  BY <1>1, <1>2, <1>3, HandleConsistent, ExpireConsistent, SettleConsistent DEF Next

\* Handlers that neither overlap nor fail leave memory, MongoDB and the dashboards in
\* agreement once they are done (session_service.py: the in-memory call, the update of
\* the document and the broadcast of each handler).
THEOREM Agreement == Spec => []SerialAgreement
<1>1. IInv /\ Consistent => SerialAgreement
  <2> SUFFICES ASSUME Consistent, Undisturbed, AllIdle, NEW s \in Sessions
               PROVE  Agreed(s)
    BY DEF SerialAgreement, Agreed, Fits
  <2>1. \A p \in Requests : ~OnlyBusy(p)
    BY DEF AllIdle, OnlyBusy
  <2> QED BY <2>1 DEF Consistent
<1> QED
  BY InitConsistent, StepConsistent, Invariance, <1>1, PTL DEF Spec
=============================================================================
