----------------------------- MODULE CameraProofs ------------------------------
(***************************************************************************)
(* Proofs about CameraRuntime: it refines CameraCatalog; the document, the *)
(* record and the streams of a camera agree whenever its requests came one *)
(* at a time; and a request leaves the cameras of other venues alone.      *)
(***************************************************************************)
EXTENDS CameraRuntime, TLAPS

------------------------------------------------------------------------------
(* Types. *)

Mine(k, c) == task[k].phase # "idle" /\ task[k].camera = c

\* A task at work is of a known camera and venue.
LEMMA TaskAtWork ==
    ASSUME TypeOK, NEW k \in Clients, task[k].phase # "idle"
    PROVE  /\ task[k].camera \in Cameras /\ task[k].venue \in Venues
           /\ task[k].op \in Ops /\ task[k].phase \in Phases
           /\ task[k].seen \in Venues \cup {NoVenue}
  BY DEF TypeOK, TaskType, NoTask

\* The fields of documents and records.
LEMMA Fields ==
    ASSUME TypeOK, NEW c \in Cameras
    PROVE  /\ doc[c] \in DocType /\ rec[c] \in RecType
           /\ doc[c].venue \in Venues \cup {NoVenue} /\ rec[c].venue \in Venues \cup {NoVenue}
           /\ doc[c].status \in Stored \cup {"ABSENT"}
           /\ doc[c] = NoDoc <=> doc[c].venue = NoVenue
           /\ rec[c] = NoRec <=> rec[c].venue = NoVenue
           /\ doc[c] = NoDoc => doc[c].status = "ABSENT"
           /\ rec[c] = NoRec => rec[c].status = "ABSENT"
           /\ doc[c] # NoDoc => doc[c] \in [venue : Venues, status : Stored]
           /\ rec[c] # NoRec => rec[c] \in [venue : Venues, status : Stored \cup {"DEGRADED"}, framed : BOOLEAN]
<1>1. doc[c] \in DocType /\ rec[c] \in RecType
  BY DEF TypeOK
<1>2. /\ doc[c].venue \in Venues \cup {NoVenue}
      /\ doc[c].status \in Stored \cup {"ABSENT"}
      /\ doc[c] = NoDoc <=> doc[c].venue = NoVenue
      /\ doc[c] = NoDoc => doc[c].status = "ABSENT"
      /\ doc[c] # NoDoc => doc[c] \in [venue : Venues, status : Stored]
  <2>1. CASE doc[c] = NoDoc
    BY <2>1 DEF NoDoc
  <2>2. CASE doc[c] # NoDoc
    <3>1. doc[c] \in [venue : Venues, status : Stored]
      BY <1>1, <2>2 DEF DocType
    <3> QED
      BY <2>2, <3>1, NoVenueIsNoVenue DEF NoDoc
  <2> QED
    BY <2>1, <2>2
<1>3. /\ rec[c].venue \in Venues \cup {NoVenue}
      /\ rec[c] = NoRec <=> rec[c].venue = NoVenue
      /\ rec[c] = NoRec => rec[c].status = "ABSENT"
      /\ rec[c] # NoRec => rec[c] \in [venue : Venues, status : Stored \cup {"DEGRADED"}, framed : BOOLEAN]
  <2>1. CASE rec[c] = NoRec
    BY <2>1 DEF NoRec
  <2>2. CASE rec[c] # NoRec
    <3>1. rec[c] \in [venue : Venues, status : Stored \cup {"DEGRADED"}, framed : BOOLEAN]
      BY <1>1, <2>2 DEF RecType
    <3> QED
      BY <2>2, <3>1, NoVenueIsNoVenue DEF NoRec
  <2> QED
    BY <2>1, <2>2
<1> QED
  BY <1>1, <1>2, <1>3

\* What a call does to the two history variables.
LEMMA CallTyped ==
    ASSUME TypeOK, NEW c \in Cameras, NEW failed \in BOOLEAN, NEW crowded \in BOOLEAN,
           Call(c, failed, crowded)
    PROVE  faults' \in 0..MaxFaults /\ disturbed' \subseteq Cameras
  BY FaultBound DEF TypeOK, Call

\* A task that goes on, or ends, stays a task.
LEMMA TaskTyped ==
    ASSUME TypeOK, NEW k \in Clients, task[k].phase # "idle"
    PROVE  /\ \A phase \in Phases : To(k, phase) => task' \in [Clients -> TaskType]
           /\ Ends(k) => task' \in [Clients -> TaskType]
           /\ \A phase \in Phases : ReadsAgain(k, phase) => task' \in [Clients -> TaskType]
<1>1. /\ task \in [Clients -> TaskType] /\ task[k].camera \in Cameras
      /\ task[k] \in [op : Ops, phase : Phases, venue : Venues, camera : Cameras, seen : Venues \cup {NoVenue}]
  BY TaskAtWork DEF TypeOK, TaskType, NoTask
<1>2. ASSUME NEW phase \in Phases, To(k, phase) PROVE task' \in [Clients -> TaskType]
  BY <1>1, <1>2 DEF To, TaskType
<1>3. Ends(k) => task' \in [Clients -> TaskType]
  BY <1>1 DEF Ends, TaskType
<1>4. ASSUME NEW phase \in Phases, ReadsAgain(k, phase) PROVE task' \in [Clients -> TaskType]
  <2>1. PICK failed \in BOOLEAN :
            task' = [task EXCEPT ![k].phase = phase, ![k].seen = Answer(task[k].camera, failed)]
    BY <1>4 DEF ReadsAgain
  <2>2. Answer(task[k].camera, failed) \in Venues \cup {NoVenue}
    BY <1>1, Fields DEF Answer
  <2> QED
    BY <1>1, <2>1, <2>2 DEF TaskType
<1> QED
  BY <1>2, <1>3, <1>4

\* A known phase.
LEMMA PhasesKnown ==
    {"look", "own", "insert", "replace", "remember", "join", "putOn", "putOff", "report",
     "judge", "erase", "forget"} \subseteq Phases
  BY DEF Phases

\* A record or document that changes its status stays one.
LEMMA StatusTyped ==
    ASSUME TypeOK, NEW c \in Cameras, NEW s \in {"ONLINE", "OFFLINE", "DEGRADED"}
    PROVE  /\ Marked(c, s) \in [Cameras -> RecType]
           /\ s # "DEGRADED" => WithStatus(c, s) \in DocType
<1>1. Marked(c, s) \in [Cameras -> RecType]
  <2>1. rec[c] # NoRec => [rec[c] EXCEPT !.status = s] \in RecType
    BY Fields DEF RecType, Stored
  <2> QED
    BY <2>1 DEF Marked, TypeOK
<1>2. s # "DEGRADED" => WithStatus(c, s) \in DocType
  BY Fields DEF WithStatus, DocType, Stored
<1> QED
  BY <1>1, <1>2

\* The record that a start leaves.
LEMMA RecordedTyped ==
    ASSUME TypeOK, NEW k \in Clients, task[k].phase # "idle", MayUse(k),
           NEW s \in {"ONLINE", "OFFLINE"}
    PROVE  Recorded(k, s) \in [Cameras -> RecType]
<1>1. task[k].camera \in Cameras /\ Owner(k) \in Venues
  BY TaskAtWork DEF MayUse
<1>2. [venue |-> Owner(k), status |-> s, framed |-> FALSE] \in RecType
  BY <1>1 DEF RecType, Stored
<1> QED
  BY <1>1, <1>2, StatusTyped DEF Recorded, TypeOK

\* Type correctness is inductive.
LEMMA TypeInit == Init => TypeOK
<1> SUFFICES ASSUME Init PROVE TypeOK
  OBVIOUS
<1>1. doc \in [Cameras -> DocType]
  BY DEF Init, DocType
<1>2. rec \in [Cameras -> RecType]
  BY DEF Init, NoRecords, RecType
<1>3. stream \in [Venues -> [Cameras -> StreamState]]
  BY DEF Init, NoStreams, StreamState
<1>4. task \in [Clients -> TaskType]
  BY DEF Init, TaskType
<1>5. up \in BOOLEAN
  BY DEF Init
<1>6. faults \in 0..MaxFaults
  BY FaultBound DEF Init
<1>7. disturbed \subseteq Cameras
  BY DEF Init
<1> QED
  BY <1>1, <1>2, <1>3, <1>4, <1>5, <1>6, <1>7 DEF TypeOK

LEMMA TypeNext == TypeOK /\ [Next]_vars => TypeOK'
<1> SUFFICES ASSUME TypeOK, [Next]_vars PROVE TypeOK'
  OBVIOUS
<1>a. /\ doc \in [Cameras -> DocType] /\ rec \in [Cameras -> RecType]
      /\ stream \in [Venues -> [Cameras -> StreamState]] /\ up \in BOOLEAN
      /\ task \in [Clients -> TaskType] /\ faults \in 0..MaxFaults /\ disturbed \subseteq Cameras
  BY DEF TypeOK
<1>1. ASSUME NEW k \in Clients, NEW op \in Ops, NEW v \in Venues, NEW c \in Cameras, Arrives(k, op, v, c)
      PROVE  TypeOK'
  <2>1. PICK failed \in BOOLEAN :
            /\ Call(c, failed, Busy(c))
            /\ task' = [task EXCEPT ![k] =
                 [op |-> op, phase |-> IF op = "health" THEN "judge" ELSE "look",
                  venue |-> v, camera |-> c, seen |-> Answer(c, failed)]]
    BY <1>1 DEF Arrives
  <2>2. faults' \in 0..MaxFaults /\ disturbed' \subseteq Cameras
    BY <1>a, <2>1, FaultBound DEF Call
  <2>3. Answer(c, failed) \in Venues \cup {NoVenue}
    BY Fields DEF Answer
  <2>4. task' \in [Clients -> TaskType]
    BY <1>a, <2>1, <2>3, PhasesKnown DEF TaskType
  <2> QED
    BY <1>1, <1>a, <2>2, <2>4 DEF Arrives, TypeOK
<1>2. ASSUME NEW k \in Clients, RequestSteps(k) PROVE TypeOK'
  <2> DEFINE c == task[k].camera
  <2>a. task[k].phase # "idle"
    BY <1>2 DEF RequestSteps, RegisterRefused, SaveLooks, Inserts, Replaces, Remembers, StartRefused,
         StartConnects, StartFails, PutsStatus, Reports, Judges, DeleteRefused, DeleteStops, StopRefused,
         StopAwaitsTasks, StopJoins, StopFindsNone, Erases, Forgets, At, AtStop
  <2>b. c \in Cameras /\ task[k].venue \in Venues
    BY <2>a, TaskAtWork
  <2>c. /\ \A phase \in Phases : To(k, phase) \/ ReadsAgain(k, phase) => task' \in [Clients -> TaskType]
        /\ Ends(k) => task' \in [Clients -> TaskType]
    BY <2>a, TaskTyped
  <2>d. ASSUME NEW failed \in BOOLEAN, Call(c, failed, FALSE)
        PROVE  faults' \in 0..MaxFaults /\ disturbed' \subseteq Cameras
    BY <2>b, <2>d, CallTyped
  <2>e. \A s \in StreamState : StreamTo(k, s) => stream' \in [Venues -> [Cameras -> StreamState]]
    BY <1>a, <2>b DEF StreamTo
  <2>f. Published(k) \in [Cameras -> DocType]
    BY <1>a, <2>b DEF Published, DocType, Stored
  <2>1. CASE RegisterRefused(k) \/ StartRefused(k) \/ DeleteRefused(k)
    BY <1>a, <2>1, <2>c DEF RegisterRefused, StartRefused, DeleteRefused, TypeOK, history
  <2>2. CASE SaveLooks(k)
    BY <1>a, <2>2, <2>c, <2>d, PhasesKnown DEF SaveLooks, TypeOK
  <2>3. CASE Inserts(k)
    BY <1>a, <2>3, <2>c, <2>d, <2>f, PhasesKnown DEF Inserts, TypeOK
  <2>4. CASE Replaces(k)
    BY <1>a, <2>4, <2>c, <2>d, <2>f, PhasesKnown DEF Replaces, TypeOK
  <2>5. CASE Remembers(k)
    <3>1. rec' \in [Cameras -> RecType]
      BY <1>a, <2>5, <2>b DEF Remembers, RecType, Stored
    <3> QED
      BY <1>a, <2>5, <2>c, <3>1 DEF Remembers, TypeOK, history
  <2>6. CASE StartConnects(k)
    <3>1. rec' \in [Cameras -> RecType]
      BY <2>6, <2>a, RecordedTyped DEF StartConnects
    <3> QED
      BY <1>a, <2>6, <2>c, <2>e, <3>1, PhasesKnown DEF StartConnects, TypeOK, history, StreamState
  <2>7. CASE StartFails(k)
    <3>1. rec' \in [Cameras -> RecType]
      BY <2>7, <2>a, RecordedTyped DEF StartFails
    <3> QED
      BY <1>a, <2>7, <2>c, <2>e, <3>1, PhasesKnown DEF StartFails, TypeOK, history, StreamState
  <2>8. CASE PutsStatus(k)
    <3>1. PICK failed \in BOOLEAN :
              /\ Call(c, failed, FALSE)
              /\ doc' = IF failed THEN doc
                        ELSE [doc EXCEPT ![c] = WithStatus(c, IF task[k].phase = "putOn" THEN "ONLINE" ELSE "OFFLINE")]
      BY <2>8 DEF PutsStatus
    <3>2. \A s \in {"ONLINE", "OFFLINE"} : WithStatus(c, s) \in DocType
      BY <2>b, StatusTyped
    <3>3. doc' \in [Cameras -> DocType]
      BY <1>a, <3>1, <3>2
    <3> QED
      BY <1>a, <2>8, <2>c, <2>d, <3>1, <3>3, PhasesKnown DEF PutsStatus, TypeOK
  <2>9. CASE Reports(k) \/ DeleteStops(k)
    <3>1. \E failed \in BOOLEAN : Call(c, failed, FALSE)
      BY <2>9 DEF Reports, DeleteStops, ReadsAgain
    <3> QED
      BY <1>a, <2>9, <2>c, <2>d, <3>1, PhasesKnown DEF Reports, DeleteStops, TypeOK
  <2>10. CASE Judges(k)
    <3>1. rec' \in [Cameras -> RecType]
      BY <1>a, <2>10, <2>b, StatusTyped DEF Judges
    <3> QED
      BY <1>a, <2>10, <2>c, <3>1, PhasesKnown DEF Judges, TypeOK, history
  <2>11. CASE StopRefused(k)
    BY <1>a, <2>11, <2>c, PhasesKnown DEF StopRefused, TypeOK, history
  <2>12. CASE StopAwaitsTasks(k)
    BY <1>a, <2>12, <2>c, <2>e, PhasesKnown DEF StopAwaitsTasks, TypeOK, history, StreamState
  <2>13. CASE StopJoins(k)
    <3>1. rec' \in [Cameras -> RecType]
      BY <2>13, <2>b, StatusTyped DEF StopJoins
    <3> QED
      BY <1>a, <2>13, <2>c, <2>e, <3>1, PhasesKnown DEF StopJoins, TypeOK, history, StreamState
  <2>14. CASE StopFindsNone(k)
    <3>1. rec' \in [Cameras -> RecType]
      BY <2>14, <2>b, StatusTyped DEF StopFindsNone
    <3> QED
      BY <1>a, <2>14, <2>c, <3>1, PhasesKnown DEF StopFindsNone, TypeOK, history
  <2>15. CASE Erases(k)
    <3>1. doc' \in [Cameras -> DocType]
      BY <1>a, <2>15, <2>b DEF Erases, DocType
    <3> QED
      BY <1>a, <2>15, <2>c, <2>d, <3>1, PhasesKnown DEF Erases, TypeOK
  <2>16. CASE Forgets(k)
    <3>1. rec' \in [Cameras -> RecType]
      BY <1>a, <2>16, <2>b DEF Forgets, RecType
    <3> QED
      BY <1>a, <2>16, <2>c, <3>1 DEF Forgets, TypeOK, history
  <2> QED
    BY <1>2, <2>1, <2>2, <2>3, <2>4, <2>5, <2>6, <2>7, <2>8, <2>9, <2>10, <2>11, <2>12, <2>13, <2>14,
       <2>15, <2>16 DEF RequestSteps
<1>3. ASSUME NEW c \in Cameras, FrameArrives(c) PROVE TypeOK'
  <2>1. [rec[c] EXCEPT !.framed = TRUE] \in RecType
    BY <1>3, Fields DEF FrameArrives, RecType
  <2> QED
    BY <1>a, <1>3, <2>1 DEF FrameArrives, TypeOK, history
<1>4. ASSUME NEW v \in Venues, NEW c \in Cameras, SourceFails(v, c) PROVE TypeOK'
  <2>1. \E s \in StreamState : stream' = [stream EXCEPT ![v][c] = s]
    BY <1>4 DEF SourceFails, StreamState
  <2>2. stream' \in [Venues -> [Cameras -> StreamState]]
    BY <1>a, <2>1
  <2> QED
    BY <1>a, <1>4, <2>2 DEF SourceFails, TypeOK, history
<1>5. CASE StartRuntime
  <2>1. Reconciled \in [Cameras -> DocType]
    BY <1>a, StatusTyped DEF Reconciled
  <2> QED
    BY <1>a, <1>5, <2>1 DEF StartRuntime, TypeOK, history
<1>6. CASE StopRuntime
  BY <1>a, <1>6 DEF StopRuntime, TypeOK, NoRecords, NoStreams, RecType, TaskType, StreamState
<1>7. CASE UNCHANGED vars
  BY <1>a, <1>7 DEF vars, TypeOK
<1> QED
  BY <1>1, <1>2, <1>3, <1>4, <1>5, <1>6, <1>7 DEF Next

\* Documents, records, streams and tasks keep their shape.
THEOREM TypeCorrect == Spec => []TypeOK
  BY TypeInit, TypeNext, PTL DEF Spec

------------------------------------------------------------------------------
(* Refinement. *)

\* What a status update does to the collection.
LEMMA WithStatusSwitches ==
    ASSUME TypeOK, NEW c \in Cameras, NEW s \in {"ONLINE", "OFFLINE"},
           doc' = [doc EXCEPT ![c] = WithStatus(c, s)]
    PROVE  UNCHANGED doc \/ Catalog!Switch(c, s)
<1>1. CASE doc[c] = NoDoc
  BY <1>1 DEF WithStatus, TypeOK
<1>2. CASE doc[c] # NoDoc
  BY <1>2 DEF WithStatus, Catalog!Switch, Catalog!NoDoc, NoDoc
<1> QED
  BY <1>1, <1>2

\* A step of a request changes its own camera's document as the catalog allows.
LEMMA RequestRefines ==
    ASSUME TypeOK, NEW k \in Clients, RequestSteps(k)
    PROVE  UNCHANGED doc \/ Catalog!CatalogNext
<1> DEFINE c == task[k].camera
<1>1. CASE Inserts(k) \/ Replaces(k)
  <2>1. c \in Cameras /\ task[k].venue \in Venues
    BY <1>1, TaskAtWork DEF Inserts, Replaces, At
  <2>2. UNCHANGED doc \/ doc' = Published(k)
    BY <1>1 DEF Inserts, Replaces
  <2> QED
    BY <2>1, <2>2 DEF Published, Catalog!CatalogNext, Catalog!Publish
<1>2. CASE PutsStatus(k)
  <2>1. c \in Cameras
    BY <1>2, TaskAtWork DEF PutsStatus
  <2>2. \/ UNCHANGED doc
        \/ \E s \in {"ONLINE", "OFFLINE"} : doc' = [doc EXCEPT ![c] = WithStatus(c, s)]
    BY <1>2 DEF PutsStatus
  <2>3. UNCHANGED doc \/ \E s \in {"ONLINE", "OFFLINE"} : Catalog!Switch(c, s)
    BY <2>1, <2>2, WithStatusSwitches
  <2> QED
    BY <2>1, <2>3 DEF Catalog!CatalogNext, Catalog!Switched
<1>3. CASE Erases(k)
  <2>1. c \in Cameras
    BY <1>3, TaskAtWork DEF Erases
  <2> QED
    BY <1>3, <2>1 DEF Erases, Catalog!CatalogNext, Catalog!Withdraw, Catalog!NoDoc, NoDoc
<1> QED
  BY <1>1, <1>2, <1>3 DEF RequestSteps, RegisterRefused, SaveLooks, Remembers, StartRefused, StartConnects,
     StartFails, Reports, Judges, DeleteRefused, DeleteStops, StopRefused, StopAwaitsTasks, StopJoins,
     StopFindsNone, Forgets

\* The reconcile settles the collection.
LEMMA ReconcileSettles ==
    ASSUME TypeOK, doc' = Reconciled
    PROVE  Catalog!Settle
<1>1. ASSUME NEW c \in Cameras, doc[c].status \in {"ONLINE", "RECONNECTING"}
      PROVE  WithStatus(c, "OFFLINE") = [doc[c] EXCEPT !.status = "OFFLINE"]
  BY <1>1, Fields DEF WithStatus
<1> QED
  BY <1>1 DEF Reconciled, Catalog!Settle

\* The collection changes as CameraCatalog allows: a late start or stop does not bring a
\* deleted camera back, only a registration changes an owner, and no guess of a health
\* check is stored.
THEOREM Refinement == Spec => ImplementsCatalog
<1>1. Init => Catalog!CatalogInit
  BY DEF Init, Catalog!CatalogInit, Catalog!NoDoc, NoDoc
<1>2. TypeOK /\ [Next]_vars => [Catalog!CatalogNext]_doc
  <2> SUFFICES ASSUME TypeOK, [Next]_vars PROVE [Catalog!CatalogNext]_doc
    OBVIOUS
  <2>1. CASE \E k \in Clients : RequestSteps(k)
    BY <2>1, RequestRefines
  <2>2. CASE StartRuntime
    <3>1. UNCHANGED doc \/ doc' = Reconciled
      BY <2>2 DEF StartRuntime
    <3> QED
      BY <3>1, ReconcileSettles DEF Catalog!CatalogNext
  <2>3. CASE UNCHANGED vars
    BY <2>3 DEF vars
  <2> QED
    BY <2>1, <2>2, <2>3 DEF Next, Arrives, FrameArrives, SourceFails, StopRuntime
<1> QED
  BY <1>1, <1>2, TypeInit, TypeNext, PTL DEF Spec, ImplementsCatalog, Catalog!CatalogSpec

------------------------------------------------------------------------------
(* One request at a time. *)

\* The three parts of a camera: what SerialAgreement says between requests.
Agree(c) ==
    /\ rec[c].venue = doc[c].venue
    /\ doc[c].status = IF rec[c].status = "DEGRADED" THEN "ONLINE" ELSE rec[c].status

\* Only the owner has a stream, and one that captures belongs to a camera shown so.
Streams(c) ==
    \A v \in Venues :
        /\ stream[v][c] # "absent" => stream[v][c] = "stuck" \/ v = doc[c].venue
        /\ stream[v][c] = "on" => rec[c].status \in {"ONLINE", "DEGRADED"}

NoneRuns(c) == \A v \in Venues : stream[v][c] \in {"absent", "stuck"}

Whole(c) == Agree(c) /\ Streams(c)

\* What a request that has had its camera to itself knows at each of its awaits.
InHand(k) ==
    LET t == task[k]
        c == t.camera
        owned == doc[c].venue = t.venue
        stopped == t.op = "delete" => NoneRuns(c) IN
    /\ t.phase \notin {"idle", "remember", "putOn", "putOff", "forget"} => Whole(c)
    /\ t.phase \in {"look", "own", "judge"} => t.seen = doc[c].venue
    /\ t.phase \in {"own", "join", "putOn", "putOff", "report", "erase"} => owned
    /\ t.phase = "judge" /\ t.op # "health" => owned /\ stopped
    /\ t.phase = "report" => stopped
    /\ t.phase = "erase" => NoneRuns(c)
    /\ t.phase = "insert" => doc[c] = NoDoc
    /\ t.phase # "replace"
    /\ t.phase = "remember" =>
         /\ doc[c] = [venue |-> t.venue, status |-> "REGISTERED"]
         /\ NoneRuns(c)
    /\ t.phase = "putOn" =>
         /\ rec[c].venue = t.venue /\ rec[c].status = "ONLINE" /\ Streams(c)
         /\ t.op # "delete"
    /\ t.phase = "putOff" => rec[c].venue = t.venue /\ rec[c].status = "OFFLINE" /\ Streams(c) /\ stopped
    /\ t.phase = "forget" => doc[c] = NoDoc /\ NoneRuns(c)

Alone(c) == \A k, l \in Clients : Mine(k, c) /\ Mine(l, c) => k = l

\* The invariant of a camera that nothing has disturbed.
Calm(c) ==
    /\ Alone(c)
    /\ \A k \in Clients : Mine(k, c) => InHand(k)
    /\ ~Busy(c) => Whole(c)

\* While the process is down nothing is in flight, and what was stored is disturbed.
Down ==
    up \/ /\ \A k \in Clients : task[k].phase = "idle"
          /\ \A c \in Cameras : c \in disturbed \/ doc[c] = NoDoc

IInv == TypeOK /\ Down /\ \A c \in Cameras : c \in disturbed \/ Calm(c)

\* A request may use an undisturbed camera if it is its venue's, and then the camera has
\* a record.
LEMMA MayUseOwned ==
    ASSUME TypeOK, NEW k \in Clients, task[k].phase # "idle", Agree(task[k].camera),
           task[k].seen = doc[task[k].camera].venue
    PROVE  /\ MayUse(k) <=> doc[task[k].camera].venue = task[k].venue
           /\ MayUse(k) => rec[task[k].camera] # NoRec /\ rec[task[k].camera].venue = task[k].venue
<1> DEFINE c == task[k].camera
<1>1. c \in Cameras /\ task[k].venue \in Venues
  BY TaskAtWork
<1>2. MayUse(k) <=> doc[c].venue = task[k].venue
  BY <1>1, NoVenueIsNoVenue DEF Agree, MayUse, Owner
<1>3. doc[c].venue = task[k].venue => rec[c] # NoRec /\ rec[c].venue = task[k].venue
  BY <1>1, Fields, NoVenueIsNoVenue DEF Agree
<1> QED
  BY <1>2, <1>3

\* What the three ways to move a task do to it, and to the others.
LEMMA TaskMoves ==
    ASSUME TypeOK, NEW k \in Clients, task[k].phase # "idle"
    PROVE  /\ \A phase \in Phases : To(k, phase) =>
                /\ task'[k].phase = phase /\ task'[k].seen = NoVenue
                /\ task'[k].op = task[k].op /\ task'[k].venue = task[k].venue
                /\ task'[k].camera = task[k].camera
                /\ \A l \in Clients \ {k} : task'[l] = task[l]
           /\ \A phase \in Phases : ReadsAgain(k, phase) =>
                /\ task'[k].phase = phase
                /\ task'[k].op = task[k].op /\ task'[k].venue = task[k].venue
                /\ task'[k].camera = task[k].camera
                /\ task[k].camera \in disturbed' \/ task'[k].seen = doc[task[k].camera].venue
                /\ disturbed \subseteq disturbed'
                /\ \A l \in Clients \ {k} : task'[l] = task[l]
           /\ Ends(k) =>
                /\ task'[k].phase = "idle"
                /\ \A l \in Clients \ {k} : task'[l] = task[l]
<1>1. task \in [Clients -> TaskType]
  BY DEF TypeOK
<1>2. task[k] \in [op : Ops, phase : Phases, venue : Venues, camera : Cameras, seen : Venues \cup {NoVenue}]
  BY <1>1 DEF TaskType, NoTask
<1>3. ASSUME NEW phase \in Phases, To(k, phase)
      PROVE  /\ task'[k].phase = phase /\ task'[k].seen = NoVenue
             /\ task'[k].op = task[k].op /\ task'[k].venue = task[k].venue
             /\ task'[k].camera = task[k].camera
             /\ \A l \in Clients \ {k} : task'[l] = task[l]
  BY <1>1, <1>2, <1>3 DEF To
<1>4. ASSUME NEW phase \in Phases, ReadsAgain(k, phase)
      PROVE  /\ task'[k].phase = phase
             /\ task'[k].op = task[k].op /\ task'[k].venue = task[k].venue
             /\ task'[k].camera = task[k].camera
             /\ task[k].camera \in disturbed' \/ task'[k].seen = doc[task[k].camera].venue
             /\ disturbed \subseteq disturbed'
             /\ \A l \in Clients \ {k} : task'[l] = task[l]
  <2>1. PICK failed \in BOOLEAN :
            /\ Call(task[k].camera, failed, FALSE)
            /\ task' = [task EXCEPT ![k].phase = phase, ![k].seen = Answer(task[k].camera, failed)]
    BY <1>4 DEF ReadsAgain
  <2>2. disturbed \subseteq disturbed' /\ (failed => task[k].camera \in disturbed')
    BY <2>1 DEF Call
  <2> QED
    BY <1>1, <1>2, <2>1, <2>2 DEF Answer
<1>5. Ends(k) => task'[k].phase = "idle" /\ \A l \in Clients \ {k} : task'[l] = task[l]
  BY <1>1 DEF Ends, NoTask
<1> QED
  BY <1>3, <1>4, <1>5

\* A call that does not disturb the camera has not failed.
LEMMA CallCalm ==
    ASSUME NEW c, NEW failed \in BOOLEAN, NEW crowded \in BOOLEAN, Call(c, failed, crowded)
    PROVE  disturbed \subseteq disturbed' /\ (c \in disturbed' \/ (~failed /\ ~crowded))
  BY DEF Call

\* One stream moves, and no other.
LEMMA StreamMoves ==
    ASSUME TypeOK, NEW k \in Clients, task[k].phase # "idle", NEW s, StreamTo(k, s)
    PROVE  \A v \in Venues, c \in Cameras :
             stream'[v][c] = IF v = task[k].venue /\ c = task[k].camera THEN s ELSE stream[v][c]
<1> DEFINE w == task[k].venue
           cc == task[k].camera
<1>1. w \in Venues /\ cc \in Cameras
  BY TaskAtWork
<1>2. stream \in [Venues -> [Cameras -> StreamState]]
  BY DEF TypeOK
<1>3. stream' = [stream EXCEPT ![w] = [stream[w] EXCEPT ![cc] = s]]
  BY DEF StreamTo
<1> HIDE DEF w, cc
<1>4. \A v \in Venues : stream[v] \in [Cameras -> StreamState]
  BY <1>2
<1>5. \A v \in Venues : stream'[v] = IF v = w THEN [stream[w] EXCEPT ![cc] = s] ELSE stream[v]
  BY <1>2, <1>3
<1>6. \A c \in Cameras : [stream[w] EXCEPT ![cc] = s][c] = IF c = cc THEN s ELSE stream[w][c]
  BY <1>1, <1>4
<1> QED
  BY <1>5, <1>6 DEF w, cc

\* A request touches its own camera and its own task only.
LEMMA RequestLocal ==
    ASSUME TypeOK, NEW k \in Clients, RequestSteps(k)
    PROVE  /\ task[k].phase # "idle"
           /\ task'[k].phase = "idle" \/ task'[k].camera = task[k].camera
           /\ \A l \in Clients \ {k} : task'[l] = task[l]
           /\ disturbed \subseteq disturbed' /\ up' = up
           /\ \A c \in Cameras \ {task[k].camera} :
                /\ doc'[c] = doc[c] /\ rec'[c] = rec[c]
                /\ \A v \in Venues : stream'[v][c] = stream[v][c]
<1> DEFINE cc == task[k].camera
<1>1. task[k].phase # "idle"
  BY DEF RequestSteps, RegisterRefused, SaveLooks, Inserts, Replaces, Remembers, StartRefused,
     StartConnects, StartFails, PutsStatus, Reports, Judges, DeleteRefused, DeleteStops, StopRefused,
     StopAwaitsTasks, StopJoins, StopFindsNone, Erases, Forgets, At, AtStop
<1>2. cc \in Cameras /\ task[k].venue \in Venues
  BY <1>1, TaskAtWork
<1>3. up' = up
  BY DEF RequestSteps, RegisterRefused, SaveLooks, Inserts, Replaces, Remembers, StartRefused,
     StartConnects, StartFails, PutsStatus, Reports, Judges, DeleteRefused, DeleteStops, StopRefused,
     StopAwaitsTasks, StopJoins, StopFindsNone, Erases, Forgets
<1>4. Ends(k) \/ \E phase \in Phases : To(k, phase) \/ ReadsAgain(k, phase)
  BY PhasesKnown DEF RequestSteps, RegisterRefused, SaveLooks, Inserts, Replaces, Remembers, StartRefused,
     StartConnects, StartFails, PutsStatus, Reports, Judges, DeleteRefused, DeleteStops, StopRefused,
     StopAwaitsTasks, StopJoins, StopFindsNone, Erases, Forgets
<1>5. /\ task'[k].phase = "idle" \/ task'[k].camera = cc
      /\ \A l \in Clients \ {k} : task'[l] = task[l]
  BY <1>1, <1>4, TaskMoves
<1>6. disturbed \subseteq disturbed'
  <2>1. UNCHANGED history \/ \E failed \in BOOLEAN : Call(cc, failed, FALSE)
    BY DEF RequestSteps, RegisterRefused, SaveLooks, Inserts, Replaces, Remembers, StartRefused,
       StartConnects, StartFails, PutsStatus, Reports, Judges, DeleteRefused, DeleteStops, StopRefused,
       StopAwaitsTasks, StopJoins, StopFindsNone, Erases, Forgets, ReadsAgain
  <2> QED
    BY <2>1, CallCalm DEF history
<1>7. doc' = doc \/ \E d : doc' = [doc EXCEPT ![cc] = d]
  BY DEF RequestSteps, RegisterRefused, SaveLooks, Inserts, Replaces, Remembers, StartRefused,
     StartConnects, StartFails, PutsStatus, Reports, Judges, DeleteRefused, DeleteStops, StopRefused,
     StopAwaitsTasks, StopJoins, StopFindsNone, Erases, Forgets, Published
<1>8. \A c \in Cameras \ {cc} : rec'[c] = rec[c]
  <2>1. rec' = rec \/ \E r : rec' = [rec EXCEPT ![cc] = r]
    <3>1. \A s : Marked(cc, s) = rec \/ \E r : Marked(cc, s) = [rec EXCEPT ![cc] = r]
      BY DEF Marked
    <3>2. \A s : Recorded(k, s) = rec \/ \E r : Recorded(k, s) = [rec EXCEPT ![cc] = r]
      BY <3>1 DEF Recorded
    <3> QED
      BY <3>1, <3>2 DEF RequestSteps, RegisterRefused, SaveLooks, Inserts, Replaces, Remembers, StartRefused,
         StartConnects, StartFails, PutsStatus, Reports, Judges, DeleteRefused, DeleteStops, StopRefused,
         StopAwaitsTasks, StopJoins, StopFindsNone, Erases, Forgets
  <2> QED
    BY <2>1 DEF TypeOK
<1>9. \A c \in Cameras \ {cc}, v \in Venues : stream'[v][c] = stream[v][c]
  <2>1. stream' = stream \/ \E s : StreamTo(k, s)
    BY DEF RequestSteps, RegisterRefused, SaveLooks, Inserts, Replaces, Remembers, StartRefused,
       StartConnects, StartFails, PutsStatus, Reports, Judges, DeleteRefused, DeleteStops, StopRefused,
       StopAwaitsTasks, StopJoins, StopFindsNone, Erases, Forgets
  <2> QED
    BY <1>1, <2>1, StreamMoves
<1> QED
  BY <1>1, <1>3, <1>5, <1>6, <1>7, <1>8, <1>9 DEF TypeOK

\* A camera nothing has touched stays calm, as long as its requests do.
LEMMA CalmElsewhere ==
    ASSUME NEW c \in Cameras, Calm(c),
           doc'[c] = doc[c], rec'[c] = rec[c], \A v \in Venues : stream'[v][c] = stream[v][c],
           \A l \in Clients : Mine(l, c)' => Mine(l, c),
           \A l \in Clients : Mine(l, c) => task'[l] = task[l]
    PROVE  Calm(c)'
<1>1. \A l \in Clients : Mine(l, c) => Mine(l, c)'
  BY DEF Mine
<1>2. Alone(c)'
  BY DEF Calm, Alone
<1>3. ASSUME NEW l \in Clients, Mine(l, c)' PROVE InHand(l)'
  <2>1. Mine(l, c) /\ task'[l] = task[l] /\ InHand(l) /\ task[l].camera = c
    BY <1>3 DEF Calm, Mine
  <2> QED
    BY <2>1 DEF InHand, Whole, Agree, Streams, NoneRuns
<1>4. ~Busy(c)' => Whole(c)'
  <2>1. Busy(c)' <=> Busy(c)
    BY <1>1 DEF Busy, Mine
  <2>2. Whole(c) => Whole(c)'
    BY DEF Whole, Agree, Streams
  <2> QED
    BY <2>1, <2>2 DEF Calm
<1> QED
  BY <1>2, <1>3, <1>4 DEF Calm

\* The request that has the camera in hand takes it from one of its awaits to the next.
LEMMA CalmInHand ==
    ASSUME NEW k \in Clients, NEW c \in Cameras, Calm(c), Mine(k, c),
           \A l \in Clients \ {k} : task'[l] = task[l],
           task'[k].phase = "idle" \/ task'[k].camera = c,
           task'[k].phase = "idle" => Whole(c)',
           task'[k].phase # "idle" => InHand(k)'
    PROVE  Calm(c)'
<1>1. \A l \in Clients : Mine(l, c) => l = k
  BY DEF Calm, Alone
<1>2. \A l \in Clients : Mine(l, c)' => l = k
  BY <1>1 DEF Mine
<1>3. \A l \in Clients : Mine(l, c)' => InHand(l)'
  BY <1>2 DEF Mine
<1>4. ~Busy(c)' => Whole(c)'
  <2>1. ~Busy(c)' => task'[k].phase = "idle" \/ task'[k].camera # c
    BY DEF Busy
  <2> QED
    BY <2>1
<1> QED
  BY <1>2, <1>3, <1>4 DEF Calm, Alone

\* Where a step leaves an undisturbed camera.
LEMMA InHandStep ==
    ASSUME TypeOK, NEW k \in Clients, NEW c \in Cameras, c = task[k].camera,
           RequestSteps(k), InHand(k), c \notin disturbed'
    PROVE  /\ task'[k].phase = "idle" => Whole(c)'
           /\ task'[k].phase # "idle" => InHand(k)'
<1> DEFINE w == task[k].venue
<1> USE DEF At, InHand
<1>a. /\ task[k].phase # "idle" /\ w \in Venues /\ w # NoVenue
      /\ doc \in [Cameras -> DocType] /\ rec \in [Cameras -> RecType]
  BY RequestLocal, TaskAtWork, NoVenueIsNoVenue DEF TypeOK
<1>b. /\ \A phase \in Phases : To(k, phase) =>
          /\ task'[k].phase = phase /\ task'[k].seen = NoVenue
          /\ task'[k].op = task[k].op /\ task'[k].venue = w /\ task'[k].camera = c
      /\ \A phase \in Phases : ReadsAgain(k, phase) =>
          /\ task'[k].phase = phase /\ task'[k].seen = doc[c].venue
          /\ task'[k].op = task[k].op /\ task'[k].venue = w /\ task'[k].camera = c
      /\ Ends(k) => task'[k].phase = "idle"
  BY <1>a, TaskMoves
<1>c. \A s : StreamTo(k, s) => \A v \in Venues : stream'[v][c] = IF v = w THEN s ELSE stream[v][c]
  BY <1>a, StreamMoves
<1>d. \A failed \in BOOLEAN : Call(c, failed, FALSE) => ~failed
  BY CallCalm
<1>e. \A s : rec[c] # NoRec => Marked(c, s)[c] = [rec[c] EXCEPT !.status = s]
  BY <1>a DEF Marked
<1>f. task[k].phase \in {"look", "own", "judge"} =>
        /\ MayUse(k) <=> doc[c].venue = w
        /\ MayUse(k) => rec[c] # NoRec /\ rec[c].venue = w
  BY <1>a, MayUseOwned DEF Whole
<1>g. /\ doc[c] = NoDoc <=> doc[c].venue = NoVenue
      /\ rec[c] = NoRec <=> rec[c].venue = NoVenue
      /\ doc[c] = NoDoc => doc[c].status = "ABSENT"
      /\ rec[c] = NoRec => rec[c].status = "ABSENT"
  BY Fields
<1>h. ASSUME UNCHANGED <<doc, rec, stream>>
      PROVE  /\ Whole(c) => Whole(c)'
             /\ NoneRuns(c) => NoneRuns(c)'
             /\ doc'[c] = doc[c] /\ rec'[c] = rec[c]
  BY <1>h DEF Whole, Agree, Streams, NoneRuns
<1>1. CASE RegisterRefused(k) \/ StartRefused(k) \/ DeleteRefused(k)
  BY <1>1, <1>b, <1>h DEF RegisterRefused, StartRefused, DeleteRefused
<1>2. CASE SaveLooks(k)
  <2>1. doc[c].venue = NoVenue /\ Whole(c)
    BY <1>2 DEF SaveLooks
  <2>2. To(k, "insert")
    BY <1>2, <1>d, <2>1 DEF SaveLooks, Answer
  <2> QED
    BY <1>2, <1>b, <1>g, <1>h, <2>1, <2>2, PhasesKnown DEF SaveLooks
<1>3. CASE Inserts(k)
  <2>1. To(k, "remember") /\ doc' = Published(k) /\ UNCHANGED <<rec, stream>>
    BY <1>3, <1>d DEF Inserts
  <2>2. doc'[c] = [venue |-> w, status |-> "REGISTERED"]
    BY <1>a, <2>1 DEF Published
  <2>3. NoneRuns(c)'
    <3>1. doc[c].venue \notin Venues /\ Streams(c)
      BY <1>3, <1>g, NoVenueIsNoVenue DEF Inserts, Whole
    <3> QED
      BY <2>1, <3>1 DEF NoneRuns, Streams
  <2> QED
    BY <1>b, <2>1, <2>2, <2>3, PhasesKnown
<1>4. CASE Replaces(k)
  BY <1>4 DEF Replaces
<1>5. CASE Remembers(k)
  <2>1. /\ rec'[c] = [venue |-> w, status |-> "REGISTERED", framed |-> FALSE]
        /\ doc'[c] = [venue |-> w, status |-> "REGISTERED"] /\ NoneRuns(c) /\ stream' = stream
    BY <1>5, <1>a DEF Remembers
  <2>2. Whole(c)'
    BY <2>1 DEF Whole, Agree, Streams, NoneRuns
  <2> QED
    BY <1>5, <1>b, <2>2 DEF Remembers
<1>6. CASE StartConnects(k)
  <2>1. doc[c].venue = w /\ rec[c] # NoRec /\ rec[c].venue = w /\ Whole(c)
    BY <1>6, <1>f DEF StartConnects
  <2>2. rec'[c] = [rec[c] EXCEPT !.status = "ONLINE"] /\ doc' = doc
    BY <1>6, <1>e, <2>1 DEF StartConnects, Recorded
  <2>3. rec'[c].venue = w /\ rec'[c].status = "ONLINE"
    BY <2>1, <2>2, Fields
  <2>4. Streams(c)'
    BY <1>6, <1>c, <2>1, <2>2, <2>3 DEF StartConnects, Streams, Whole
  <2> QED
    BY <1>6, <1>b, <2>1, <2>2, <2>3, <2>4, PhasesKnown DEF StartConnects
<1>7. CASE StartFails(k)
  <2>1. doc[c].venue = w /\ rec[c] # NoRec /\ rec[c].venue = w /\ Whole(c)
    BY <1>7, <1>f DEF StartFails
  <2>2. rec'[c] = [rec[c] EXCEPT !.status = "OFFLINE"] /\ doc' = doc
    BY <1>7, <1>e, <2>1 DEF StartFails, Recorded
  <2>3. rec'[c].venue = w /\ rec'[c].status = "OFFLINE"
    BY <2>1, <2>2, Fields
  <2>4. Streams(c)'
    <3>1. PICK s \in {"halting", "off"} : \A v \in Venues : stream'[v][c] = IF v = w THEN s ELSE stream[v][c]
      BY <1>7, <1>c DEF StartFails
    <3>2. doc[c].venue = w /\ doc'[c].venue = w /\ Streams(c)
      BY <2>1, <2>2 DEF Whole
    <3> HIDE DEF At, InHand, w
    <3> QED
      BY <3>1, <3>2 DEF Streams
  <2> QED
    BY <1>7, <1>b, <2>1, <2>2, <2>3, <2>4, PhasesKnown DEF StartFails
<1>8. CASE PutsStatus(k)
  <2> DEFINE s == IF task[k].phase = "putOn" THEN "ONLINE" ELSE "OFFLINE"
  <2>1. /\ doc' = [doc EXCEPT ![c] = WithStatus(c, s)] /\ To(k, "report") /\ UNCHANGED <<rec, stream>>
        /\ doc[c].venue = w /\ rec[c].venue = w /\ rec[c].status = s /\ Streams(c)
        /\ task[k].op = "delete" /\ task[k].phase = "putOff" => NoneRuns(c)
    BY <1>8, <1>d DEF PutsStatus
  <2>2. doc'[c].venue = w /\ doc'[c].status = s
    BY <1>a, <1>g, <2>1, Fields DEF WithStatus
  <2>3. Whole(c)'
    BY <2>1, <2>2 DEF Whole, Agree, Streams
  <2> QED
    BY <1>8, <1>b, <2>1, <2>2, <2>3, PhasesKnown DEF PutsStatus, NoneRuns
<1>9. CASE Reports(k)
  BY <1>9, <1>b, <1>h, PhasesKnown DEF Reports
<1>10. CASE Judges(k)
  <2>1. Whole(c)' /\ UNCHANGED doc /\ UNCHANGED stream
    <3>1. CASE UNCHANGED rec
      BY <1>10, <1>h, <3>1 DEF Judges
    <3>2. CASE MayUse(k) /\ MayBeStale(c) /\ rec' = Marked(c, "DEGRADED")
      <4>1. rec'[c] = [rec[c] EXCEPT !.status = "DEGRADED"] /\ rec[c].status = "ONLINE" /\ rec[c] # NoRec
        BY <1>10, <1>e, <1>f, <3>2 DEF Judges, MayBeStale
      <4>2. rec'[c].venue = rec[c].venue /\ rec'[c].status = "DEGRADED"
        BY <4>1, Fields
      <4> QED
        BY <1>10, <4>1, <4>2 DEF Judges, Whole, Agree, Streams
    <3> QED
      BY <1>10, <3>1, <3>2 DEF Judges
  <2>2. CASE task[k].op = "delete"
    BY <1>10, <1>b, <2>1, <2>2, PhasesKnown DEF Judges, NoneRuns
  <2>3. CASE task[k].op # "delete"
    BY <1>10, <1>b, <2>1, <2>3 DEF Judges
  <2> QED
    BY <2>2, <2>3
<1>11. CASE DeleteStops(k)
  BY <1>11, <1>b, <1>f, <1>h, PhasesKnown DEF DeleteStops
<1>12. CASE StopRefused(k)
  BY <1>12, <1>b, <1>f, <1>h DEF StopRefused, AtStop
<1>13. CASE StopAwaitsTasks(k)
  <2>1. doc[c].venue = w /\ Whole(c) /\ UNCHANGED <<doc, rec>>
    BY <1>13, <1>f DEF StopAwaitsTasks, AtStop
  <2>2. Whole(c)'
    BY <1>13, <1>c, <2>1 DEF StopAwaitsTasks, Whole, Agree, Streams
  <2> QED
    BY <1>13, <1>b, <2>1, <2>2, PhasesKnown DEF StopAwaitsTasks
<1>14. CASE StopJoins(k)
  <2>1. doc[c].venue = w /\ Whole(c) /\ rec[c].venue = w /\ rec[c] # NoRec /\ UNCHANGED doc
    BY <1>14, <1>a, <1>g DEF StopJoins, Whole, Agree
  <2>2. rec'[c].venue = w /\ rec'[c].status = "OFFLINE"
    <3>1. rec'[c] = [rec[c] EXCEPT !.status = "OFFLINE"]
      BY <1>14, <1>e, <2>1 DEF StopJoins
    <3> QED
      BY <2>1, <3>1, Fields
  <2>3. NoneRuns(c)'
    BY <1>14, <1>c, <2>1 DEF StopJoins, Whole, Streams, NoneRuns
  <2>4. Streams(c)'
    BY <2>1, <1>14, <1>c DEF Streams, Whole, StopJoins
  <2> QED
    BY <1>14, <1>b, <2>1, <2>2, <2>3, <2>4, PhasesKnown DEF StopJoins
<1>15. CASE StopFindsNone(k)
  <2>1. doc[c].venue = w /\ Whole(c) /\ rec[c].venue = w /\ rec[c] # NoRec /\ UNCHANGED <<doc, stream>>
    BY <1>15, <1>f DEF StopFindsNone, AtStop
  <2>2. rec'[c].venue = w /\ rec'[c].status = "OFFLINE"
    <3>1. rec'[c] = [rec[c] EXCEPT !.status = "OFFLINE"]
      BY <1>15, <1>e, <2>1 DEF StopFindsNone
    <3> QED
      BY <2>1, <3>1, Fields
  <2>3. NoneRuns(c)'
    BY <1>15, <2>1 DEF StopFindsNone, StreamOf, Whole, Streams, NoneRuns
  <2>4. Streams(c)'
    BY <2>1, <2>3 DEF Streams, Whole, NoneRuns
  <2> QED
    BY <1>15, <1>b, <2>1, <2>2, <2>3, <2>4, PhasesKnown DEF StopFindsNone
<1>16. CASE Erases(k)
  <2>1. doc'[c] = NoDoc /\ NoneRuns(c)'
    BY <1>16, <1>a, <1>d DEF Erases, NoneRuns
  <2> QED
    BY <1>16, <1>b, <2>1, PhasesKnown DEF Erases
<1>17. CASE Forgets(k)
  <2>1. doc'[c] = NoDoc /\ rec'[c] = NoRec /\ NoneRuns(c)'
    BY <1>17, <1>a DEF Forgets, NoneRuns
  <2>2. Whole(c)'
    BY <2>1 DEF NoDoc, NoRec, Whole, Agree, Streams, NoneRuns
  <2> QED
    BY <1>17, <1>b, <2>2 DEF Forgets
<1> HIDE DEF At, InHand, w
<1> QED
  BY <1>1, <1>2, <1>3, <1>4, <1>5, <1>6, <1>7, <1>8, <1>9, <1>10, <1>11, <1>12, <1>13, <1>14, <1>15,
     <1>16, <1>17 DEF RequestSteps

------------------------------------------------------------------------------
(* The invariant. *)

\* A request that arrives finds the camera as it is between requests.
LEMMA ArrivalKeepsCalm ==
    ASSUME IInv, NEW k \in Clients, NEW op \in Ops, NEW v \in Venues, NEW c \in Cameras,
           Arrives(k, op, v, c)
    PROVE  \A e \in Cameras : e \in disturbed' \/ Calm(e)'
<1>1. PICK failed \in BOOLEAN :
          /\ Call(c, failed, Busy(c))
          /\ task' = [task EXCEPT ![k] =
               [op |-> op, phase |-> IF op = "health" THEN "judge" ELSE "look",
                venue |-> v, camera |-> c, seen |-> Answer(c, failed)]]
  BY DEF Arrives
<1>2. /\ task[k].phase = "idle" /\ UNCHANGED <<doc, rec, stream>>
      /\ task'[k] = [op |-> op, phase |-> IF op = "health" THEN "judge" ELSE "look",
                     venue |-> v, camera |-> c, seen |-> Answer(c, failed)]
      /\ \A l \in Clients \ {k} : task'[l] = task[l]
  BY <1>1 DEF Arrives, IInv, TypeOK
<1>3. disturbed \subseteq disturbed' /\ (c \in disturbed' \/ (~failed /\ ~Busy(c)))
  BY <1>1 DEF Call
<1> SUFFICES ASSUME NEW e \in Cameras, e \notin disturbed' PROVE Calm(e)'
  OBVIOUS
<1>4. Calm(e)
  BY <1>3 DEF IInv
<1>5. CASE e # c
  <2>1. \A l \in Clients : Mine(l, e)' => Mine(l, e) /\ task'[l] = task[l]
    BY <1>2, <1>5 DEF Mine
  <2>2. \A l \in Clients : Mine(l, e) => task'[l] = task[l]
    BY <1>2 DEF Mine
  <2> QED
    BY <1>2, <1>4, <2>1, <2>2, CalmElsewhere
<1>6. CASE e = c
  <2>1. ~Busy(c) /\ ~failed /\ Whole(c)
    BY <1>3, <1>4, <1>6 DEF Calm
  <2>2. Whole(c)'
    BY <1>2, <2>1 DEF Whole, Agree, Streams
  <2>3. \A l \in Clients : Mine(l, c)' => l = k
    BY <1>2, <2>1 DEF Mine, Busy
  <2>4. InHand(k)'
    BY <1>2, <2>1, <2>2 DEF InHand, Answer
  <2>5. Busy(c)'
    BY <1>2 DEF Busy
  <2> QED
    BY <1>6, <2>3, <2>4, <2>5 DEF Calm, Alone
<1> QED
  BY <1>5, <1>6

\* A step of a request keeps every undisturbed camera calm: its own, and the others.
LEMMA RequestKeepsCalm ==
    ASSUME IInv, NEW k \in Clients, RequestSteps(k)
    PROVE  \A e \in Cameras : e \in disturbed' \/ Calm(e)'
<1> DEFINE c == task[k].camera
<1>1. /\ task[k].phase # "idle" /\ (task'[k].phase = "idle" \/ task'[k].camera = c)
      /\ \A l \in Clients \ {k} : task'[l] = task[l]
      /\ disturbed \subseteq disturbed'
      /\ \A e \in Cameras \ {c} :
           doc'[e] = doc[e] /\ rec'[e] = rec[e] /\ \A v \in Venues : stream'[v][e] = stream[v][e]
  BY RequestLocal DEF IInv
<1> HIDE DEF c
<1> SUFFICES ASSUME NEW e \in Cameras, e \notin disturbed' PROVE Calm(e)'
  OBVIOUS
<1>2. Calm(e)
  BY <1>1 DEF IInv
<1>3. CASE e # c
  <2>1. \A l \in Clients : Mine(l, e) => task'[l] = task[l]
    BY <1>1, <1>3 DEF Mine, c
  <2>2. \A l \in Clients : Mine(l, e)' => Mine(l, e)
    BY <1>1, <1>3 DEF Mine
  <2> QED
    BY <1>1, <1>2, <1>3, <2>1, <2>2, CalmElsewhere
<1>4. CASE e = c
  <2>1. Mine(k, e) /\ InHand(k)
    BY <1>1, <1>2, <1>4 DEF Mine, Calm, c
  <2>2. /\ task'[k].phase = "idle" => Whole(e)'
        /\ task'[k].phase # "idle" => InHand(k)'
    BY <1>4, <2>1, InHandStep DEF IInv, c
  <2> QED
    BY <1>1, <1>2, <1>4, <2>1, <2>2, CalmInHand
<1> QED
  BY <1>3, <1>4

\* A frame or a failing source changes nothing the invariant speaks of.
LEMMA StreamKeepsCalm ==
    ASSUME IInv, NEW v \in Venues, NEW c \in Cameras, FrameArrives(c) \/ SourceFails(v, c)
    PROVE  \A e \in Cameras : e \in disturbed' \/ Calm(e)'
<1>1. /\ UNCHANGED <<doc, task, disturbed>>
      /\ \A e \in Cameras : rec'[e].venue = rec[e].venue /\ rec'[e].status = rec[e].status
  <2>1. CASE FrameArrives(c)
    <3>1. rec' = [rec EXCEPT ![c].framed = TRUE] /\ rec[c] # NoRec /\ UNCHANGED <<doc, task, disturbed>>
      BY <2>1 DEF FrameArrives, history
    <3>2. rec[c] \in [venue : Venues, status : Stored \cup {"DEGRADED"}, framed : BOOLEAN]
      BY <3>1, Fields DEF IInv
    <3> QED
      BY <3>1, <3>2 DEF IInv, TypeOK
  <2>2. CASE SourceFails(v, c)
    BY <2>2 DEF SourceFails, history
  <2> QED
    BY <2>1, <2>2
<1>2. \A e \in Cameras, u \in Venues :
        /\ stream'[u][e] # "absent" => stream[u][e] # "absent"
        /\ stream[u][e] = "stuck" => stream'[u][e] = "stuck"
        /\ stream'[u][e] = "on" => stream[u][e] = "on"
        /\ stream[u][e] \in {"absent", "stuck"} => stream'[u][e] = stream[u][e]
  <2>1. CASE FrameArrives(c)
    BY <2>1 DEF FrameArrives
  <2>2. CASE SourceFails(v, c)
    <3>1. PICK s \in {"off", "stuck"} : stream' = [stream EXCEPT ![v][c] = s] /\ stream[v][c] \in {"on", "off"}
      BY <2>2 DEF SourceFails
    <3>2. stream' = [stream EXCEPT ![v] = [stream[v] EXCEPT ![c] = s]]
      BY <3>1
    <3>3. \A u \in Venues : stream'[u] = IF u = v THEN [stream[v] EXCEPT ![c] = s] ELSE stream[u]
      BY <3>2 DEF IInv, TypeOK
    <3>4. \A e \in Cameras : [stream[v] EXCEPT ![c] = s][e] = IF e = c THEN s ELSE stream[v][e]
      BY DEF IInv, TypeOK
    <3> QED
      BY <3>1, <3>3, <3>4
  <2> QED
    BY <2>1, <2>2
<1> SUFFICES ASSUME NEW e \in Cameras, e \notin disturbed' PROVE Calm(e)'
  OBVIOUS
<1>3. Calm(e)
  BY <1>1 DEF IInv
<1>4. /\ Agree(e) => Agree(e)'
      /\ Streams(e) => Streams(e)'
      /\ NoneRuns(e) => NoneRuns(e)'
  BY <1>1, <1>2 DEF Agree, Streams, NoneRuns
<1>5. ASSUME NEW l \in Clients, Mine(l, e)' PROVE InHand(l)'
  <2>1. InHand(l) /\ task[l].camera = e /\ task' = task
    BY <1>1, <1>3, <1>5 DEF Mine, Calm
  <2> QED
    BY <1>1, <1>4, <2>1 DEF InHand, Whole
<1> QED
  BY <1>1, <1>3, <1>4, <1>5 DEF Calm, Alone, Busy, Mine, Whole

\* The process comes up with nothing stored that is undisturbed, and goes down leaving
\* nothing stored undisturbed.
LEMMA ProcessKeepsCalm ==
    ASSUME IInv, StartRuntime \/ StopRuntime
    PROVE  Down' /\ \A e \in Cameras : e \in disturbed' \/ Calm(e)'
<1>1. CASE StartRuntime
  <2>1. up' /\ UNCHANGED <<rec, stream, task, disturbed>> /\ (doc' = doc \/ doc' = Reconciled)
        /\ \A e \in Cameras : e \in disturbed \/ doc[e] = NoDoc
    BY <1>1 DEF StartRuntime, IInv, Down, history
  <2> SUFFICES ASSUME NEW e \in Cameras, e \notin disturbed' PROVE Calm(e)'
    BY <2>1 DEF Down
  <2>2. Calm(e) /\ doc[e] = NoDoc
    BY <2>1 DEF IInv
  <2>3. doc'[e] = doc[e]
    BY <2>1, <2>2 DEF Reconciled, NoDoc
  <2> QED
    BY <2>1, <2>2, <2>3, CalmElsewhere DEF Mine
<1>2. CASE StopRuntime
  <2>1. /\ \A k \in Clients : task'[k].phase = "idle"
        /\ UNCHANGED doc /\ \A e \in Cameras : e \in disturbed' \/ doc[e] = NoDoc
        /\ rec' = NoRecords /\ stream' = NoStreams
    BY <1>2 DEF StopRuntime, NoTask
  <2> SUFFICES ASSUME NEW e \in Cameras, e \notin disturbed' PROVE Calm(e)'
    BY <2>1 DEF Down
  <2>2. doc'[e] = NoDoc /\ rec'[e] = NoRec /\ \A v \in Venues : stream'[v][e] = "absent"
    BY <2>1 DEF NoRecords, NoStreams
  <2>3. Whole(e)'
    BY <2>2 DEF Whole, Agree, Streams, NoDoc, NoRec
  <2> QED
    BY <2>1, <2>3 DEF Calm, Alone, Mine
<1> QED
  BY <1>1, <1>2

LEMMA InitInv == Init => IInv
<1> SUFFICES ASSUME Init PROVE IInv
  OBVIOUS
<1>1. \A k \in Clients : task[k].phase = "idle"
  BY DEF Init, NoTask
<1>2. Down
  BY <1>1 DEF Init, Down
<1>3. ASSUME NEW c \in Cameras PROVE Calm(c)
  <2>1. doc[c] = NoDoc /\ rec[c] = NoRec /\ \A v \in Venues : stream[v][c] = "absent"
    BY DEF Init, NoRecords, NoStreams
  <2>2. Whole(c)
    BY <2>1 DEF Whole, Agree, Streams, NoDoc, NoRec
  <2> QED
    BY <1>1, <2>2 DEF Calm, Alone, Mine
<1> QED
  BY <1>2, <1>3, TypeInit DEF IInv

LEMMA InvNext == IInv /\ [Next]_vars => IInv'
<1> SUFFICES ASSUME IInv, [Next]_vars PROVE IInv'
  OBVIOUS
<1>1. TypeOK'
  BY TypeNext DEF IInv
<1>2. ASSUME NEW k \in Clients, NEW op \in Ops, NEW v \in Venues, NEW c \in Cameras, Arrives(k, op, v, c)
      PROVE  IInv'
  BY <1>1, <1>2, ArrivalKeepsCalm DEF IInv, Down, Arrives
<1>3. ASSUME NEW k \in Clients, RequestSteps(k) PROVE IInv'
  <2>1. task[k].phase # "idle" /\ up' = up
    BY <1>3, RequestLocal DEF IInv
  <2>2. Down'
    BY <2>1 DEF IInv, Down
  <2> QED
    BY <1>1, <1>3, <2>2, RequestKeepsCalm DEF IInv
<1>4. ASSUME NEW v \in Venues, NEW c \in Cameras, FrameArrives(c) \/ SourceFails(v, c) PROVE IInv'
  <2>1. Down'
    BY <1>4 DEF IInv, Down, FrameArrives, SourceFails, history
  <2> QED
    BY <1>1, <1>4, <2>1, StreamKeepsCalm DEF IInv
<1>5. CASE StartRuntime \/ StopRuntime
  BY <1>1, <1>5, ProcessKeepsCalm DEF IInv
<1>6. CASE UNCHANGED vars
  <2>1. UNCHANGED <<doc, rec, stream, up, task, disturbed>>
    BY <1>6 DEF vars
  <2>2. ASSUME NEW e \in Cameras, e \notin disturbed' PROVE Calm(e)'
    BY <2>1, <2>2, CalmElsewhere DEF IInv, Mine
  <2> QED
    BY <1>1, <2>1, <2>2 DEF IInv, Down
<1>7. ASSUME NEW c \in Cameras, FrameArrives(c) PROVE IInv'
  BY <1>4, <1>7 DEF FrameArrives
<1> QED
  BY <1>2, <1>3, <1>4, <1>5, <1>6, <1>7 DEF Next

\* The inductive invariant holds.
THEOREM Invariance == Spec => []IInv
  BY InitInv, InvNext, PTL DEF Spec

\* Document, record and streams of a camera whose requests came one at a time agree
\* between requests.
THEOREM Agreement == Spec => []SerialAgreement
<1>1. IInv => SerialAgreement
  <2> SUFFICES ASSUME IInv, NEW c \in Cameras, c \notin disturbed, ~Busy(c)
               PROVE  /\ rec[c].venue = doc[c].venue
                      /\ doc[c].status = IF rec[c].status = "DEGRADED" THEN "ONLINE" ELSE rec[c].status
                      /\ \A v \in Venues :
                           /\ stream[v][c] # "absent" => stream[v][c] = "stuck" \/ v = doc[c].venue
                           /\ stream[v][c] = "on" => Listed(c) \in {"ONLINE", "DEGRADED"}
    BY DEF SerialAgreement
  <2>1. Whole(c)
    BY DEF IInv, Calm
  <2>2. rec[c] = NoRec => rec[c].status = "ABSENT"
    BY Fields DEF IInv
  <2> QED
    BY <2>1, <2>2 DEF Whole, Agree, Streams, Listed
<1> QED
  BY <1>1, Invariance, PTL

\* A request leaves the undisturbed camera of another venue alone.
LEMMA OthersLeftAlone ==
    ASSUME IInv, NEW k \in Clients, RequestSteps(k), NEW c \in Cameras, c = task[k].camera,
           c \notin disturbed', doc[c].venue \notin {NoVenue, task[k].venue}
    PROVE  doc'[c] = doc[c] /\ rec'[c] = rec[c] /\ stream'[doc[c].venue][c] = stream[doc[c].venue][c]
<1>1. TypeOK /\ task[k].phase # "idle" /\ disturbed \subseteq disturbed'
  BY RequestLocal DEF IInv
<1>2. InHand(k)
  BY <1>1 DEF IInv, Calm, Mine
<1>3. /\ task[k].phase \in {"look", "judge"}
      /\ task[k].seen = doc[c].venue /\ Whole(c)
  <2>1. task[k].phase \in {"look", "judge"}
    BY <1>1, <1>2, TaskAtWork DEF InHand, Phases, NoDoc
  <2> QED
    BY <1>2, <2>1 DEF InHand
<1>4. ~MayUse(k)
  BY <1>1, <1>3, MayUseOwned DEF Whole
<1> QED
  BY <1>3, <1>4 DEF RequestSteps, RegisterRefused, SaveLooks, Inserts, Replaces, Remembers, StartRefused,
     StartConnects, StartFails, PutsStatus, Reports, Judges, DeleteRefused, DeleteStops, StopRefused,
     StopAwaitsTasks, StopJoins, StopFindsNone, Erases, Forgets, At, AtStop

\* No request reaches into another venue, unless two were in flight together or a read failed.
THEOREM OwnersOnly == Spec => OnlyItsOwner
<1>1. IInv /\ [Next]_vars =>
        [\A k \in Clients : RequestSteps(k) =>
           LET c == task[k].camera
               owner == doc[c].venue IN
           c \in disturbed' \/ owner \in {NoVenue, task[k].venue} \/
             (doc'[c] = doc[c] /\ rec'[c] = rec[c] /\ stream'[owner][c] = stream[owner][c])]_vars
  <2> SUFFICES ASSUME IInv, NEW k \in Clients, RequestSteps(k)
               PROVE  LET c == task[k].camera
                          owner == doc[c].venue IN
                      c \in disturbed' \/ owner \in {NoVenue, task[k].venue} \/
                        (doc'[c] = doc[c] /\ rec'[c] = rec[c] /\ stream'[owner][c] = stream[owner][c])
    OBVIOUS
  <2>1. task[k].camera \in Cameras
    BY RequestLocal, TaskAtWork DEF IInv
  <2> QED
    BY <2>1, OthersLeftAlone
<1> QED
  BY <1>1, Invariance, PTL DEF Spec, OnlyItsOwner
=============================================================================
