# CrowdOS in TLA+

CrowdOS watches the gates of a venue with cameras. Each camera's frames go through detection,
tracking and recognition; a movement engine turns the positions of the tracks into ENTRY and EXIT
events; an intelligence engine keeps the venue's occupancy, flow and peaks and a prediction engine
its risk; a FastAPI backend keeps cameras and monitoring sessions, stores everything in MongoDB and
sends it to dashboards over WebSockets.

This directory specifies the parts of CrowdOS that decide, count and remember. Each module is read
off the code (`PROJECT.json`, "map", gives the lines of every definition), model-checked with TLC on
small instances, and proved about with TLAPS for every value of its constants.

Paths below are relative to `src/`; `A/` stands for `ai-engine/`, `B/` for `backend/app/`.

## Reading order

| module | what it is | checked by | proved in |
|---|---|---|---|
| `SessionLifecycle` | abstract: the status of a session and its transition table | as a property of `sessions` | refinement in `SessionProofs` |
| `SessionService` | sessions in memory, their documents, the handlers' awaits | `sessions` | `SessionProofs` |
| `OccupancyTracker` | operators on the venue's counters | through the three modules that use it | `IngestProofs`, `MovementProofs` |
| `EventIngest` | event endpoint and camera consumers on one tracker | `ingest` | `IngestProofs` |
| `FrameQueue` | operators on a camera's bounded queue | through `CameraStream` | `StreamProofs` |
| `CameraStream` | producer, consumer and health task of one stream | `stream`, `stream_reconnect` | `StreamProofs` |
| `CameraCatalog` | abstract: the stored cameras and their owners | as a property of `cameras` | refinement in `CameraProofs` |
| `CameraRuntime` | documents, records and streams of cameras under requests and restarts | `cameras` | `CameraProofs` |
| `Tracking` | a camera's tracks in the tracker and in the movement engine | `vision` | `VisionProofs` |
| `Vision` | recognition and its confirmation over time, on those tracks | `vision` | `VisionProofs` |
| `Movement` | tracks, line crossings, deduplication, journeys | `movement` | `MovementProofs` |
| `VenueIntelligence` | flow windows, congestion, peaks, anomaly rules, alerts | `intelligence` | `DashboardProofs` |
| `Prediction` | features, risk, trend, forecast and recommendation of a venue | through `Insight` | `DashboardProofs` |
| `Insight` | both engines and the requests that evaluate, store and publish | `insight`, `predictions` | `DashboardProofs` |
| `VisitorPresence` | abstract: who is inside, and how many stays have ended | as a property of `visitors` | refinement in `VisitorProofs` |
| `VisitorHistory` | events, visits and profiles, one database call at a time | `visitors` | `VisitorProofs` |
| `VisitorAnalytics` | the reports over them | `visitors` | `VisitorProofs` (the duration report) |
| `VenueSocket` | the dashboard's socket hook in one browser tab | `realtime` | `DashboardProofs` |
| `Realtime` | the server's connection pools and broadcasts, with that tab | `realtime` | `DashboardProofs` |

`MCSessions`, `MCIngest`, `MCMovement`, `MCCameras`, `MCVision`, `MCIntelligence`, `MCInsight` and
`MCVisitors` give the constants of the instances and their symmetries; the constants of `CameraStream`
and `Realtime` stand in their configurations.

How they compose:

* `EventIngest`, `Movement` and `VenueIntelligence` extend `OccupancyTracker`, because the venue has one
  `OccupancyTracker` object, which the event service and the movement engine both move.
* `EventIngest` sees the movement engine as one step (`SeeCrossing`) and the analytics as totals;
  `Movement` is what happens inside that step, `VenueIntelligence` what happens inside `Analyse`.
* `Insight` extends `VenueIntelligence` and `Prediction`, whose input is built from the other's state.
* `CameraRuntime` uses a stream as its callers see it; `CameraStream` is its inside, and where the
  stream that cannot be stopped any more (`stuck`) comes from.
* `Vision` extends `Tracking`; `Realtime` extends `VenueSocket`; `VisitorAnalytics` extends
  `VisitorHistory`.
* Three refinements: `SessionService` of `SessionLifecycle`, `CameraRuntime` of `CameraCatalog`,
  `VisitorHistory` of `VisitorPresence`.

## Inventory

### Monitoring sessions: `B/services/session_service.py`, `A/intelligence/session/`

* State: `SessionManager._sessions` and its one `_active_session_id`;
  `EventIntelligenceEngine._stopped_summaries`; one MongoDB document per session; the status last
  broadcast to dashboards.
* Operations: create, start, pause, resume, stop, check for expiration.
* Interaction: an endpoint calls a handler; it changes memory under a lock without an await, then
  awaits the repository, then the broadcaster.
* Hard: two handlers of one session overlap at their awaits; a write fails and is only logged; a
  restart loses memory but not documents.
* Correct when: statuses follow the transition table; the tracked id names a running session; memory,
  document and screens agree when nothing overlaps or fails; a stop is stored.

### Event ingestion: `B/services/event_service.py`, `B/repositories/event_repository.py`, `A/intelligence/`

* State: the shared `OccupancyTracker`, `FlowAnalytics` with its seen ids, `OccupancyAnalytics`,
  `PeakTracker`, the event documents, the figures on the dashboards.
* Operations: `ingest_event`, from the endpoint or from a camera's consumer; `consume_occupancy_state`.
* Interaction: a consumer runs the vision pipeline in a worker thread, which moves the tracker, and
  then calls `ingest_event`, which moves it again.
* Hard: worker threads run in the middle of handlers; look-up and insert of a document are two
  awaits; retries; the eviction of seen ids; a consumer cancelled while its thread runs.
* Correct when: derived counts never exceed the tracker's, each distinct event is counted once by the
  flow and stored once, and the analytics hold the tracker's state.

### Camera streams: `A/camera/`

* State: per stream a capture, a queue, a health record, the three workers' flags and tasks.
* Operations: start, stop, pause, resume, reconnect; the producer's read and put, the consumer's get
  and callback, the health worker's check.
* Hard: start does not look at tasks already running; stop awaits its tasks while others may start
  the stream; the health task reconnects from within itself; the queue is full.
* Correct when: the queue's statistics account for every frame, frames come in order, a stop that met
  no second start leaves nothing behind, and a reconnection ends.

### Camera runtime: `B/services/camera_runtime_service.py`, `B/repositories/camera_repository.py`

* State: one document per camera, the in-memory records, the streams of each venue's `CameraManager`.
* Operations: register, start, stop, delete, health; reconcile and shut down; the frame callback.
* Hard: every operation awaits between looking at a camera and using what it saw; a document, a record
  and a stream can each exist without the others; a read that fails answers "no such camera"; camera
  ids are looked up without their venue; a restart finds documents of streams that are gone.
* Correct when: the collection changes as the catalog allows, a camera's three parts agree when its
  requests came one at a time, and no request touches another venue's camera.

### Movement engine: `A/movement/`

* State: per track a trajectory of at most `TRAJECTORY_WINDOW` points, `current_state`,
  `previous_state` and `frames_lost`; the deduplicator's time stamps; occupancy; journeys.
* Operations: `process_frame`; per sighted track: position, zone evaluation, validation,
  deduplication, occupancy, journey; per missing track: mark, expire.
* Hard: one thread per camera on shared occupancy and journeys; tracks that vanish and come back;
  the same crossing visible in several consecutive windows; identities known for one end only.
* Correct when: a loss that is not final forgets nothing, an expiry forgets everything, one key makes
  one event per window, repeats of one crossing die out, journeys are covered by counted crossings.

### Tracking and recognition: `A/tracking/`, `A/recognition/`, `B/services/camera_pipeline_service.py`

* State: per camera the tracker's active and lost tracks and its frame count; the movement engine's
  own count of missed frames per track; the identity store; per track the last observations and the
  identity it is stable as.
* Operations: `process_frame` of the pipeline: update of the tracker, `process_tracking_result`, the
  movement engine's memory; adding and removing an identity.
* Hard: two engines age the same track by different counts and forget it at different frames; bad
  frames, exceptions and removed identities in the middle of a run of matches.
* Correct when: a track the tracker may find again is known to the movement engine; an identity is
  stable exactly when it was earned; a track reports nobody another one earned.

### Intelligence: `A/intelligence/`

* State: sliding windows of timestamps per kind, place and width; totals; seen ids; congestion level;
  peaks; how many evaluations in a row each rule was met; active alerts per session.
* Operations: `process_event`, `process_occupancy_state`, `get_current_intelligence`; the sessions' moves.
* Hard: timestamps late or ahead of the clock trim windows; the windows' capacity; duplicates; rules
  looked at before the event's occupancy is; counters that outlive the session they were counted in.
* Correct when: a rate misses nothing of its window, windows agree with each other, and a venue long
  over its critical occupancy has its alert.

### Prediction and dashboards: `A/prediction/`, `B/services/prediction_service.py`, `dashboard_service.py`, `snapshot_builder.py`

* State: per venue and gate a level with its two counters and a history of observations; the
  timestamp and result evaluated last, per session; the stored predictions; the last one published.
* Operations: `predict`, through `get_prediction` (which stores and publishes) or the dashboard.
* Hard: whoever reads evaluates, so readers push the hysteresis along; duplicates by timestamp;
  paused sessions; two requests between each other's awaits.
* Correct when: a level changes on enough evaluations in a row, a recommendation has grounds, and one
  evaluation is stored once.

### Visitors: `B/services/visitor_history_service.py`, `visitor_analytics_service.py`, `B/repositories/visitor_repository.py`, `visitor_analytics_repository.py`

* State: event, visit and profile documents under unique indexes.
* Operations: `record_movement_event`, the retention purge, about fifteen reports.
* Hard: three collections are written one call after the other; events come twice, late, out of order
  and in parallel; retention deletes what others still use; a report makes several queries.
* Correct when: a visitor has at most one open visit, counters match what is saved, and different
  reports agree about the same documents.

### Live feed: `B/realtime/`, `frontend/hooks/useVenueWebSocket.js`

* State: sets of sockets per venue and global under one lock; broadcasts under way; messages in Redis;
  in the tab the current socket, its timers and the venue shown.
* Operations: connect, initial state, broadcast, prune, relay; venue switch, reconnect, unmount.
* Hard: a socket dies in the middle of a broadcast; close events come after the refs have moved on;
  a process hears its own messages; a session changes while a dashboard connects.
* Correct when: pools hold live sockets of their venue, what is shown is current once all is
  delivered, and everything settles.

### Not modelled, and why

* Detection, face detection, quality checks, embeddings, IoU, the Kalman filter: floating-point
  computations with no protocol around them. `Tracking` and `Vision` take any outcome they can have.
* Geometry: coordinates, the polygon zone and the direction vector. A position is a side of a line.
* The frame buffer: a deque with a maximum, from which the producer reads back what it has just pushed.
* Gate synchronisation: gates are configured before the first frame and stay, in every module.
* `reset_camera` of the tracker, `reset_venue` and `clear_all` of the registry, `resolve_alert`, `stop_all_cameras`: only
  tests call them. The acknowledgement of an alert touches nothing the rules read.
* Dwell times, densities, confidence figures and texts: numbers and words nothing decides on. The dwell
  pressure is 3 of 100 points of a risk score.
* Authentication, venues and users, request validation: one look-up or one document each, around library calls.
* Encryption of camera sources and the key migration script: a library and a one-off.
* The pages of the dashboard: presentation. Message kinds other than the session update differ from it in payload only.
* The MongoDB and Redis drivers: modelled from how `B/` uses them (an answer, None or an exception;
  unique indexes; messages in the order of their publication).

## The modules and the code

### SessionLifecycle and SessionService

The backend is one asyncio event loop. A handler runs to its first await without interruption, so
`Create`, `Start`, `Pause`, `Resume`, `Stop` and `CheckExpirations` each make the whole in-memory
change (including `EngineStop`, which freezes a summary even when the session refuses to stop) and
leave a record in `request` of what the handler will still await: `Persist` per session, then
`Broadcast` per session. `PersistFails` is the driver's exception that the repository logs,
`BroadcastFails` the one caught around the broadcasts. `Restart` keeps documents and screens only.
A refused request changes nothing and is a stuttering step. `uuid4` is a fresh session id; time is
the order of the `started_at` stamps, since all sessions have one `max_duration_seconds`.

`SessionLifecycle` promises only that a status moves along the table of `session.py`, or that the
process loses all sessions at once.

### OccupancyTracker and EventIngest

A handler's lines between two awaits hold the loop (`LoopFree`), but worker threads do not need the
loop: `SeeCrossing` may come between `Submit` or `Route`, which move the tracker, and `Analyse`, which
runs `process_event` and copies the tracker's state to the analytics. `Find`, `Insert`, `Announce`
and `Send` are the awaits that follow, with their failures. `Remember` evicts as the code does: an
arbitrary part of a set. `Cancel` is a camera stopped in any await; its thread, once in the vision
pipeline, goes on alone (`adrift`).

`RecordEntry` and `RecordExit` clamp the venue and the gate at zero one by one. The counts per camera
are kept in the code by the same lines as those per gate, and one count stands for both.

### FrameQueue and CameraStream

`StreamManager.start_stream` creates three tasks; each start is a generation, because a second start
forgets the tasks of the first without stopping them. The worker objects, and so their `is_running`
flags, the queue, the frame counter and the capture, are shared by all generations. A task's program
counter is its phase. `Stop` runs to the gather and `FinishStop` is the rest; in between anything may
happen. `MonitorCancelsItself` is the current generation's health worker that reconnects: it reaches
`CameraWorker.stop`, which cancels and gathers the very task it runs in. `MonitorStops`, `MonitorDisconnects`,
`MonitorRestarts` and `MonitorRetries` are the same path for a health worker whose handle was
overwritten and which therefore survives it.

`put` on `asyncio.Queue` never waits, because a full queue has lost a frame before; so it is one step.

### CameraCatalog and CameraRuntime

A request is a task with a program counter. `Arrives` is the call up to its first await, the read of
the document; each phase that follows is the code that runs when an answer is in, up to the next call.
What the task has read stays in `task[k].seen` and is used whatever has happened meanwhile. A call
fails as the repositories let it: reads answer None, `update_status` is logged, `replace_one` raises.
`Owner` is `_get_camera_doc`, which takes the record where there is no document. A delete is a stop
with a second look, then `delete_one` by camera id alone, then the record. `Judges` is the health
check, which makes a stale camera DEGRADED in its record only. `StartRuntime` reconciles, if the
service has a repository by then (`WiredAtStart`), and `StopRuntime` is a shutdown or a crash.

A stream is `absent`, `off`, `on`, `halting` (inside `stop_stream`, which awaits its tasks) or `stuck`
(its health task waits for itself, as `CameraStream` shows, and `stop_stream` raises).

`CameraCatalog` sees the collection only: a registration makes or replaces a camera, a deletion removes
it, a status changes between what may be stored, a reconcile takes ONLINE back.

### Movement

A frame is `BeginFrame` (which tracks it shows), one `Sight` per shown track, and `EndFrame`, which
marks those missing. `Sight` picks a side of the line and whether recognition answered, and makes the
whole of what `process_frame` does for a track up to and including `record_entry` or `record_exit`;
the journey call that follows is a step of its own because other cameras' threads run in between.
`Tick` is the clock of the deduplicator, which goes on while frames without tracks never
reach the engine.

A position is abstracted to the side it lies on: `evaluate_trajectory` uses the first and the last
point of the window only through their signed distances and the crossing of the segment between them.
Sides further apart than `MIN_CROSSING_DISTANCE`, and a segment that meets the line when its ends lie
on different sides, are the two assumptions.

### Tracking and Vision

`Frame(first, second, fresh)` is `CameraPipelineService.process_frame` after detection: `Update` is
the tracker, with `first` and `second` the tracks its two association stages match and `fresh` the
high detections left over, any choice the stages can make (`Associate`); `Remember` is the movement
engine's `update_position` and `mark_missing_tracks`, skipped when no track is active. A frame without
a detection returns before the tracker, and is a stuttering step. The third stage never runs, since a
track is activated when it is created. The tracker counts frames since a track was last seen, the
movement engine frames it was told of and missed the track in.

`Recognize` passes each shown track's sighting through `TrackTemporalState.update`: `Records` (which
sightings enter the window), `Confirmed` (the whole window is matches of one identity), `Effective`
(what is reported: the stable identity on a bad frame, the sighting otherwise, an exception as it is).
The store may change between any two frames (`AddIdentity`, `RemoveIdentity`).

### VenueIntelligence

The timestamps of an event are whole, up to `Late` behind and `Ahead` of the clock. `Recorded`
appends to the windows of the gate and the venue and trims them by the event's own timestamp,
`Swept` trims all by the clock, as every count does. `CongestionAt` rises at once and falls with the
margin. `Met` are the rules, `Sustained` their counters, `Signals` the anomalies of an evaluation and
`Alerted` the table under the deduplicator's key of session and rule. `Ingest` is `ingest_event` up to
its first await, on the one event loop; `Crossing` is a camera's thread that moves the tracker in
between; `Read` is a report, which trims windows and evaluates the congestion again. The capacities
of 10,000 and 50,000 are constants.

### Prediction and Insight

`Features`, `Score` and `RiskLevel` compute on whole percents. `Stabilized` is the hysteresis of one
scope, `Trend` and `Exceeds` the median of slopes (kept doubled, in sixtieths) over `Points`, and
`Decision` picks the rule with the highest priority. `Evaluates` makes the venue and all gates in one
go, as `predict` does under its lock; `Suspended` are its early answers. The clock that stamps a
snapshot is the model's `now`, so two readers within a unit get the same stamp.

`Insight` lets a dashboard (`AskDashboard`) or `get_prediction` (`AskPrediction`, then `Save`, then
`Publish`) evaluate a `Snapshot` of what `VenueIntelligence` holds at that moment.

### VisitorPresence, VisitorHistory and VisitorAnalytics

`record_movement_event` is one step per database call: `Delivered` (look-up of the source's id),
`LooksForVisit`, `Opens` or `Closes`, `Saves`, `FindsProfile`, `InsertsProfile` or `UpdatesProfile`.
`WritePassedOver`, `ReadPassedOver` and `CallLost` are a write that is logged, a read that answers
None, and an exception or a crash. The three `Purges` actions are `apply_retention_policy`. Updates
are modelled by their operators: `$inc` counts on what is stored, `$set` carries what was read before.

`VisitorPresence` knows who is inside and how many stays have ended. `VisitorAnalytics` states every
aggregation pipeline as an operator on the stored documents, and the duration report as the code makes it: open
visits in one call (`AsksDurations`), completed ones in the next (`AnswersDurations`).

### VenueSocket and Realtime

`VenueSocket` is the hook: `ConnectsTo` (a `connect` closure), `Switches` and `Unmounts` (the effect's
cleanup and next run), `CloseEvent`, `TimerFires`, `Opened`, `Receives`. `close()` asks for a close;
its event comes later and reads the refs as they are then.

On the server `Accepts`, `Refuses`, `Registers`, `Leaves` and `GlobalLeaves` are the endpoints; a job (a handler's
broadcast or the Redis listener's) goes through `TakesTargets` (copied under the lock), one `Sends`
per socket, `StartsPruning` and one `Prunes` per dead socket while it holds the lock, and
`EndsBroadcast`, which publishes what a handler broadcast. `Hears` is the listener. `Breaks` is a
connection that goes away at any moment.

## Runs

All are exhaustive. `CHECK_DEADLOCK FALSE` stands where the system may stop: a venue has no work once
the bounded supply of requests, frames or ticks is used up, and a code path with no input waits.
`cameras` checks deadlock: a request can always arrive.

| run | instance | what it shows |
|---|---|---|
| `sessions` | 2 sessions, 2 handlers, 5 requests, 1 fault | `TrackedIsRunning`, `SoleSessionTracked`, `SerialAgreement`, `OrphansAreLeftAlone`, the refinement `ImplementsLifecycle`, the liveness `StopIsStored` |
| `ingest` | 2 clients, 1 camera, an entry and an exit from clients at two gates, an entry from the camera, 2 seen ids | `GateSumCoversVenue`, `HeadCountWithinTotals`, `FlowCountsDistinctEvents`, `TrackerNeverBehindFlow`, `AnalyticsFollowTracker`, `PeakCoversOccupancy`, `SerialIngestIsConsistent`, the liveness `AnalysedIsStored` |
| `stream` | queue of 1, 3 starts of which 2 live at a time, 1 stop, 2 frames | `QueueAccounted`, `FramesInOrder`, `StopIsClean`, the liveness `FramesAreTaken` |
| `stream_reconnect` | queue of 1, 1 start, no stop | violated: `ReconnectEnds`; a reconnection never ends |
| `cameras` | 1 camera id, 2 venues, 2 requests in flight, 1 failed call, any number of requests and restarts, with and without a repository at start-up | `SerialAgreement`, `OnlyItsOwner`, the refinement `ImplementsCatalog` |
| `movement` | 3 tracks of one person, 2 gates (one with a normal vector), window 2, tracks given up after 2 frames, 4 frames, 1 tick | `StateRemembersLastEvent`, `JourneysAreCounted`, `OncePerWindow`, `RepeatsDieOut` |
| `vision` | 2 persons, 2 tracks, 4 frames, both limits 1, 2 identities, confirmation by 2 frames | `FoundIsRemembered`, `StableIsEarned`, `MatchesAreKnown` |
| `intelligence` | 2 gates, windows of 1 and 2 units, 2 timestamps per window, 3 events up to 1 unit late or ahead, 1 crossing by a camera, 2 seen ids | `RatesAgree`, `SpikeIsReported` |
| `insight` | 2 gates, 4 time units, 2 events, 5 evaluations, escalation after 2, recovery after 3 | `LevelFollowsEvidence`, `AdviceHasGrounds` |
| `predictions` | the same with 2 sessions, 2 time units, 1 event, recovery after 2, 3 evaluations of which 2 are requests that store and publish | `StoredOnce` |
| `visitors` | 2 visitors, 4 events over two days at 2 gates, 2 calls at a time, 3 in all, 1 fault or retention run | `ProfileAgrees`, `ReportsAgree`, `NoVisitMissed`, the refinement `ImplementsPresence` |
| `realtime` | 2 venues, 1 handler, Redis, 2 sockets, 1 switch, 2 session changes, 1 broken or refused connection | `PoolsAreLive`, `ViewIsCurrent`, the liveness `Settles` |

Every property of a passing run has a mutant: a variant of one mapped definition, written beside it in
the module, such as a plausible bug would leave, under which TLC finds the property violated.

### Bounds, and why they are enough

* `sessions`. Two sessions and two handlers give every pair of overlapping requests, on one session
  and on two; a third session adds nothing to `_active_session_id`, which names one. Five requests are
  create, start and stop of one session with two of another in between. One fault (a failed write, a
  failed send or a restart) gives each failure at each point.
* `ingest`. Two clients share an event, or race with a camera; a limit of 2 seen ids is exceeded by
  the third event; an entry and an exit through different gates reach every clamp. One fault puts
  each failure, cancellation or restart at each point.
* `stream`. Two live generations are the least that share a queue, three let the third overwrite the
  second's handles while the first still runs; a queue of 1 is full after one frame, so 2 frames
  drop one. `MaxLive` bounds how many generations run together.
* `cameras`. Cameras share no state but the task, so one id suffices; the id may belong to either of
  two venues. Only failed calls are bounded. Venues are interchangeable, and so are requests.
* `movement`. A window of 2 already holds the point before a crossing and the one after it. Two
  tracks at one gate share a person's identity key, the third is at another gate. With 4 frames in
  all a track is seen, missed, given up or found again; 5 frames (5.2 million states) were checked
  once and agree. Tracks `t1` and `t2` have the same gate and person, so exchanging them is a symmetry.
* `vision`. With both limits 1 a track is lost, found again and given up within 4 frames; equal limits
  are the tightest the assumption allows, and those of the settings (both 30). Two matches confirm, so 4 frames settle a
  track on one identity and unsettle it. 5 frames (0.9 million states) were checked once and agree.
  Identities are interchangeable; tracks are numbers and are not.
* `intelligence`. The third event exceeds the windows' capacity and the seen ids; an event late or
  ahead by one unit is on each side of a window of 1. The thresholds (`MCIntelligence`) put every
  level and every rule within 3 events. Gates are interchangeable.
* `insight`, `predictions`. Five evaluations let a level rise after 2 and fall after 3; a forecast needs 3
  observations, which the history's 3 just hold. Two requests overlap at each await, and two sessions
  have the same timestamps.
* `visitors`. The feed (`MCVisitors`) has a stay of one visitor within a day, whose exit carries its
  dwell time, and an entry of each on the next; three calls are a delivery, a duplicate and an
  overlapping one. The cutoff lies between the days. The two call slots are interchangeable, visitors
  are not.
* `realtime`. Two sockets are the current one and its successor; the lock makes the number of jobs
  matter little: a handler's and the listener's. Of two handlers that overlap either message may arrive last, in the
  code as in the model, so `ViewIsCurrent` is asked of one.

No run that checks liveness uses a symmetry. The proofs below remove the bounds for what they cover.

### Fairness

* `SessionService.FairSpec`: weak fairness of each handler's next await. The event loop resumes a
  coroutine whose await has ended, and driver and socket timeouts end each await with an answer or an exception.
  Clients owe no request, so no fairness on the handlers' beginnings, restarts or the expiration check.
* `EventIngest.FairSpec`: weak fairness of each handler's and consumer's next step, worker threads
  included. Requests, frames and the session's moves are owed by nobody.
* `CameraStream.FairSpec`: weak fairness of each task (the loop runs what is ready, timers included),
  of the end of a stop and of the health worker's own reconnect. Which way a read, a check
  or a connect goes stays open. The operator owes nothing.
* `Realtime.FairSpec`: weak fairness of what the server's loop runs by itself (`ServerWork`), of the
  tab's reconnect timer and of each socket's close event and next message. Session changes, switches
  and broken connections are owed by nobody.
* The other modules state safety only.

`StopIsStored` and `AnalysedIsStored` except runs in which something failed (and, for the first, in
which handlers overlapped): the code logs a failed write and does not retry, so nothing more is true.

## Disagreements between the code and what it says of itself

`PROJECT.json`, "findings", quotes the lines. `stream_reconnect` is a run that stays red; for the others
with a property in brackets, TLC refutes the property when it stands alone under the component's
configuration (`AlertsSubside` with `SustainedFrames = 1`, no late or early events, no crossing and `MaxNow = 3`).

Sessions, events and streams:

1. `GET /active` is documented to return the currently ACTIVE session; it returns the one whose id was
   written last, paused or not, and None while an older one is still active (`ActiveEndpointIsRight`).
2. Stopping a session that was never started freezes a "final immutable" summary and stores STOPPED.
   The session can be started afterwards, and can then never be stopped (`FrozenMeansEnded`).
3. Camera events are counted by the movement engine and again by `ingest_event`, and a repeated
   `event_id` is counted before it is recognised, against the promised idempotency (`EntryCountedOnce`).
4. "Clear half of oldest event IDs" clears an arbitrary half (`A/intelligence/analytics/flow.py:115`).
5. "max(0, entries - exits)" is not what clamping at each exit computes (`A/movement/state/occupancy.py:39`);
   `WithinBounds` is what it does keep.
6. The automatic reconnect waits for the task it runs in, and never ends (`ReconnectEnds`, run `stream_reconnect`).

Cameras, movement, tracking and recognition:

7. "A single physical crossing must produce exactly one ENTRY event" holds only while the
   deduplicator's 5 seconds outlast the trajectory's window (`CrossingMakesOneEvent`, with a window of
   3 and no normal vector). `RepeatsDieOut` is what holds whatever the rate of frames.
8. `OCCUPANCY_TIMEOUT`, described as cleaning stale journeys, is read by nothing.
9. A second camera given an existing `gate_id` is left without a gate (`B/services/camera_pipeline_service.py:89`).
10. The reconcile at start-up finds no repository, which the first request sets: cameras stay stored as
    ONLINE after a restart (`SettledAtStart`).
11. The clean-up of recognition's temporal states looks for removed tracks among the active ones and
    never finds any (`A/recognition/engine/recognition_engine.py:66`).
12. A frame without a detection does not reach the tracker, so lost tracks do not age while nobody is
    in view (`B/services/camera_pipeline_service.py:188`).

Intelligence and prediction:

13. Alerts do not "transition to RESOLVED when conditions subside": nothing resolves one (`AlertsSubside`).
14. A paused or duplicate evaluation is broadcast as risk LOW, MONITOR (`OnlyEvaluationsArePublished`).
15. `str()` of a severity is no key of the severity weights: every anomaly weighs the same.
16. `DensityAnalytics.reset` takes no `self`, so `reset_all` raises halfway.
17. Every reader evaluates: two refreshes of a dashboard are two of the evaluations an escalation asks for.

Visitors and the live feed:

18. The recent events of a visitor's history are the oldest ones.
19. Two ENTRY events that arrive together add two to `total_visits` for one visit; `ProfileAgrees`
    states what is left (no visit is missing from it).
20. `first_seen_at` and `last_seen_at` are computed from what was read before the update, and can go back.
21. After a venue switch the dashboard can end up connected to the old venue (`SwitchIsClean`).
22. A global connection found dead in a broadcast to a venue is not removed.
23. An `initial_state` without a session leaves the old one on the screen; `ViewIsCurrent` names it as its exception.

## Proofs

TLAPS checks all of them from the assumptions named in the modules: `SessionsFinite`, `NoSessionIsNoId`,
`BoundsAreNat`; `GatesFinite`, `FiniteIds`, `KindsOfEvents`, `KindsOfHandlers`, `GatesKnown`, `NoEventIsNoId`,
`SeenBounds`, `IngestBounds`; `QueueSizeIsPositive`, `PolicyIsKnown`, `StreamBounds`;
`MovementConstants`; `TrackingConstants`, `VisionConstants`; `NoVenueIsNoVenue`, `WiringIsBoolean`,
`FaultBound`; `FeedTyped`, `GatesNumbered`, `HistoryBounds`, `CutoffsAreTimes`; `FirstIsAVenue`, `SocketBounds`,
`NoVenueIsNone`, `ServerBounds`, `NamesAreNone`; `WidthsTyped`, `CrowdTyped`, `CrowdOrdered`,
`CongestionOrdered`, `EngineBounds`; `WholeIsAScope`, `FramesTyped`, `ThresholdsTyped`, `ScopesArePlaces`,
`PollsBounded`. TLC evaluates them in the
runs. None fixes a number: the theorems hold for any number of sessions, handlers, events, gates, cameras,
venues, sockets, requests, visitors, tracks, identities and frames, and for any window, threshold, limit and bound;
`TrackingConstants` asks that the tracker's limit is not above the movement engine's, as in the settings.
Two theorems have a hypothesis of their own, `CurrentView` and `Grounds`, explained below.

* `SessionProofs`. `TrackedIsRunning` and `SoleSessionTracked` are not inductive: a resume makes a
  session the tracked one and must know that it was started in this process
  (`StartedHasStamp`). `OrphansAreLeftAlone` needs that no handler in flight works for a session the
  process has lost (`PendingIsKnown`: a restart takes the handlers with it). `Refinement` shows that
  each step of `SessionService` is a step of `SessionLifecycle` or leaves the statuses alone.
  `SerialAgreement` speaks of moments when no handler is at work; `Consistent` is what holds between
  them: the one handler at work (`OnlyBusy`) has stored and shown its value for the sessions it is
  done with, and every session it is not about agrees everywhere (`InProgress`, `Agreed`).
* `IngestProofs`. The derived counts lag behind the tracker while a handler holds a crossing it has
  counted and not analysed. `OneInside` says that at most one does, since the loop is not yielded
  there, and `InsideIsAhead` that its crossing is in the tracker and not in the flow; without these
  two `TrackerNeverBehindFlow` does not survive `Analyse`. `EventDocsAreImmutable` (a stored event is
  never changed; no run repeats it) follows from the steps themselves. `SerialIngestIsConsistent` speaks
  of moments between requests; `SerialInv` says for each await of the one handler at work (`Stage`) what
  it has stored by then and which figures it is about to send. `GatesCover`: every count is bounded by
  0 on its own, and still the gates together never hold fewer people than the venue, since an exit that
  takes one from its gate takes one from the venue or finds it empty; the sum is unfolded one gate at a time.
* `StreamProofs`. Whatever generations overlap, the queue's frames lie between the last one handed over
  and the last one read, in order (`Between`); from that, `FramesInOrder`, and `QueueAccounted` for
  any queue size and both policies. `StopIsClean` needs that, unless a start met live tasks or a stop
  under way, only the tasks `CameraWorker` holds are alive, and none while a stop is under way
  (`OnlyHeldLive`).
* `MovementProofs`. The history variables of the properties are tied to what the engine keeps:
  `lost` counts the frames a known track has been missed (`KnownTracks`), the deduplicator's ages are
  the true ones (`age = quiet`), and the points seen since a track's last event are the end of its
  trajectory (`Settled`), from which `RepeatsDieOut`: a crossing found again has its first point off
  the side, so older than the event. `JourneysAreCounted` needs the events still under way
  (`UnderWayHasEvent`) and finite sets.
* `VisionProofs`. Two counts of one absence are related by `Ages`: the movement engine's count of a track
  that the tracker holds is at most the frames since the tracker saw it, and those are at most
  `MaxLost`; so what the tracker may find again was never expired there (`FoundIsRemembered`).
  `StableIsEarned` compares the window with a history that counts matches: the run is the
  longest end of the window that consists of matches of one identity (`Suffix`), whose length is exact
  up to the window's. `MatchesAreKnown` follows from the report's cases and that no sighting names anybody outside the store.
* `CameraProofs`. `Refinement` needs the types only. `SerialAgreement` speaks of moments between requests;
  what holds in between is `Calm`, of each camera whose requests came one at a time: at most one request
  is at work on it (`Alone`), and `InHand` says for each of its awaits what it may still rely on, that the
  owner it has read is the document's, and which of document, record and streams agree already and
  which lag behind. `Down` says that nothing is in flight, and no record or stream is left, while the
  process is down. `OnlyItsOwner` follows from `InHand`: only a look or a health judgement can be
  under way at a camera that is not one's own; the look ends there and the
  judgement marks only a camera it may use.
* `VisitorProofs`. `Refinement` needs that at most one visit of a visitor is open and that numbers tell the
  visits apart (`OneOpen`, `Numbered`): then the write that ends a visit ends the open one, or finds
  none. `ProfileAgrees` speaks of moments between calls; `Tally` holds between them: the counters are the
  saved events without those a call has still to count (`Counted`), and the visits lack those that such a
  call created (`Fresh`). It needs that the calls at work are of different events, and that an event is
  saved exactly when its call is past its save. `Alone` adds, where no two calls overlapped, that what a
  call has read is still so. `ReportIsComplete` (`NoVisitMissed`): between the two calls of the duration report,
  what was counted open and what is completed by now cover the visits that were there (`ReportInv`), because a
  visit that leaves the one set is in the other and, unless retention runs, none leaves both.
  `ReportsSound` (`ReportsAgree`): a breakdown by day or gate parts the documents by a key, so its counts and
  durations add up to those of all (`CountByKey`, `WeighedByKey`) and its different visitors to no fewer than all
  (`DistinctByKey`). The reports agree on what they were given; what they need of the history is
  `HeldInv`: only a completed visit has a duration, and of a visitor without a fault no visit is gone
  (`total_visits` counts those stored) and each was opened at the time of an event that is saved or about
  to be (the days with a visit lie between first_seen and now). That a finite set of documents can be sorted,
  each in it once, is `CanBeSorted`; two pages are one by the lengths of the sequences (`PagesMeet`).
* `DashboardProofs`, the live feed. `PoolsAreLive` needs `PoolInv`: a socket that is not open yet has no endpoint, the
  sockets a broadcast has still to send to are of its venue, and those it has found dead cannot be reached again. `ViewIsCurrent` speaks of a tab that
  everything has reached; in between, whatever a tab shows wrongly is undone by a message still to come
  (`Following`: in its inbox, in a broadcast or on the bus, behind the one that sets it). That messages
  come back through Redis in the order of the changes (`InOrder`), and that numbers of ended sessions never become
  active again (`Numbered`), keeps it so. Two handlers that overlap may broadcast in either order, so
  `CurrentView` is proved of behaviours with one handler at a time (`[]OneAtATime`), however that one overlaps with the
  listener, breaks and switches.
* `DashboardProofs`, the intelligence. `SpikeInv` ties the counter of the rule to the history `held` and to the
  session in which an alert was raised. `RatesAgree` follows from `RatesInv`, of every window at every moment: it
  holds the last of what has occurred, and what it lacks is old for its width or beyond the capacity (`Holds`);
  and a narrower window is the end of a wider one (`Ends`). Late and early timestamps break neither,
  although windows are not sorted. The sum over the gates is bounded by the venue in `GatesWithin`.
* `DashboardProofs`, the predictions. `StoreInv`: what waits for its insert and what is stored differ in session or
  timestamp, and none is later than what the engine has processed, so `StoredOnce`. `LevelInv` says that
  the two counters of the hysteresis are the lengths of the runs at the end of all evaluations (`Streak`), from
  which `LevelFollowsEvidence`, an equivalence, for venue and gates alike. `AdviceHasGrounds` needs the sorts of the
  whole calculation (`InsightTypeCorrect`: scores up to 100 as a weighted sum of six clamped shares), that
  no two points of a trend share a time (`Latest`), that the decision picks a strongest rule
  that is met (`DecisionFacts`), and `RatesInv` for gates nobody entered. `Grounds` supposes
  `MinForecast >= EscalationFrames`, which the settings grant (5 and 2, `A/prediction/config/settings.py:19`
  and `:22`): with fewer observations than evaluations the property is false.

The type invariants (`TypeCorrect` of each module; `FeedTypeCorrect`, `EngineTypeCorrect` and
`InsightTypeCorrect` in `DashboardProofs`) are proved and not repeated in the runs.

An induction over finite sets or numbers that a proof needs is made with sets in place of operators (`SubsetsInduct`,
`NumbersInduct`: a set of subsets with the empty one, closed under adding an element, is all of them), from the
well-foundedness of the natural numbers; sums are unfolded from their recursive functions (`SumsFacts`, `LengthsFacts`).

Only model-checked: the liveness properties `StopIsStored`, `AnalysedIsStored`, `FramesAreTaken` and `Settles`
(fairness and ENABLED are out of TLAPS's reach), and `ReconnectEnds`, which is refuted. Every other property
of the runs is stated by a theorem.

## Plan

Model: gate synchronisation (`sync_gate_config`) while frames are processed, which would add the
registry of gates to `Movement`; the session an event belongs to when its camera's frame outlives it
(`camera_runtime_service.py:459`), across `CameraRuntime` and `SessionService`.
