----------------------------- MODULE CameraStream -----------------------------
(***************************************************************************)
(* One registered camera stream of the ai-engine: StreamManager with its   *)
(* capture, queue and health record, and the producer, consumer and health *)
(* tasks that each start_stream creates.                                   *)
(*                                                                         *)
(* All of it runs on one event loop; a step ends at an await. A second     *)
(* start_stream does not stop the tasks of the first: CameraWorker forgets *)
(* them, and they go on with the same capture, queue and flags. A task is  *)
(* therefore known by its generation, the number of the start that made it.*)
(***************************************************************************)
EXTENDS FrameQueue, FiniteSets

CONSTANTS
    MaxStarts,    \* bound: start_stream calls that connect
    MaxLive,      \* bound: starts whose tasks are alive at a time
    MaxStops,     \* bound: stop_stream calls of the operator
    MaxFrames     \* bound: frames read

ASSUME StreamBounds == MaxStarts \in Nat /\ MaxLive \in Nat /\ MaxStops \in Nat /\ MaxFrames \in Nat

Gens == 1..MaxStarts

VARIABLES
    connected,    \* capture.is_connected()
    health,       \* CameraHealthService.status
    reconnecting, \* CameraHealthService.reconnecting
    on,           \* is_running of the producer, the consumer and the health worker
    producer,     \* FrameProducer.run: what the task of each generation is at
    consumer,     \* FrameConsumer.run
    monitor,      \* HealthWorker.run
    gen,          \* generation CameraWorker holds the tasks of, 0 before a start
    queue,        \* FrameQueue
    counter,      \* FrameProducer.frame_counter
    handed,       \* frame number last handed to frame_callback
    stopping,     \* operator stops that await their tasks
    stops,        \* history: operator stops
    overlapped    \* history: a start met live tasks or a stop still under way

flags == <<connected, health, reconnecting>>
tasks == <<producer, consumer, monitor, gen>>
frames == <<queue, counter, handed>>
history == <<stops, overlapped>>
vars == <<connected, health, reconnecting, on, producer, consumer, monitor, gen,
          queue, counter, handed, stopping, stops, overlapped>>

\* new: created, not yet run; loop: before the next test of is_running; reading:
\* in the read thread; working: in frame_callback.
ProducerPhase == {"none", "new", "loop", "reading", "done"}
ConsumerPhase == {"none", "new", "loop", "working", "done"}

\* loop: asleep for check_interval; gathering, asleep: inside restart_camera,
\* before and after the capture is disconnected; retry: between two attempts;
\* stuck: cancelled by itself.
MonitorPhase == {"none", "new", "loop", "gathering", "asleep", "retry", "stuck", "done"}

Live == {"new", "loop", "reading", "working", "gathering", "asleep", "retry", "stuck"}

TypeOK ==
    /\ connected \in BOOLEAN /\ reconnecting \in BOOLEAN
    /\ health \in {"DISCONNECTED", "CONNECTED", "RECONNECTING"}
    /\ on \in [{"producer", "consumer", "monitor"} -> BOOLEAN]
    /\ producer \in [Gens -> ProducerPhase]
    /\ consumer \in [Gens -> ConsumerPhase]
    /\ monitor \in [Gens -> MonitorPhase]
    /\ gen \in 0..MaxStarts
    /\ queue \in QueueType /\ Len(queue.items) <= QueueSize
    /\ counter \in Nat /\ handed \in Nat
    /\ stopping \in 0..MaxStops /\ stops \in 0..MaxStops
    /\ overlapped \in BOOLEAN

Init ==
    /\ connected = FALSE /\ reconnecting = FALSE
    /\ health = "DISCONNECTED"
    /\ on = [w \in {"producer", "consumer", "monitor"} |-> FALSE]
    /\ producer = [g \in Gens |-> "none"]
    /\ consumer = [g \in Gens |-> "none"]
    /\ monitor = [g \in Gens |-> "none"]
    /\ gen = 0
    /\ queue = NewQueue /\ counter = 0 /\ handed = 0
    /\ stopping = 0 /\ stops = 0
    /\ overlapped = FALSE

LiveAt(g) == producer[g] \in Live \/ consumer[g] \in Live \/ monitor[g] \in Live

AnyLive == \E g \in Gens : LiveAt(g)

------------------------------------------------------------------------------
(* StreamManager. *)

MarkDisconnected == health' = "DISCONNECTED" /\ reconnecting' = FALSE

\* capture.connect, mark_connected and CameraWorker.start: no await in between,
\* and no look at the tasks of an earlier start.
StartStream ==
    /\ gen < MaxStarts /\ Cardinality({g \in Gens : LiveAt(g)}) < MaxLive
    /\ connected' = TRUE /\ health' = "CONNECTED" /\ reconnecting' = FALSE
    /\ gen' = gen + 1
    /\ producer' = [producer EXCEPT ![gen + 1] = "new"]
    /\ consumer' = [consumer EXCEPT ![gen + 1] = "new"]
    /\ UNCHANGED <<on, frames>>

\* connect fails: a stream that runs already is closed and marked disconnected.
StartFails == MarkDisconnected /\ connected' = FALSE /\ UNCHANGED <<on, tasks, frames>>

Start ==
    /\ StartStream
    /\ monitor' = [monitor EXCEPT ![gen + 1] = "new"]
    /\ overlapped' = (overlapped \/ AnyLive \/ stopping > 0)
    /\ UNCHANGED <<stopping, stops>>

StartRefused == StartFails /\ UNCHANGED <<stopping, history>>

\* cancel() ends a task at its await: nothing of its loop runs any more.
Cancelled(task) == IF gen \in Gens /\ task[gen] \in Live THEN [task EXCEPT ![gen] = "done"] ELSE task

SwitchOff == on' = [w \in {"producer", "consumer", "monitor"} |-> FALSE]

\* The health task's own gather left it in a cycle of waiters: cancel() of it raises.
Unstoppable == gen \in Gens /\ monitor[gen] = "stuck"

\* The flags go down, and the tasks end when they look at them.
StopUncancelled ==
    /\ SwitchOff
    /\ UNCHANGED <<producer, consumer, gen>>

\* CameraWorker.stop up to its gather, for the tasks it still holds.
StopTasks ==
    /\ SwitchOff
    /\ producer' = Cancelled(producer)
    /\ consumer' = Cancelled(consumer)
    /\ UNCHANGED gen

\* stop_stream of an operator awaits the gather if there is a task to wait for.
Stop ==
    /\ stops < MaxStops /\ stops' = stops + 1
    /\ ~Unstoppable
    /\ StopTasks
    /\ monitor' = Cancelled(monitor)
    /\ IF gen \in Gens /\ LiveAt(gen)
       THEN stopping' = stopping + 1 /\ UNCHANGED <<connected, health, reconnecting>>
       ELSE MarkDisconnected /\ connected' = FALSE /\ UNCHANGED stopping
    /\ UNCHANGED <<frames, overlapped>>

\* The exception leaves stop_stream: the capture stays connected.
StopRaises ==
    /\ stops < MaxStops /\ stops' = stops + 1
    /\ Unstoppable
    /\ StopTasks
    /\ UNCHANGED <<monitor, flags, frames, stopping, overlapped>>

\* After the gather: the capture is closed, whoever may have started it since.
FinishStop ==
    /\ stopping > 0 /\ stopping' = stopping - 1
    /\ connected' = FALSE /\ MarkDisconnected
    /\ UNCHANGED <<on, tasks, frames, history>>

Pause ==
    /\ on["producer"]
    /\ on' = [on EXCEPT !["producer"] = FALSE]
    /\ UNCHANGED <<flags, tasks, frames, stopping, history>>

\* Sets the flag; it creates no task.
Resume ==
    /\ ~on["producer"]
    /\ on' = [on EXCEPT !["producer"] = TRUE]
    /\ UNCHANGED <<flags, tasks, frames, stopping, history>>

------------------------------------------------------------------------------
(* The tasks. run() raises its flag when the task first runs, which may be   *)
(* after a stop_stream that held another generation.                         *)

Advance(task, g, from, to) == task[g] = from /\ task' = [task EXCEPT ![g] = to]

SetOn(w) == on' = [on EXCEPT ![w] = TRUE]

\* Every task counts its own frames.
ProducerBootsFromZero(g) ==
    /\ Advance(producer, g, "new", "loop") /\ SetOn("producer")
    /\ counter' = 0
    /\ UNCHANGED <<flags, consumer, monitor, gen, queue, handed, stopping, history>>

ProducerBoots(g) ==
    /\ Advance(producer, g, "new", "loop") /\ SetOn("producer")
    /\ UNCHANGED <<flags, consumer, monitor, gen, frames, stopping, history>>

\* A capture that is not connected is looked at again after 0.1 s.
ProducerLoops(g) ==
    /\ on["producer"] => (connected /\ counter < MaxFrames)
    /\ Advance(producer, g, "loop", IF on["producer"] THEN "reading" ELSE "done")
    /\ UNCHANGED <<flags, on, consumer, monitor, gen, frames, stopping, history>>

\* The read thread returns a frame, to whatever the capture has become meanwhile.
FrameRead(g) ==
    /\ counter < MaxFrames
    /\ Advance(producer, g, "reading", "loop")
    /\ counter' = counter + 1
    /\ queue' = Put(queue, counter + 1)
    /\ UNCHANGED <<flags, on, consumer, monitor, gen, handed, stopping, history>>

\* A failed read closes the capture, an exception leaves it as it is.
ReadFails(g) ==
    /\ Advance(producer, g, "reading", "loop")
    /\ connected' \in {connected, FALSE}
    /\ UNCHANGED <<health, reconnecting, on, consumer, monitor, gen, frames, stopping, history>>

ConsumerBoots(g) ==
    /\ Advance(consumer, g, "new", "loop") /\ SetOn("consumer")
    /\ UNCHANGED <<flags, producer, monitor, gen, frames, stopping, history>>

\* A consumer that waits in get looks at its flag every 0.5 s.
ConsumerEnds(g) ==
    /\ ~on["consumer"]
    /\ Advance(consumer, g, "loop", "done")
    /\ UNCHANGED <<flags, on, producer, monitor, gen, frames, stopping, history>>

\* The consumer waits for a camera that is connected.
ConsumerTakesConnected(g) ==
    /\ connected /\ queue.items # <<>>
    /\ Advance(consumer, g, "loop", "working")
    /\ queue' = Take(queue) /\ handed' = Head(queue.items)
    /\ UNCHANGED <<flags, on, producer, monitor, gen, counter, stopping, history>>

\* get, already waiting when the flag went down or not, and the call of frame_callback.
ConsumerTakes(g) ==
    /\ queue.items # <<>>
    /\ Advance(consumer, g, "loop", "working")
    /\ queue' = Take(queue) /\ handed' = Head(queue.items)
    /\ UNCHANGED <<flags, on, producer, monitor, gen, counter, stopping, history>>

\* frame_callback returned or raised, which is logged.
ConsumerDone(g) ==
    /\ Advance(consumer, g, "working", "loop")
    /\ UNCHANGED <<flags, on, producer, monitor, gen, frames, stopping, history>>

MonitorBoots(g) ==
    /\ Advance(monitor, g, "new", "loop") /\ SetOn("monitor")
    /\ UNCHANGED <<flags, producer, consumer, gen, frames, stopping, history>>

\* A score under 70: no connection, or lost, late or missing frames.
Unhealthy == health # "CONNECTED"

\* Any stream that has begun to read may have lost too much or wait for too long.
MayBeUnhealthy == Unhealthy \/ \E g \in Gens : producer[g] \notin {"none", "new"}

\* The check after the sleep finds nothing to do.
MonitorWakes(g) ==
    /\ reconnecting \/ ~Unhealthy
    /\ Advance(monitor, g, "loop", IF on["monitor"] THEN "loop" ELSE "done")
    /\ UNCHANGED <<flags, on, producer, consumer, gen, frames, stopping, history>>

Triggers == MayBeUnhealthy /\ ~reconnecting

MarkReconnecting == health' = "RECONNECTING" /\ reconnecting' = TRUE

\* reconnect_camera, restart_camera, stop_stream: worker.stop cancels the very task
\* that runs it and has it wait for itself. The gather can never complete.
MonitorCancelsItself ==
    /\ gen \in Gens /\ Triggers /\ MarkReconnecting
    /\ Advance(monitor, gen, "loop", "stuck")
    /\ StopTasks
    /\ UNCHANGED <<connected, frames, stopping, history>>

\* A monitor that CameraWorker has forgotten stops the tasks of the later start.
MonitorStops(g, from) ==
    /\ g < gen /\ monitor[g] = from /\ ~Unstoppable
    /\ StopTasks
    /\ monitor' = [Cancelled(monitor) EXCEPT ![g] = IF LiveAt(gen) THEN "gathering" ELSE "asleep"]
    /\ IF LiveAt(gen)
       THEN /\ UNCHANGED connected
            /\ IF from = "loop" THEN MarkReconnecting ELSE UNCHANGED <<health, reconnecting>>
       ELSE connected' = FALSE /\ MarkDisconnected
    /\ UNCHANGED <<frames, stopping, history>>

\* The exception of a monitor that waits for itself ends this one.
MonitorRaises(g, from) ==
    /\ g < gen /\ Unstoppable
    /\ Advance(monitor, g, from, "done")
    /\ StopTasks
    /\ IF from = "loop" THEN MarkReconnecting ELSE UNCHANGED <<health, reconnecting>>
    /\ UNCHANGED <<connected, frames, stopping, history>>

MonitorReconnects(g) == Triggers /\ (MonitorStops(g, "loop") \/ MonitorRaises(g, "loop"))

\* The next attempt, RECONNECT_DELAY_SECONDS after one that failed.
MonitorRetries(g) == MonitorStops(g, "retry") \/ MonitorRaises(g, "retry")

MonitorDisconnects(g) ==
    /\ Advance(monitor, g, "gathering", "asleep")
    /\ connected' = FALSE /\ MarkDisconnected
    /\ UNCHANGED <<on, producer, consumer, gen, frames, stopping, history>>

\* A monitor back from reconnect_camera tests its flag at once.
AfterReconnect == IF on["monitor"] THEN "loop" ELSE "done"

MonitorRestarts(g) ==
    /\ monitor[g] = "asleep"
    /\ StartStream
    /\ monitor' = [monitor EXCEPT ![gen + 1] = "new", ![g] = AfterReconnect]
    /\ overlapped' = TRUE
    /\ UNCHANGED <<stopping, stops>>

\* RECONNECT_ATTEMPTS times at most; how many are left is not counted.
MonitorFailsToRestart(g) ==
    /\ \E next \in {"retry", AfterReconnect} : Advance(monitor, g, "asleep", next)
    /\ MarkDisconnected /\ connected' = FALSE
    /\ UNCHANGED <<on, producer, consumer, gen, frames, stopping, history>>

------------------------------------------------------------------------------
Producing(g) == ProducerBoots(g) \/ ProducerLoops(g) \/ FrameRead(g) \/ ReadFails(g)

Consuming(g) == ConsumerBoots(g) \/ ConsumerEnds(g) \/ ConsumerTakes(g) \/ ConsumerDone(g)

Monitoring(g) ==
    \/ MonitorBoots(g) \/ MonitorWakes(g) \/ MonitorReconnects(g) \/ MonitorRetries(g)
    \/ MonitorDisconnects(g) \/ MonitorRestarts(g) \/ MonitorFailsToRestart(g)

Operator == Start \/ StartRefused \/ Stop \/ StopRaises \/ Pause \/ Resume

Next ==
    \/ Operator \/ FinishStop \/ MonitorCancelsItself
    \/ \E g \in Gens : Producing(g) \/ Consuming(g) \/ Monitoring(g)

Spec == Init /\ [][Next]_vars

\* The event loop runs every task that is ready, timers included; the operator owes
\* nothing. Which way a read, a check or a start goes is open.
FairSpec ==
    /\ Spec
    /\ WF_vars(FinishStop) /\ WF_vars(MonitorCancelsItself)
    /\ \A g \in Gens : WF_vars(Producing(g)) /\ WF_vars(Consuming(g)) /\ WF_vars(Monitoring(g))

------------------------------------------------------------------------------
(* Properties. *)

\* The queue's own statistics account for every frame, whichever tasks of whichever
\* starts put and took them (total_produced, total_consumed, total_dropped).
QueueAccounted == Accounted(queue)

\* frame_callback sees no frame twice and none after a later one, even when a second
\* start leaves two producers and two consumers on the queue.
FramesInOrder == [][handed' # handed => handed' > handed]_vars

\* A stop_stream that met no second start leaves nothing behind: when it returns,
\* no task runs, the capture is closed and the health record says DISCONNECTED.
StopIsClean ==
    [][stopping > 0 /\ stopping' = 0 /\ ~overlapped
         => ~AnyLive' /\ ~connected' /\ health' = "DISCONNECTED"]_vars

\* No frame waits for ever while some consumer task runs.
FramesAreTaken == []<>(queue.items = <<>> \/ \A g \in Gens : consumer[g] \notin Live)

\* "Trigger auto-reconnect if camera is marked disconnected or unhealthy"
\* (health_worker.py:34): a reconnection that begins comes to an end. Violated by
\* MonitorCancelsItself.
ReconnectEnds == reconnecting ~> ~reconnecting
=============================================================================
