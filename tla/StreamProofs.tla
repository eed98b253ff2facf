----------------------------- MODULE StreamProofs -----------------------------
(***************************************************************************)
(* What one camera stream guarantees for every queue size, either          *)
(* backpressure policy and any number of overlapping starts: the queue's   *)
(* statistics add up, frame_callback sees the frames in order, and a stop  *)
(* that met no second start leaves nothing behind.                         *)
(***************************************************************************)
EXTENDS CameraStream, SequenceTheorems, TLAPS

\* The frames that wait are in the order of their numbers, all of them later than
\* the last one handed over and none later than the last one read.
Between(s, low, high) ==
    /\ \A i \in 1..Len(s) : low < s[i] /\ s[i] <= high
    /\ \A i, j \in 1..Len(s) : i < j => s[i] < s[j]

QueueOK(q) == q \in QueueType /\ Len(q.items) <= QueueSize /\ Accounted(q)

IInv ==
    /\ counter \in Nat /\ handed \in Nat /\ handed <= counter
    /\ QueueOK(queue)
    /\ Between(queue.items, handed, counter)

------------------------------------------------------------------------------
(* FrameQueue. *)

\* One more frame put in and one more lost; one more taken and one less waiting.
LEMMA OneLost ==
    ASSUME NEW made \in Nat, NEW used \in Nat, NEW waits \in Nat, NEW lost \in Nat
    PROVE  made = used + waits + lost => made + 1 = used + waits + (lost + 1)
OBVIOUS

LEMMA OneTaken ==
    ASSUME NEW made \in Nat, NEW used \in Nat, NEW waits \in Nat, NEW lost \in Nat
    PROVE  made = used + waits + lost => made = (used + 1) + (waits - 1) + lost
OBVIOUS

LEMMA NewQueueOK == QueueOK(NewQueue)
BY QueueSizeIsPositive DEF QueueOK, NewQueue, QueueType, Accounted

\* put keeps the accounts, whether it finds room or not.
LEMMA PutOK ==
    ASSUME NEW q, QueueOK(q), NEW f \in Nat
    PROVE  QueueOK(Put(q, f))
<1> DEFINE p == Put(q, f)
<1>1. /\ q.items \in Seq(Nat) /\ q.produced \in Nat /\ q.consumed \in Nat
      /\ q.dropped \in Nat /\ q.peak \in Nat
  BY DEF QueueOK, QueueType
<1>2. CASE ~IsFull(q)
  <2>1. p.items = Append(q.items, f) /\ p.produced = q.produced + 1
        /\ p.consumed = q.consumed /\ p.dropped = q.dropped /\ p.peak \in Nat
    BY <1>1, <1>2 DEF Put, Accepts, Larger
  <2>2. p \in QueueType
    BY <1>1, <1>2, <2>1 DEF Put, QueueType
  <2>3. Len(p.items) = Len(q.items) + 1 /\ Len(p.items) <= QueueSize
    BY <1>1, <1>2, <2>1, QueueSizeIsPositive DEF IsFull, QueueOK
  <2> QED BY <1>1, <2>1, <2>2, <2>3, PolicyIsKnown DEF QueueOK, Accounted
<1>3. CASE IsFull(q) /\ Policy = "DROP_OLDEST"
  <2>0. /\ p.produced = q.produced + 1 /\ p.consumed = q.consumed
        /\ p.dropped = q.dropped + 1
    BY <1>1, <1>3 DEF Put, Accepts
  <2>1. p.items = Append(Tail(q.items), f) /\ p.peak = QueueSize
    BY <1>1, <1>3 DEF Put, Accepts
  <2>2. Len(q.items) = QueueSize /\ q.items # <<>>
    BY <1>1, <1>3, QueueSizeIsPositive, EmptySeq DEF IsFull
  <2>3. Tail(q.items) \in Seq(Nat) /\ Len(Tail(q.items)) = Len(q.items) - 1
    BY <1>1, <2>2, HeadTailProperties
  <2>4. p.items \in Seq(Nat) /\ Len(p.items) = QueueSize
    BY <1>1, <2>1, <2>2, <2>3, AppendProperties, QueueSizeIsPositive
  <2>5. p \in QueueType
    BY <1>1, <1>3, <2>0, <2>1, <2>4, QueueSizeIsPositive DEF Put, QueueType
  <2>6. q.produced = q.consumed + QueueSize + q.dropped
    BY <1>3, <2>2 DEF QueueOK, Accounted
  <2> HIDE DEF p
  <2>7. QueueSize \in Nat /\ q.produced \in Nat /\ q.consumed \in Nat /\ q.dropped \in Nat
    BY <1>1, QueueSizeIsPositive
  <2>9. q.produced + 1 = q.consumed + QueueSize + (q.dropped + 1)
    BY <2>6, <2>7, OneLost
  <2>10. p.produced = p.consumed + QueueSize + p.dropped
    BY <2>0, <2>9, Zenon
  <2>8. QueueOK(p)
    BY <1>3, <2>4, <2>5, <2>10, QueueSizeIsPositive DEF QueueOK, Accounted
  <2> QED BY <2>8 DEF p
<1>4. CASE IsFull(q) /\ Policy = "DROP_NEWEST"
  <2>1. p.items = q.items /\ p.produced = q.produced
        /\ p.consumed = q.consumed /\ p.dropped = q.dropped + 1 /\ p.peak = QueueSize
    BY <1>1, <1>4 DEF Put, Accepts
  <2>2. p \in QueueType
    BY <1>1, <1>4, <2>1, QueueSizeIsPositive DEF Put, QueueType
  <2> QED BY <1>1, <1>4, <2>1, <2>2 DEF QueueOK, Accounted
<1> QED BY <1>2, <1>3, <1>4, PolicyIsKnown

\* An increasing sequence of numbers stays one when a larger number is appended
\* and when the first is taken off.
LEMMA AppendBetween ==
    ASSUME NEW s \in Seq(Nat), NEW low \in Nat, NEW high \in Nat, low <= high,
           Between(s, low, high)
    PROVE  Between(Append(s, high + 1), low, high + 1)
<1> DEFINE t == Append(s, high + 1)
<1>1. /\ Len(t) = Len(s) + 1 /\ t[Len(s) + 1] = high + 1
      /\ \A i \in 1..Len(s) : t[i] = s[i]
  BY AppendProperties
<1>2. Len(s) \in Nat /\ \A i \in 1..Len(s) : s[i] \in Nat
  BY ElementOfSeq, LenProperties
<1> HIDE DEF t
<1>3. \A i \in 1..Len(t) : low < t[i] /\ t[i] <= high + 1
  <2> TAKE i \in 1..Len(t)
  <2>1. CASE i \in 1..Len(s)
    BY <1>1, <1>2, <2>1 DEF Between
  <2>2. CASE i = Len(s) + 1
    BY <1>1, <2>2
  <2> QED BY <1>1, <1>2, <2>1, <2>2
<1>4. \A i, j \in 1..Len(t) : i < j => t[i] < t[j]
  <2> TAKE i, j \in 1..Len(t)
  <2> HAVE i < j
  <2>1. i \in 1..Len(s) /\ t[i] = s[i]
    BY <1>1, <1>2
  <2>2. CASE j \in 1..Len(s)
    BY <1>1, <2>1, <2>2 DEF Between
  <2>3. CASE j = Len(s) + 1
    BY <1>1, <1>2, <2>1, <2>3 DEF Between
  <2> QED BY <1>1, <1>2, <2>2, <2>3
<1>5. Between(t, low, high + 1)
  BY <1>3, <1>4 DEF Between
<1> QED BY <1>5 DEF t

LEMMA TailBetween ==
    ASSUME NEW s \in Seq(Nat), s # <<>>, NEW low \in Nat, NEW high \in Nat,
           Between(s, low, high)
    PROVE  /\ Head(s) \in Nat /\ low < Head(s) /\ Head(s) <= high
           /\ Between(Tail(s), low, high) /\ Between(Tail(s), Head(s), high)
<1>1. /\ Head(s) \in Nat /\ Head(s) = s[1] /\ Len(s) \in Nat \ {0}
      /\ Tail(s) \in Seq(Nat) /\ Len(Tail(s)) = Len(s) - 1
      /\ \A i \in 1..Len(Tail(s)) : Tail(s)[i] = s[i + 1]
  BY HeadTailProperties, LenProperties, EmptySeq
<1>2. \A i \in 1..Len(s) : s[i] \in Nat
  BY ElementOfSeq
<1>3. low < s[1] /\ s[1] <= high
  BY <1>1 DEF Between
<1>4. \A i \in 1..Len(Tail(s)) : s[1] < Tail(s)[i] /\ Tail(s)[i] <= high
  BY <1>1 DEF Between
<1>5. \A i, j \in 1..Len(Tail(s)) : i < j => Tail(s)[i] < Tail(s)[j]
  BY <1>1 DEF Between
<1>6. \A i \in 1..Len(Tail(s)) : low < Tail(s)[i]
  BY <1>1, <1>2, <1>3, <1>4
<1> QED BY <1>1, <1>3, <1>4, <1>5, <1>6 DEF Between

\* A frame put after all the others waits after all the others.
LEMMA PutOrder ==
    ASSUME NEW q, QueueOK(q), NEW low \in Nat, NEW high \in Nat, low <= high,
           Between(q.items, low, high)
    PROVE  Between(Put(q, high + 1).items, low, high + 1)
<1> DEFINE p == Put(q, high + 1)
<1>1. q.items \in Seq(Nat)
  BY DEF QueueOK, QueueType
<1>2. CASE ~IsFull(q)
  <2>1. p.items = Append(q.items, high + 1)
    BY <1>2 DEF Put
  <2> QED BY <1>1, <2>1, AppendBetween
<1>3. CASE IsFull(q) /\ Accepts(q)
  <2>1. p.items = Append(Tail(q.items), high + 1)
    BY <1>3 DEF Put
  <2>2. q.items # <<>> /\ Tail(q.items) \in Seq(Nat)
    BY <1>1, <1>3, QueueSizeIsPositive, EmptySeq, HeadTailProperties DEF IsFull
  <2>3. Between(Tail(q.items), low, high)
    BY <1>1, <2>2, TailBetween
  <2> QED BY <2>1, <2>2, <2>3, AppendBetween
<1>4. CASE IsFull(q) /\ ~Accepts(q)
  <2>1. p.items = q.items
    BY <1>4 DEF Put
  <2>2. \A i \in 1..Len(q.items) : q.items[i] \in Nat
    BY <1>1, ElementOfSeq
  <2>3. \A i \in 1..Len(q.items) : low < q.items[i] /\ q.items[i] <= high + 1
    BY <2>2 DEF Between
  <2>4. Between(q.items, low, high + 1)
    BY <2>3 DEF Between
  <2> QED BY <2>1, <2>4
<1> QED BY <1>2, <1>3, <1>4

\* get hands over the first frame, and the others are later than it.
LEMMA TakeOK ==
    ASSUME NEW q, QueueOK(q), q.items # <<>>,
           NEW low \in Nat, NEW high \in Nat, Between(q.items, low, high)
    PROVE  /\ QueueOK(Take(q))
           /\ Head(q.items) \in Nat /\ low < Head(q.items) /\ Head(q.items) <= high
           /\ Between(Take(q).items, Head(q.items), high)
<1> DEFINE t == Take(q)
<1>1. /\ q.items \in Seq(Nat) /\ q.produced \in Nat /\ q.consumed \in Nat
      /\ q.dropped \in Nat /\ q.peak \in Nat
  BY DEF QueueOK, QueueType
<1>2. /\ t.items = Tail(q.items) /\ t.produced = q.produced
      /\ t.consumed = q.consumed + 1 /\ t.dropped = q.dropped
  BY DEF Take
<1>3. Tail(q.items) \in Seq(Nat) /\ Len(Tail(q.items)) = Len(q.items) - 1 /\ Len(q.items) \in Nat
  BY <1>1, HeadTailProperties, LenProperties
<1>4. t \in QueueType
  BY <1>1, <1>3 DEF Take, QueueType
<1> DEFINE n == Len(q.items)
<1>5. Accounted(t)
  <2>1. Len(t.items) = n - 1 /\ n \in Nat
    BY <1>2, <1>3
  <2>2. q.produced = q.consumed + n + (IF Policy = "DROP_OLDEST" THEN q.dropped ELSE 0)
    BY DEF QueueOK, Accounted
  <2>3. q.produced \in Nat /\ q.consumed \in Nat /\ q.dropped \in Nat
    BY <1>1
  <2> HIDE DEF n, t
  <2>4. CASE Policy = "DROP_OLDEST"
    <3>1. q.produced = (q.consumed + 1) + (n - 1) + q.dropped
      BY <2>1, <2>2, <2>3, <2>4, OneTaken
    <3> QED BY <1>2, <2>1, <2>4, <3>1, Zenon DEF Accounted
  <2>5. CASE Policy # "DROP_OLDEST"
    <3>1. q.produced = (q.consumed + 1) + (n - 1) + 0
      BY <2>1, <2>2, <2>3, <2>5, OneTaken
    <3> QED BY <1>2, <2>1, <2>5, <3>1, Zenon DEF Accounted
  <2> QED BY <2>4, <2>5
<1>6. Len(t.items) <= QueueSize
  BY <1>2, <1>3, QueueSizeIsPositive DEF QueueOK
<1> QED BY <1>1, <1>2, <1>4, <1>5, <1>6, TailBetween DEF QueueOK

------------------------------------------------------------------------------
(* CameraStream. *)

LEMMA InitIInv == Init => IInv
<1> SUFFICES ASSUME Init PROVE IInv
  OBVIOUS
<1>1. queue = NewQueue /\ counter = 0 /\ handed = 0
  BY DEF Init
<1>2. queue.items = <<>>
  BY <1>1 DEF NewQueue
<1>3. Between(queue.items, handed, counter)
  BY <1>2 DEF Between
<1> QED BY <1>1, <1>3, NewQueueOK DEF IInv

LEMMA FrameReadIInv ==
    ASSUME IInv, NEW g \in Gens, FrameRead(g)
    PROVE  IInv' /\ handed' = handed
<1>1. counter' = counter + 1 /\ queue' = Put(queue, counter + 1) /\ handed' = handed
  BY DEF FrameRead
<1>2. counter \in Nat /\ handed \in Nat /\ handed <= counter
      /\ QueueOK(queue) /\ Between(queue.items, handed, counter)
  BY DEF IInv
<1>3. QueueOK(Put(queue, counter + 1))
  BY <1>2, PutOK
<1>4. Between(Put(queue, counter + 1).items, handed, counter + 1)
  BY <1>2, PutOrder
<1>5. counter' \in Nat /\ handed' \in Nat /\ handed' <= counter'
  BY <1>1, <1>2
<1>6. QueueOK(queue)' /\ Between(queue.items, handed, counter)'
  BY <1>1, <1>3, <1>4 DEF QueueOK, Between, Accounted
<1> QED BY <1>1, <1>5, <1>6 DEF IInv

LEMMA ConsumerTakesIInv ==
    ASSUME IInv, NEW g \in Gens, ConsumerTakes(g)
    PROVE  IInv' /\ handed < handed'
<1>1. /\ queue.items # <<>> /\ counter' = counter
      /\ queue' = Take(queue) /\ handed' = Head(queue.items)
  BY DEF ConsumerTakes
<1>2. counter \in Nat /\ handed \in Nat /\ handed <= counter
      /\ QueueOK(queue) /\ Between(queue.items, handed, counter)
  BY DEF IInv
<1>3. /\ QueueOK(Take(queue))
      /\ Head(queue.items) \in Nat /\ handed < Head(queue.items) /\ Head(queue.items) <= counter
      /\ Between(Take(queue).items, Head(queue.items), counter)
  BY <1>1, <1>2, TakeOK
<1>4. counter' \in Nat /\ handed' \in Nat /\ handed' <= counter' /\ handed < handed'
  BY <1>1, <1>2, <1>3
<1>5. QueueOK(queue)' /\ Between(queue.items, handed, counter)'
  BY <1>1, <1>3 DEF QueueOK, Between, Accounted
<1> QED BY <1>4, <1>5 DEF IInv

\* Every other step leaves the frames alone.
LEMMA OtherSteps ==
    ASSUME [Next]_vars, \A g \in Gens : ~FrameRead(g) /\ ~ConsumerTakes(g)
    PROVE  UNCHANGED <<queue, counter, handed>>
<1>1. CASE UNCHANGED vars
  BY <1>1 DEF vars
<1>2. CASE Operator
  BY <1>2 DEF Operator, Start, StartStream, StartRefused, StartFails, Stop, StopRaises,
    Pause, Resume, frames
<1>3. CASE FinishStop \/ MonitorCancelsItself
  BY <1>3 DEF FinishStop, MonitorCancelsItself, frames
<1>4. ASSUME NEW g \in Gens, Producing(g)
      PROVE  UNCHANGED <<queue, counter, handed>>
  BY <1>4 DEF Producing, ProducerBoots, ProducerLoops, ReadFails, frames
<1>5. ASSUME NEW g \in Gens, Consuming(g)
      PROVE  UNCHANGED <<queue, counter, handed>>
  BY <1>5 DEF Consuming, ConsumerBoots, ConsumerEnds, ConsumerDone, frames
<1>6. ASSUME NEW g \in Gens, Monitoring(g)
      PROVE  UNCHANGED <<queue, counter, handed>>
  BY <1>6 DEF Monitoring, MonitorBoots, MonitorWakes, MonitorReconnects, MonitorRetries,
    MonitorStops, MonitorRaises, MonitorDisconnects, MonitorRestarts, MonitorFailsToRestart,
    StartStream, frames
<1> QED BY <1>1, <1>2, <1>3, <1>4, <1>5, <1>6 DEF Next

\* A step keeps the invariant, and hands over a later frame or none.
LEMMA Step ==
    ASSUME IInv, [Next]_vars
    PROVE  IInv' /\ (handed' # handed => handed' > handed)
<1>1. CASE \E g \in Gens : FrameRead(g)
  BY <1>1, FrameReadIInv
<1>2. CASE \E g \in Gens : ConsumerTakes(g)
  <2>1. IInv' /\ handed < handed'
    BY <1>2, ConsumerTakesIInv
  <2>2. handed \in Nat /\ handed' \in Nat
    BY <2>1 DEF IInv
  <2> QED BY <2>1, <2>2
<1>3. CASE \A g \in Gens : ~FrameRead(g) /\ ~ConsumerTakes(g)
  <2>1. UNCHANGED <<queue, counter, handed>>
    BY <1>3, OtherSteps
  <2> QED BY <2>1 DEF IInv, QueueOK, Between, Accounted
<1> QED BY <1>1, <1>2, <1>3

\* FrameQueue.get_statistics: total_produced, total_consumed and total_dropped account
\* for every frame, however many producers and consumers share the queue.
THEOREM Accounts == Spec => []QueueAccounted
<1>1. IInv => QueueAccounted
  BY DEF IInv, QueueOK, QueueAccounted
<1>2. IInv /\ [Next]_vars => IInv'
  BY Step
<1> QED BY InitIInv, <1>1, <1>2, PTL DEF Spec

\* frame_callback sees every frame at most once and in the order they were read.
THEOREM Order == Spec => FramesInOrder
<1>1. IInv /\ [Next]_vars => IInv'
  BY Step
<1>2. IInv /\ [Next]_vars => [handed' # handed => handed' > handed]_vars
  BY Step
<1> QED BY InitIInv, <1>1, <1>2, PTL DEF Spec, FramesInOrder

------------------------------------------------------------------------------
(* The tasks of the starts. *)

\* What TypeOK says of everything but the frames.
ShapeOK ==
    /\ connected \in BOOLEAN /\ reconnecting \in BOOLEAN
    /\ health \in {"DISCONNECTED", "CONNECTED", "RECONNECTING"}
    /\ on \in [{"producer", "consumer", "monitor"} -> BOOLEAN]
    /\ producer \in [Gens -> ProducerPhase]
    /\ consumer \in [Gens -> ConsumerPhase]
    /\ monitor \in [Gens -> MonitorPhase]
    /\ gen \in 0..MaxStarts
    /\ stopping \in 0..MaxStops /\ stops \in 0..MaxStops /\ stopping <= stops
    /\ overlapped \in BOOLEAN

\* Unless a start met live tasks or a stop under way, the only live tasks are those
\* CameraWorker holds, and while a stop is under way there are none.
OnlyHeldLive ==
    ~overlapped => \A g \in Gens : LiveAt(g) => g = gen /\ stopping = 0

\* A step of the tasks: no start, no stop, and nobody comes to life.
TasksOnly ==
    /\ UNCHANGED <<gen, stopping, stops, overlapped>>
    /\ \A g \in Gens : LiveAt(g)' => LiveAt(g)

LEMMA TasksOnlyKeeps == OnlyHeldLive /\ TasksOnly => OnlyHeldLive'
BY DEF OnlyHeldLive, TasksOnly

LEMMA InitTasks == Init => ShapeOK /\ OnlyHeldLive
<1> SUFFICES ASSUME Init PROVE ShapeOK /\ OnlyHeldLive
  OBVIOUS
<1>1. ShapeOK
  <2>1. /\ gen \in 0..MaxStarts /\ stopping \in 0..MaxStops /\ stops \in 0..MaxStops
        /\ stopping <= stops
    BY StreamBounds DEF Init
  <2>2. /\ producer \in [Gens -> ProducerPhase] /\ consumer \in [Gens -> ConsumerPhase]
        /\ monitor \in [Gens -> MonitorPhase]
        /\ on \in [{"producer", "consumer", "monitor"} -> BOOLEAN]
    BY DEF Init, ProducerPhase, ConsumerPhase, MonitorPhase
  <2> QED BY <2>1, <2>2 DEF Init, ShapeOK
<1>2. OnlyHeldLive
  BY DEF Init, OnlyHeldLive, LiveAt, Live
<1> QED BY <1>1, <1>2

\* StopTasks and the flags go down: only tasks the worker holds end.
LEMMA CancelledFacts ==
    ASSUME ShapeOK, StopTasks
    PROVE  /\ producer' \in [Gens -> ProducerPhase] /\ consumer' \in [Gens -> ConsumerPhase]
           /\ Cancelled(monitor) \in [Gens -> MonitorPhase]
           /\ on' \in [{"producer", "consumer", "monitor"} -> BOOLEAN] /\ gen' = gen
           /\ \A g \in Gens : producer'[g] \in Live => producer[g] \in Live /\ g # gen
           /\ \A g \in Gens : consumer'[g] \in Live => consumer[g] \in Live /\ g # gen
           /\ \A g \in Gens : Cancelled(monitor)[g] \in Live => monitor[g] \in Live /\ g # gen
BY DEF ShapeOK, StopTasks, SwitchOff, Cancelled, Live, ProducerPhase, ConsumerPhase, MonitorPhase

\* A start adds a generation.
LEMMA StartFacts ==
    ASSUME ShapeOK, StartStream
    PROVE  /\ gen + 1 \in Gens /\ gen' = gen + 1 /\ gen' \in 0..MaxStarts
           /\ producer' \in [Gens -> ProducerPhase] /\ consumer' \in [Gens -> ConsumerPhase]
           /\ connected' \in BOOLEAN /\ reconnecting' \in BOOLEAN /\ health' = "CONNECTED"
           /\ \A g \in Gens \ {gen + 1} : producer'[g] = producer[g] /\ consumer'[g] = consumer[g]
<1>1. gen + 1 \in Gens /\ gen' = gen + 1 /\ gen' \in 0..MaxStarts
  BY StreamBounds DEF ShapeOK, StartStream, Gens
<1>2. /\ producer' = [producer EXCEPT ![gen + 1] = "new"]
      /\ consumer' = [consumer EXCEPT ![gen + 1] = "new"]
      /\ connected' = TRUE /\ health' = "CONNECTED" /\ reconnecting' = FALSE
  BY DEF StartStream
<1>3. producer \in [Gens -> ProducerPhase] /\ consumer \in [Gens -> ConsumerPhase]
  BY DEF ShapeOK
<1> QED BY <1>1, <1>2, <1>3 DEF ProducerPhase, ConsumerPhase

LEMMA OperatorTasks ==
    ASSUME ShapeOK, OnlyHeldLive, Operator
    PROVE  ShapeOK' /\ OnlyHeldLive'
<1>1. CASE Start
  <2>1. /\ StartStream /\ monitor' = [monitor EXCEPT ![gen + 1] = "new"]
        /\ overlapped' = (overlapped \/ AnyLive \/ stopping > 0)
        /\ stopping' = stopping /\ stops' = stops /\ on' = on
    BY <1>1 DEF Start, StartStream
  <2>2. ShapeOK'
    BY <2>1, StartFacts DEF ShapeOK, MonitorPhase
  <2>3. ASSUME ~overlapped', NEW g \in Gens, LiveAt(g)'
        PROVE  g = gen' /\ stopping' = 0
    <3>1. ~AnyLive /\ stopping = 0
      <4>1. ~(overlapped \/ AnyLive \/ stopping > 0)
        BY <2>1, <2>3, Zenon
      <4> QED BY <4>1, StreamBounds DEF ShapeOK
    <3>2. CASE g # gen + 1
      <4>1. producer'[g] = producer[g] /\ consumer'[g] = consumer[g] /\ monitor'[g] = monitor[g]
        BY <2>1, <3>2, StartFacts DEF ShapeOK
      <4> QED BY <2>3, <3>1, <4>1 DEF LiveAt, AnyLive
    <3> QED BY <2>1, <3>1, <3>2, StartFacts
  <2> QED BY <2>2, <2>3 DEF OnlyHeldLive
<1>2. CASE StartRefused
  <2>1. ShapeOK'
    BY <1>2 DEF ShapeOK, StartRefused, StartFails, MarkDisconnected, tasks, history
  <2>2. TasksOnly
    BY <1>2 DEF TasksOnly, StartRefused, StartFails, tasks, history, LiveAt
  <2> QED BY <2>1, <2>2, TasksOnlyKeeps
<1>3. CASE Stop
  <2>1. /\ StopTasks /\ monitor' = Cancelled(monitor) /\ stops < MaxStops /\ stops' = stops + 1
        /\ stopping' \in {stopping, stopping + 1} /\ overlapped' = overlapped
        /\ connected' \in {connected, FALSE} /\ reconnecting' \in {reconnecting, FALSE}
        /\ health' \in {health, "DISCONNECTED"}
    BY <1>3 DEF Stop, MarkDisconnected
  <2>2. stopping' \in 0..MaxStops /\ stops' \in 0..MaxStops /\ stopping' <= stops'
    BY <2>1, StreamBounds DEF ShapeOK
  <2>3. ShapeOK'
    BY <2>1, <2>2, CancelledFacts DEF ShapeOK
  <2>4. ~overlapped => \A g \in Gens : ~LiveAt(g)'
    BY <2>1, CancelledFacts DEF OnlyHeldLive, LiveAt
  <2> QED BY <2>1, <2>3, <2>4 DEF OnlyHeldLive
<1>4. CASE StopRaises
  <2>1. /\ StopTasks /\ UNCHANGED <<monitor, connected, health, reconnecting, stopping, overlapped>>
        /\ stops < MaxStops /\ stops' = stops + 1
    BY <1>4 DEF StopRaises, flags
  <2>2. stops' \in 0..MaxStops /\ stopping' <= stops'
    BY <2>1, StreamBounds DEF ShapeOK
  <2>3. ShapeOK'
    BY <2>1, <2>2, CancelledFacts DEF ShapeOK
  <2>4. \A g \in Gens : LiveAt(g)' => LiveAt(g)
    BY <2>1, CancelledFacts DEF LiveAt
  <2> QED BY <2>1, <2>3, <2>4, CancelledFacts DEF OnlyHeldLive
<1>5. CASE Pause \/ Resume
  <2>1. ShapeOK'
    BY <1>5 DEF ShapeOK, Pause, Resume, flags, tasks, history
  <2>2. TasksOnly
    BY <1>5 DEF TasksOnly, Pause, Resume, tasks, history, LiveAt
  <2> QED BY <2>1, <2>2, TasksOnlyKeeps
<1> QED BY <1>1, <1>2, <1>3, <1>4, <1>5 DEF Operator

LEMMA LoopTasks ==
    ASSUME ShapeOK, NEW g \in Gens, Producing(g) \/ Consuming(g)
    PROVE  ShapeOK' /\ TasksOnly
<1>1. CASE Producing(g)
  <2>1. /\ producer[g] \in Live /\ \E to \in ProducerPhase : producer' = [producer EXCEPT ![g] = to]
        /\ connected' \in BOOLEAN /\ on' \in [{"producer", "consumer", "monitor"} -> BOOLEAN]
        /\ UNCHANGED <<health, reconnecting, consumer, monitor, gen, stopping, stops, overlapped>>
    BY <1>1 DEF Producing, ProducerBoots, ProducerLoops, FrameRead, ReadFails, Advance, SetOn,
      ShapeOK, flags, history, ProducerPhase, Live
  <2>2. ShapeOK'
    BY <2>1 DEF ShapeOK
  <2>3. TasksOnly
    BY <2>1 DEF TasksOnly, LiveAt, ShapeOK
  <2> QED BY <2>2, <2>3
<1>2. CASE Consuming(g)
  <2>1. /\ consumer[g] \in Live /\ \E to \in ConsumerPhase : consumer' = [consumer EXCEPT ![g] = to]
        /\ on' \in [{"producer", "consumer", "monitor"} -> BOOLEAN]
        /\ UNCHANGED <<connected, health, reconnecting, producer, monitor, gen, stopping, stops,
                       overlapped>>
    BY <1>2 DEF Consuming, ConsumerBoots, ConsumerEnds, ConsumerTakes, ConsumerDone, Advance, SetOn,
      ShapeOK, flags, history, ConsumerPhase, Live
  <2>2. ShapeOK'
    BY <2>1 DEF ShapeOK
  <2>3. TasksOnly
    BY <2>1 DEF TasksOnly, LiveAt, ShapeOK
  <2> QED BY <2>2, <2>3
<1> QED BY <1>1, <1>2

\* A health worker that stops or restarts the stream is one of an earlier start.
LEMMA MonitorTasks ==
    ASSUME ShapeOK, OnlyHeldLive, NEW g \in Gens, Monitoring(g)
    PROVE  ShapeOK' /\ OnlyHeldLive'
<1>1. CASE MonitorBoots(g) \/ MonitorWakes(g) \/ MonitorDisconnects(g) \/ MonitorFailsToRestart(g)
  <2>1. /\ monitor[g] \in Live /\ \E to \in MonitorPhase : monitor' = [monitor EXCEPT ![g] = to]
        /\ connected' \in BOOLEAN /\ reconnecting' \in BOOLEAN
        /\ health' \in {health, "DISCONNECTED"}
        /\ on' \in [{"producer", "consumer", "monitor"} -> BOOLEAN]
        /\ UNCHANGED <<producer, consumer, gen, stopping, stops, overlapped>>
    BY <1>1 DEF MonitorBoots, MonitorWakes, MonitorDisconnects, MonitorFailsToRestart, Advance,
      AfterReconnect, SetOn, MarkDisconnected, ShapeOK, flags, history, MonitorPhase, Live
  <2>2. ShapeOK'
    BY <2>1 DEF ShapeOK
  <2>3. TasksOnly
    BY <2>1 DEF TasksOnly, LiveAt, ShapeOK
  <2> QED BY <2>2, <2>3, TasksOnlyKeeps
<1>2. ASSUME NEW from \in {"loop", "retry"}, MonitorStops(g, from) \/ MonitorRaises(g, from)
      PROVE  ShapeOK' /\ OnlyHeldLive'
  <2>1. /\ StopTasks /\ g < gen /\ monitor[g] = from
        /\ UNCHANGED <<stopping, stops, overlapped>>
        /\ connected' \in BOOLEAN /\ reconnecting' \in BOOLEAN
        /\ health' \in {"DISCONNECTED", "CONNECTED", "RECONNECTING"}
    BY <1>2 DEF MonitorStops, MonitorRaises, Advance, MarkReconnecting, MarkDisconnected, ShapeOK,
      history
  <2>2. monitor' \in [Gens -> MonitorPhase]
    <3>1. CASE MonitorStops(g, from)
      BY <2>1, <3>1, CancelledFacts DEF MonitorStops, MonitorPhase
    <3>2. CASE MonitorRaises(g, from)
      BY <3>2 DEF MonitorRaises, Advance, ShapeOK, MonitorPhase
    <3> QED BY <1>2, <3>1, <3>2
  <2>3. ShapeOK'
    BY <2>1, <2>2, CancelledFacts DEF ShapeOK
  <2>4. LiveAt(g) /\ g # gen
    BY <2>1 DEF LiveAt, Live, ShapeOK, Gens
  <2>5. overlapped
    BY <2>4 DEF OnlyHeldLive
  <2> QED BY <2>1, <2>3, <2>5 DEF OnlyHeldLive
<1>3. CASE MonitorReconnects(g) \/ MonitorRetries(g)
  BY <1>2, <1>3 DEF MonitorReconnects, MonitorRetries
<1>4. CASE MonitorRestarts(g)
  <2>1. /\ StartStream /\ monitor' = [monitor EXCEPT ![gen + 1] = "new", ![g] = AfterReconnect]
        /\ overlapped' = TRUE /\ stopping' = stopping /\ stops' = stops /\ on' = on
    BY <1>4 DEF MonitorRestarts, StartStream
  <2>2. ShapeOK'
    BY <2>1, StartFacts DEF ShapeOK, MonitorPhase, AfterReconnect
  <2> QED BY <2>1, <2>2 DEF OnlyHeldLive
<1> QED BY <1>1, <1>3, <1>4 DEF Monitoring

LEMMA TasksStep ==
    ASSUME ShapeOK, OnlyHeldLive, [Next]_vars
    PROVE  ShapeOK' /\ OnlyHeldLive'
<1>1. CASE UNCHANGED vars
  BY <1>1 DEF vars, ShapeOK, OnlyHeldLive, LiveAt
<1>2. CASE FinishStop
  <2>1. stopping' \in 0..MaxStops /\ stopping' <= stops
    BY <1>2, StreamBounds DEF FinishStop, ShapeOK
  <2>2. ShapeOK'
    BY <1>2, <2>1 DEF FinishStop, MarkDisconnected, ShapeOK, tasks, history
  <2>3. ~overlapped => \A g \in Gens : ~LiveAt(g)'
    BY <1>2 DEF FinishStop, OnlyHeldLive, LiveAt, ShapeOK, tasks
  <2>4. overlapped' = overlapped
    BY <1>2 DEF FinishStop, history
  <2> QED BY <2>2, <2>3, <2>4 DEF OnlyHeldLive
<1>3. CASE MonitorCancelsItself
  <2>1. /\ gen \in Gens /\ monitor[gen] = "loop" /\ monitor' = [monitor EXCEPT ![gen] = "stuck"]
        /\ StopTasks /\ MarkReconnecting
        /\ UNCHANGED <<connected, stopping, stops, overlapped>>
    BY <1>3 DEF MonitorCancelsItself, Advance, history
  <2>2. ShapeOK'
    BY <2>1, CancelledFacts DEF ShapeOK, MarkReconnecting, MonitorPhase
  <2>3. \A g \in Gens : LiveAt(g)' => LiveAt(g)
    BY <2>1, CancelledFacts DEF LiveAt, ShapeOK, Live
  <2>4. TasksOnly
    BY <2>1, <2>3, CancelledFacts DEF TasksOnly
  <2> QED BY <2>2, <2>4, TasksOnlyKeeps
<1> QED BY <1>1, <1>2, <1>3, OperatorTasks, LoopTasks, MonitorTasks, TasksOnlyKeeps DEF Next

\* Every state of a stream has its types, and the queue never exceeds its size.
THEOREM TypeCorrect == Spec => []TypeOK
<1>1. IInv /\ ShapeOK => TypeOK
  BY DEF IInv, ShapeOK, TypeOK, QueueOK
<1>2. IInv /\ [Next]_vars => IInv'
  BY Step
<1>3. ShapeOK /\ OnlyHeldLive /\ [Next]_vars => ShapeOK' /\ OnlyHeldLive'
  BY TasksStep
<1> QED BY InitIInv, InitTasks, <1>1, <1>2, <1>3, PTL DEF Spec

\* stop_stream, when it returns and met no second start, has ended every task, closed
\* the capture and marked the stream disconnected.
THEOREM CleanStop == Spec => StopIsClean
<1>1. ShapeOK /\ OnlyHeldLive /\ [Next]_vars =>
        (stopping > 0 /\ stopping' = 0 /\ ~overlapped
           => ~AnyLive' /\ ~connected' /\ health' = "DISCONNECTED")
  <2> SUFFICES ASSUME ShapeOK, OnlyHeldLive, [Next]_vars,
                      stopping > 0, stopping' = 0, ~overlapped
               PROVE  ~AnyLive' /\ ~connected' /\ health' = "DISCONNECTED"
    OBVIOUS
  <2>1. stopping \in Nat /\ stopping' # stopping /\ stopping' # stopping + 1
    BY DEF ShapeOK
  <2>2. ~Operator
    BY <2>1 DEF Operator, Start, StartRefused, Stop, StopRaises, Pause, Resume
  <2>3. \A g \in Gens : ~Producing(g) /\ ~Consuming(g)
    BY <2>1, LoopTasks DEF TasksOnly
  <2>4. \A g \in Gens : ~Monitoring(g)
    BY <2>1 DEF Monitoring, MonitorBoots, MonitorWakes, MonitorReconnects, MonitorRetries,
      MonitorStops, MonitorRaises, MonitorDisconnects, MonitorRestarts, MonitorFailsToRestart
  <2>5. FinishStop
    BY <2>1, <2>2, <2>3, <2>4 DEF Next, MonitorCancelsItself, vars
  <2>6. ~connected' /\ health' = "DISCONNECTED" /\ UNCHANGED <<producer, consumer, monitor>>
    BY <2>5 DEF FinishStop, MarkDisconnected, tasks
  <2>7. \A g \in Gens : ~LiveAt(g)
    BY DEF OnlyHeldLive
  <2> QED BY <2>6, <2>7 DEF AnyLive, LiveAt
<1>2. ShapeOK /\ OnlyHeldLive /\ [Next]_vars => ShapeOK' /\ OnlyHeldLive'
  BY TasksStep
<1> QED BY InitTasks, <1>1, <1>2, PTL DEF Spec, StopIsClean
=============================================================================
