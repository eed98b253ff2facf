------------------------------ MODULE FrameQueue ------------------------------
(***************************************************************************)
(* FrameQueue of ai-engine/camera/queue/frame_queue.py as operators on its *)
(* state. put never waits: a full queue loses a frame first, so the await  *)
(* on asyncio.Queue.put inside it finds room and does not yield. A frame   *)
(* is its frame_number.                                                    *)
(***************************************************************************)
EXTENDS Naturals, Sequences

CONSTANTS
    QueueSize,    \* max_size (MAX_QUEUE_SIZE of the camera settings)
    Policy        \* backpressure_policy: StreamManager keeps the default, DROP_OLDEST

ASSUME QueueSizeIsPositive == QueueSize \in Nat \ {0}
ASSUME PolicyIsKnown == Policy \in {"DROP_OLDEST", "DROP_NEWEST"}

QueueType == [items : Seq(Nat), produced : Nat, consumed : Nat, dropped : Nat, peak : Nat]

NewQueue == [items |-> <<>>, produced |-> 0, consumed |-> 0, dropped |-> 0, peak |-> 0]

IsFull(q) == Len(q.items) = QueueSize

Accepts(q) == ~IsFull(q) \/ Policy = "DROP_OLDEST"

Larger(n, m) == IF n > m THEN n ELSE m

\* The frame taken out to make room is not counted.
PutUncounted(q, frame) ==
    [q EXCEPT !.items = IF ~IsFull(q) THEN Append(@, frame)
                        ELSE IF Accepts(q) THEN Append(Tail(@), frame) ELSE @,
              !.produced = IF Accepts(q) THEN @ + 1 ELSE @,
              !.peak = IF IsFull(q) THEN QueueSize ELSE Larger(@, Len(q.items) + 1)]

\* An overflow is counted and costs one frame: the oldest, or the new one.
Put(q, frame) ==
    [items    |-> IF ~IsFull(q) THEN Append(q.items, frame)
                  ELSE IF Accepts(q) THEN Append(Tail(q.items), frame) ELSE q.items,
     produced |-> IF Accepts(q) THEN q.produced + 1 ELSE q.produced,
     consumed |-> q.consumed,
     dropped  |-> IF IsFull(q) THEN q.dropped + 1 ELSE q.dropped,
     peak     |-> IF IsFull(q) THEN QueueSize ELSE Larger(q.peak, Len(q.items) + 1)]

\* get: the item that waited longest; a timeout changes nothing.
Take(q) ==
    [items |-> Tail(q.items), produced |-> q.produced, consumed |-> q.consumed + 1,
     dropped |-> q.dropped, peak |-> q.peak]

\* Every frame that was put in is waiting, was consumed, or is counted as dropped.
Accounted(q) ==
    q.produced = q.consumed + Len(q.items) + (IF Policy = "DROP_OLDEST" THEN q.dropped ELSE 0)
=============================================================================
