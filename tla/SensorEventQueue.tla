-------------------------- MODULE SensorEventQueue --------------------------
(***************************************************************************)
(* The fixed-size circular queue between one sub-HAL writer thread and the *)
(* multihal poll() (sensors/SensorEventQueue.{h,cpp}).                     *)
(*                                                                         *)
(* A queue is a record with the fields of the C++ class; every member      *)
(* function is an operator on it.  The callers hold queue_mutex, so each   *)
(* call is atomic except write(), which MultiHal splits where              *)
(* waitForSpace() releases the mutex.                                      *)
(***************************************************************************)
EXTENDS Integers, Sequences

CONSTANTS
  Capacity,   \* SENSOR_EVENT_QUEUE_CAPACITY, 20 in the build
  NoEvent     \* what an element of a fresh array holds

ASSUME CapacityAssumption == Capacity \in Nat \ {0}

Slots == 0 .. Capacity - 1

\* The constructor.
NewQueue ==
  [mStart |-> 0, mSize |-> 0, mPendingSize |-> 0, mData |-> [i \in Slots |-> NoEvent]]

Full(q) == q.mSize = Capacity

FirstWritable(q) == (q.mStart + q.mSize) % Capacity

\* Without the clamp to the end of the array the region runs past it.
LastWritableUnclamped(q, requestedLength) ==
  LET last == FirstWritable(q) + requestedLength - 1
  IN  IF FirstWritable(q) < q.mStart /\ last >= q.mStart THEN q.mStart - 1 ELSE last

\* Without the clamp to the readable region the oldest events are overwritten.
LastWritableOverwriting(q, requestedLength) ==
  LET last == FirstWritable(q) + requestedLength - 1
  IN  IF last > Capacity - 1 THEN Capacity - 1 ELSE last

LastWritable(q, requestedLength) ==
  LET last    == FirstWritable(q) + requestedLength - 1
      clamped == IF last > Capacity - 1 THEN Capacity - 1 ELSE last
  IN  IF FirstWritable(q) < q.mStart /\ clamped >= q.mStart THEN q.mStart - 1 ELSE clamped

\* The length getWritableRegion() returns; the region starts at FirstWritable(q).
WritableRegion(q, requestedLength) ==
  IF Full(q) \/ requestedLength <= 0
    THEN 0
    ELSE LastWritable(q, requestedLength) - FirstWritable(q) + 1

\* One pass of the loop of write(): getWritableRegion(), memcpy(), markAsWritten()
\* and the update of mPendingSize.  events is what is left of the batch.
WriteChunk(q, events) ==
  LET chunk == WritableRegion(q, q.mPendingSize)
      first == FirstWritable(q)
  IN  [mStart       |-> q.mStart,
       mSize        |-> q.mSize + chunk,
       mPendingSize |-> q.mPendingSize - chunk,
       mData        |-> [i \in Slots |-> IF i \in first .. first + chunk - 1
                                           THEN events[i - first + 1]
                                           ELSE q.mData[i]]]

\* Readable records, and polled ones write() has not copied yet.
PendingSizeReadableOnly(q) == q.mSize
PendingSize(q) == q.mSize + q.mPendingSize

\* peek() of a queue that is not empty.
Peek(q) == q.mData[q.mStart]

DequeueNoWrap(q) ==
  IF q.mSize = 0 THEN q
  ELSE [q EXCEPT !.mSize = @ - 1, !.mStart = IF @ = Capacity - 1 THEN @ ELSE @ + 1]

Dequeue(q) ==
  IF q.mSize = 0 THEN q
  ELSE [mStart |-> (q.mStart + 1) % Capacity, mSize |-> q.mSize - 1,
        mPendingSize |-> q.mPendingSize, mData |-> q.mData]

\* Whether dequeue() broadcasts mSpaceAvailableCondition.
DequeueSignalsWhenEmptied(q) == q.mSize = 1
DequeueSignals(q) == q.mSize # 0 /\ Full(q)

\* The readable records, oldest first: what the ring stands for.
Readable(q) == [i \in 1 .. q.mSize |-> q.mData[(q.mStart + i - 1) % Capacity]]
=============================================================================
