------------------------- MODULE SensorQueueProofs --------------------------
(***************************************************************************)
(* The ring of SensorEventQueue is a FIFO queue, for every capacity.       *)
(***************************************************************************)
EXTENDS SensorEventQueue, TLAPS

\* The states of a queue that holds elements of S.
QueueOf(S) ==
  [mStart : Slots, mSize : 0 .. Capacity, mPendingSize : 0 .. Capacity, mData : [Slots -> S]]

\* The index arithmetic of the class never reduces a sum of more than two capacities,
\* so % wraps at most once.
LEMMA ModWrapsOnce ==
  ASSUME NEW n \in Nat \ {0}, NEW a \in Nat, a < 2 * n
  PROVE  a % n = IF a < n THEN a ELSE a - n
  OBVIOUS

\* Wrapped(start, k) is the slot k places after start.
Wrapped(start, k) == IF start + k < Capacity THEN start + k ELSE start + k - Capacity

\* The slot index the class computes with %.
LEMMA SlotIndex ==
  ASSUME NEW start \in Slots, NEW k \in 0 .. Capacity
  PROVE  (start + k) % Capacity = Wrapped(start, k)
  <1>1. start + k \in Nat /\ start + k < 2 * Capacity
    BY CapacityAssumption DEF Slots
  <1>2. \A a \in Nat : a < 2 * Capacity => a % Capacity = IF a < Capacity THEN a ELSE a - Capacity
    BY CapacityAssumption, ModWrapsOnce
  <1>3. PICK a \in Nat : a = start + k
    BY <1>1
  <1>4. a % Capacity = IF a < Capacity THEN a ELSE a - Capacity
    BY <1>1, <1>2, <1>3
  <1> QED
    BY <1>3, <1>4, CapacityAssumption DEF Slots, Wrapped

\* A region of free slots that starts behind the readable records does not meet them.
LEMMA ReadableSlotNotWritten ==
  ASSUME NEW start \in Slots, NEW size \in 0 .. Capacity, NEW chunk \in Nat,
         size + chunk <= Capacity, Wrapped(start, size) + chunk <= Capacity,
         NEW k \in 0 .. size - 1
  PROVE  /\ Wrapped(start, k) \in Slots
         /\ Wrapped(start, k) \notin Wrapped(start, size) .. Wrapped(start, size) + chunk - 1
  BY CapacityAssumption DEF Slots, Wrapped

\* Its slots follow each other without wrapping.
LEMMA WrittenSlot ==
  ASSUME NEW start \in Slots, NEW size \in 0 .. Capacity, NEW chunk \in Nat,
         size + chunk <= Capacity, Wrapped(start, size) + chunk <= Capacity,
         NEW k \in 0 .. chunk - 1
  PROVE  /\ Wrapped(start, size + k) \in Slots
         /\ Wrapped(start, size + k) = Wrapped(start, size) + k
         /\ Wrapped(start, size + k) \in Wrapped(start, size) .. Wrapped(start, size) + chunk - 1
  BY CapacityAssumption DEF Slots, Wrapped

\* Moving the start by one moves every slot by one.
LEMMA WrappedShift ==
  ASSUME NEW start \in Slots, NEW k \in 0 .. Capacity - 1
  PROVE  Wrapped(Wrapped(start, 1), k) = Wrapped(start, k + 1)
  BY CapacityAssumption DEF Slots, Wrapped

\* getWritableRegion() of a ring that is not full, for a positive request: as its header
\* comment says, the region has at least one and at most requestedLength slots, does not
\* pass the end of the array, and fits beside the readable records.
THEOREM WritableRegionBounds ==
  ASSUME NEW q, q.mStart \in Slots, q.mSize \in 0 .. Capacity, ~Full(q),
         NEW requestedLength \in Nat \ {0}
  PROVE  /\ WritableRegion(q, requestedLength) \in 1 .. requestedLength
         /\ q.mSize + WritableRegion(q, requestedLength) <= Capacity
         /\ FirstWritable(q) \in Slots
         /\ FirstWritable(q) + WritableRegion(q, requestedLength) <= Capacity
  <1>1. FirstWritable(q) = Wrapped(q.mStart, q.mSize)
    BY SlotIndex DEF FirstWritable
  <1>2. QED
    BY <1>1, CapacityAssumption DEF WritableRegion, LastWritable, Full, Slots, Wrapped

\* One pass of the loop of write() appends the first events of the batch to the readable
\* records and leaves the records that were readable alone.
THEOREM WriteChunkAppends ==
  ASSUME NEW S, NEW q \in QueueOf(S), NEW events \in Seq(S),
         ~Full(q), q.mPendingSize = Len(events), q.mPendingSize > 0
  PROVE  LET chunk == WritableRegion(q, q.mPendingSize)
         IN  /\ WriteChunk(q, events) \in QueueOf(S)
             /\ WriteChunk(q, events).mSize = q.mSize + chunk
             /\ WriteChunk(q, events).mPendingSize = q.mPendingSize - chunk
             /\ \A i \in 1 .. q.mSize :
                  Readable(WriteChunk(q, events))[i] = Readable(q)[i]
             /\ \A i \in 1 .. chunk :
                  Readable(WriteChunk(q, events))[q.mSize + i] = events[i]
  <1> DEFINE chunk == WritableRegion(q, q.mPendingSize)
             first == FirstWritable(q)
             r     == WriteChunk(q, events)
  <1>0. /\ q.mStart \in Slots /\ q.mSize \in 0 .. Capacity /\ q.mPendingSize \in 0 .. Capacity
        /\ q.mData \in [Slots -> S] /\ Len(events) \in Nat
    BY DEF QueueOf
  <1>1. /\ chunk \in 1 .. q.mPendingSize /\ q.mSize + chunk <= Capacity
        /\ first \in Slots /\ first + chunk <= Capacity
    BY <1>0, WritableRegionBounds
  <1>2. first = Wrapped(q.mStart, q.mSize)
    BY <1>0, SlotIndex DEF FirstWritable
  <1>3. /\ r.mStart = q.mStart /\ r.mSize = q.mSize + chunk
        /\ r.mPendingSize = q.mPendingSize - chunk
        /\ r.mData = [i \in Slots |-> IF i \in first .. first + chunk - 1
                                        THEN events[i - first + 1] ELSE q.mData[i]]
    BY DEF WriteChunk
  <1>4. r \in QueueOf(S)
    <2>1. \A i \in 1 .. chunk : events[i] \in S
      BY <1>0, <1>1, CapacityAssumption
    <2>2. \A i \in Slots : i \in first .. first + chunk - 1 => i - first + 1 \in 1 .. chunk
      BY <1>1, CapacityAssumption DEF Slots
    <2>3. r.mData \in [Slots -> S]
      BY <1>0, <1>3, <2>1, <2>2
    <2>4. r = [mStart |-> r.mStart, mSize |-> r.mSize, mPendingSize |-> r.mPendingSize,
               mData |-> r.mData]
      BY DEF WriteChunk
    <2>5. r.mStart \in Slots /\ r.mSize \in 0 .. Capacity /\ r.mPendingSize \in 0 .. Capacity
      BY <1>0, <1>1, <1>3, CapacityAssumption
    <2> QED
      BY <2>3, <2>4, <2>5 DEF QueueOf
  <1> HIDE DEF chunk, first, r
  <1>5. ASSUME NEW k \in 0 .. r.mSize - 1
        PROVE  Readable(r)[k + 1] = r.mData[Wrapped(q.mStart, k)]
    <2>1. k \in 0 .. Capacity /\ k + 1 \in 1 .. r.mSize
      BY <1>0, <1>1, <1>3, CapacityAssumption
    <2>2. Readable(r)[k + 1] = r.mData[(q.mStart + (k + 1) - 1) % Capacity]
      BY <1>3, <2>1 DEF Readable
    <2>3. q.mStart + (k + 1) - 1 = q.mStart + k
      BY <1>0, <2>1, CapacityAssumption DEF Slots
    <2> QED
      BY <1>0, <2>1, <2>2, <2>3, SlotIndex
  <1>6. ASSUME NEW k \in 0 .. q.mSize - 1
        PROVE  Readable(r)[k + 1] = Readable(q)[k + 1]
    <2>1. k \in 0 .. Capacity /\ k \in 0 .. r.mSize - 1 /\ k + 1 \in 1 .. q.mSize
      BY <1>0, <1>1, <1>3, CapacityAssumption
    <2>2. Readable(q)[k + 1] = q.mData[(q.mStart + (k + 1) - 1) % Capacity]
      BY <2>1 DEF Readable
    <2>3. q.mStart + (k + 1) - 1 = q.mStart + k
      BY <1>0, <2>1, CapacityAssumption DEF Slots
    <2>4. Readable(q)[k + 1] = q.mData[Wrapped(q.mStart, k)]
      BY <1>0, <2>1, <2>2, <2>3, SlotIndex
    <2>5. /\ Wrapped(q.mStart, k) \in Slots
          /\ Wrapped(q.mStart, k) \notin first .. first + chunk - 1
      BY <1>0, <1>1, <1>2, ReadableSlotNotWritten
    <2> QED
      BY <1>3, <1>5, <2>1, <2>4, <2>5
  <1>7. ASSUME NEW k \in 0 .. chunk - 1
        PROVE  Readable(r)[q.mSize + k + 1] = events[k + 1]
    <2>1. q.mSize + k \in 0 .. r.mSize - 1
      BY <1>0, <1>1, <1>3, CapacityAssumption
    <2>2. /\ Wrapped(q.mStart, q.mSize + k) \in Slots
          /\ Wrapped(q.mStart, q.mSize + k) = first + k
          /\ Wrapped(q.mStart, q.mSize + k) \in first .. first + chunk - 1
      BY <1>0, <1>1, <1>2, WrittenSlot
    <2>3. (first + k) - first + 1 = k + 1
      BY <1>1, CapacityAssumption DEF Slots
    <2>4. Readable(r)[q.mSize + k + 1] = r.mData[first + k]
      BY <1>5, <2>1, <2>2
    <2>5. r.mData[first + k] = events[(first + k) - first + 1]
      BY <1>3, <2>2
    <2> QED
      BY <2>3, <2>4, <2>5
  <1>8. \A i \in 1 .. q.mSize : Readable(r)[i] = Readable(q)[i]
    <2> SUFFICES ASSUME NEW i \in 1 .. q.mSize PROVE Readable(r)[i] = Readable(q)[i]
      OBVIOUS
    <2>1. i - 1 \in 0 .. q.mSize - 1 /\ (i - 1) + 1 = i
      BY <1>0, CapacityAssumption
    <2> QED
      BY <1>6, <2>1
  <1>9. \A i \in 1 .. chunk : Readable(r)[q.mSize + i] = events[i]
    <2> SUFFICES ASSUME NEW i \in 1 .. chunk PROVE Readable(r)[q.mSize + i] = events[i]
      OBVIOUS
    <2>1. i - 1 \in 0 .. chunk - 1 /\ (i - 1) + 1 = i /\ q.mSize + (i - 1) + 1 = q.mSize + i
      BY <1>0, <1>1, CapacityAssumption
    <2> QED
      BY <1>7, <2>1
  <1> QED
    BY <1>3, <1>4, <1>8, <1>9 DEF chunk, r

\* dequeue() removes the oldest readable record, the one peek() returns, and keeps the
\* others in order.
THEOREM DequeueRemovesOldest ==
  ASSUME NEW S, NEW q \in QueueOf(S), q.mSize > 0
  PROVE  /\ Dequeue(q) \in QueueOf(S)
         /\ Dequeue(q).mSize = q.mSize - 1
         /\ Dequeue(q).mPendingSize = q.mPendingSize
         /\ Peek(q) = Readable(q)[1]
         /\ \A i \in 1 .. q.mSize - 1 : Readable(Dequeue(q))[i] = Readable(q)[i + 1]
  <1> DEFINE r == Dequeue(q)
  <1>0. /\ q.mStart \in Slots /\ q.mSize \in 1 .. Capacity /\ q.mPendingSize \in 0 .. Capacity
        /\ q.mData \in [Slots -> S]
    BY CapacityAssumption DEF QueueOf
  <1>1. q = [mStart |-> q.mStart, mSize |-> q.mSize, mPendingSize |-> q.mPendingSize,
             mData |-> q.mData]
    BY DEF QueueOf
  <1>2. /\ r.mStart = (q.mStart + 1) % Capacity /\ r.mSize = q.mSize - 1
        /\ r.mPendingSize = q.mPendingSize /\ r.mData = q.mData
        /\ r = [mStart |-> r.mStart, mSize |-> r.mSize, mPendingSize |-> r.mPendingSize,
                mData |-> r.mData]
    BY <1>0, <1>1 DEF Dequeue
  <1> HIDE DEF r
  <1>3. r.mStart = Wrapped(q.mStart, 1)
    BY <1>0, <1>2, SlotIndex, CapacityAssumption
  <1>4. r.mStart \in Slots /\ r.mSize \in 0 .. Capacity
    BY <1>0, <1>2, <1>3, CapacityAssumption DEF Slots, Wrapped
  <1>5. r \in QueueOf(S)
    BY <1>0, <1>2, <1>4 DEF QueueOf
  <1>6. ASSUME NEW k \in 0 .. q.mSize - 1
        PROVE  Readable(q)[k + 1] = q.mData[Wrapped(q.mStart, k)]
    <2>1. k \in 0 .. Capacity /\ k + 1 \in 1 .. q.mSize
      BY <1>0, CapacityAssumption
    <2>2. Readable(q)[k + 1] = q.mData[(q.mStart + (k + 1) - 1) % Capacity]
      BY <2>1 DEF Readable
    <2>3. q.mStart + (k + 1) - 1 = q.mStart + k
      BY <1>0, <2>1, CapacityAssumption DEF Slots
    <2> QED
      BY <1>0, <2>1, <2>2, <2>3, SlotIndex
  <1>7. Peek(q) = Readable(q)[1]
    <2>1. Wrapped(q.mStart, 0) = q.mStart
      BY <1>0, CapacityAssumption DEF Wrapped, Slots
    <2>2. 0 \in 0 .. q.mSize - 1 /\ 0 + 1 = 1
      BY <1>0, CapacityAssumption
    <2> QED
      BY <1>6, <2>1, <2>2 DEF Peek
  <1>8. ASSUME NEW i \in 1 .. q.mSize - 1
        PROVE  Readable(r)[i] = Readable(q)[i + 1]
    <2>1. /\ i \in 0 .. q.mSize - 1 /\ i - 1 \in 0 .. Capacity - 1 /\ i - 1 \in 0 .. Capacity
          /\ (i - 1) + 1 = i /\ i \in 1 .. r.mSize
      BY <1>0, <1>2, CapacityAssumption
    <2>2. Readable(q)[i + 1] = q.mData[Wrapped(q.mStart, i)]
      BY <1>6, <2>1
    <2>3. Readable(r)[i] = q.mData[(r.mStart + i - 1) % Capacity]
      BY <1>2, <2>1 DEF Readable
    <2>4. r.mStart + i - 1 = r.mStart + (i - 1)
      BY <1>4, <2>1 DEF Slots
    <2>5. (r.mStart + (i - 1)) % Capacity = Wrapped(r.mStart, i - 1)
      BY <1>4, <2>1, SlotIndex
    <2>6. Wrapped(r.mStart, i - 1) = Wrapped(q.mStart, i)
      BY <1>0, <1>3, <2>1, WrappedShift
    <2> QED
      BY <2>2, <2>3, <2>4, <2>5, <2>6
  <1> QED
    BY <1>2, <1>5, <1>7, <1>8 DEF r
=============================================================================
