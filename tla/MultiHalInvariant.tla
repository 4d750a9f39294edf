------------------------- MODULE MultiHalInvariant --------------------------
(***************************************************************************)
(* The inductive invariant of MultiHal, and what the operators of the model *)
(* do to the parts of it.                                                  *)
(***************************************************************************)
EXTENDS MultiHal, SensorQueueProofs, SequenceTheorems, WellFoundedInduction

-----------------------------------------------------------------------------
(* The inductive invariant *)

\* queue_mutex names the thread that is inside a critical section.
MutexHeld ==
  /\ \A m \in Modules : queue_mutex = m <=> writer[m] = "write"
  /\ queue_mutex = Poller <=> poller \in {"scan", "tail"}

\* A writer at point w with b left in its buffer, its ring q, the number of events read
\* from it and the number of events polled.
ThreadOK(w, b, q, read, reported) ==
  /\ IF w \in {"write", "waitWrite", "rewrite"} THEN q.mPendingSize = Len(b)
                                                ELSE q.mPendingSize = 0
  /\ w \in {"top", "waitTop", "poll"} => Len(b) = 0
  /\ Len(b) <= Capacity
  /\ w \in {"waitTop", "waitWrite"} => Full(q)
  /\ \A i \in 1 .. q.mSize : Readable(q)[i] \in Event /\ Readable(q)[i].n = read + i
  /\ \A i \in 1 .. Len(b) : b[i].n = read + q.mSize + i
  /\ reported = read + q.mSize + Len(b)

Threads ==
  \A m \in Modules :
    ThreadOK(writer[m], buffer[m], queues[m], consumed_events[m], polled[m])

\* How many turns ago poll() looked at ring m when it is about to look at ring next.
Distance(m, next) == IF m < next THEN next - m ELSE next - m + NumModules

\* The rings poll() has found empty since it last read an event are still empty.
PollOK ==
  /\ poller # "idle" => maxReads >= 1
  /\ poller \in {"scan", "tail"} =>
       \A m \in Modules : Distance(m, nextReadIndex) <= empties => queues[m].mSize = 0
  /\ poller = "tail" /\ data = <<>> => empties = NumModules
  /\ poller = "wait" => NoneReady /\ \A m \in Modules : queues[m].mSize = 0

\* Ring m was passed over no more often than poll() has had turns since.
Turns ==
  \A m \in Modules :
    /\ passed[m] < Distance(m, nextReadIndex)
    /\ queues[m].mSize = 0 => passed[m] = 0

IInv ==
  TypeOK /\ MutexHeld /\ Threads /\ FlushNotOvertaken /\ PollOK /\ Turns

-----------------------------------------------------------------------------
(* Lemmas about the operators *)

\* Every non-empty set of numbers up to n has a largest one.
LEMMA LargestExists ==
  ASSUME NEW n \in Nat, NEW S, S \subseteq 1 .. n, S # {}
  PROVE  \E h \in S : \A g \in S : g <= h
  <1> DEFINE T == {n - h : h \in S}
  <1>0. PICK e \in S : e \in 1 .. n
    OBVIOUS
  <1>1. T \subseteq Nat /\ T # {}
    <2>1. n - e \in T
      BY <1>0
    <2>2. \A h \in S : n - h \in Nat
      OBVIOUS
    <2> QED
      BY <2>1, <2>2
  <1>2. PICK x \in T : \A y \in T : ~ (<<y, x>> \in OpToRel(<, Nat))
    BY <1>1, NatLessThanWellFounded, WFMin, Zenon
  <1>3. PICK h \in S : x = n - h
    OBVIOUS
  <1>4. ASSUME NEW g \in S PROVE g <= h
    <2>1. ~ (<<n - g, x>> \in OpToRel(<, Nat))
      BY <1>2
    <2>2. ~ (n - g < x)
      BY <2>1, <1>1 DEF OpToRel
    <2> QED
      BY <1>3, <2>2
  <1> QED
    BY <1>4

\* get_global_handle() returns a handle of the list or -1.
LEMMA GlobalHandleType ==
  ASSUME NEW m, NEW local
  PROVE  get_global_handle(m, local) \in Handles \cup {UnknownHandle}
  <1>1. Handles = 1 .. Len(SensorList) /\ Len(SensorList) \in Nat
    BY MultiHalAssumption DEF Handles
  <1>2. CASE GlobalHandles(m, local) = {}
    BY <1>2 DEF get_global_handle
  <1>3. CASE GlobalHandles(m, local) # {}
    <2>1. GlobalHandles(m, local) \subseteq 1 .. Len(SensorList)
      BY <1>1 DEF GlobalHandles
    <2>2. \E h \in GlobalHandles(m, local) : \A g \in GlobalHandles(m, local) : g <= h
      BY <1>1, <1>3, <2>1, LargestExists
    <2> QED
      BY <1>1, <1>3, <2>1, <2>2 DEF get_global_handle
  <1> QED
    BY <1>2, <1>3

\* The sensor list maps every handle to one of the sub-HALs.
LEMMA ModuleOfHandle ==
  ASSUME NEW h \in Handles
  PROVE  get_module_index(h) \in Modules
  <1>1. h \in 1 .. Len(SensorList)
    BY MultiHalAssumption DEF Handles
  <1>2. SensorList[h] \in [module : Modules, local : Int, oneShot : BOOLEAN]
    BY <1>1, MultiHalAssumption, ElementOfSeq
  <1> QED
    BY <1>2 DEF get_module_index

\* A ring of MultiHal is a ring of SensorQueueProofs.
LEMMA QueueIsQueueOf == Queue = QueueOf(Event \cup {NoEvent})
  BY DEF Queue, QueueOf

\* The index and the element of a sequence such as pending_flushes have their types.
LEMMA SeqDomain ==
  ASSUME NEW S, NEW s \in Seq(S), NEW i \in DOMAIN s
  PROVE  i \in 1 .. Len(s) /\ s[i] \in S
  BY LenProperties, ElementOfSeq

\* Erasing an element of pending_flushes keeps the others in order.
LEMMA RemoveAtProperties ==
  ASSUME NEW S, NEW s \in Seq(S), NEW i \in 1 .. Len(s)
  PROVE  /\ RemoveAt(s, i) \in Seq(S)
         /\ Len(RemoveAt(s, i)) = Len(s) - 1
         /\ \A j \in 1 .. Len(s) - 1 : RemoveAt(s, i)[j] = IF j < i THEN s[j] ELSE s[j + 1]
  <1> DEFINE a == SubSeq(s, 1, i - 1)
             b == SubSeq(s, i + 1, Len(s))
  <1>1. a \in Seq(S) /\ Len(a) = i - 1 /\ \A j \in 1 .. i - 1 : a[j] = s[j]
    OBVIOUS
  <1>2. /\ b \in Seq(S) /\ Len(b) = Len(s) - i
        /\ \A j \in 1 .. Len(s) - i : b[j] = s[i + j]
    OBVIOUS
  <1> HIDE DEF a, b
  <1>3. /\ a \o b \in Seq(S) /\ Len(a \o b) = Len(a) + Len(b)
        /\ \A j \in 1 .. Len(a) + Len(b) :
             (a \o b)[j] = IF j <= Len(a) THEN a[j] ELSE b[j - Len(a)]
    BY <1>1, <1>2, ConcatProperties
  <1>4. RemoveAt(s, i) = a \o b
    BY DEF RemoveAt, a, b
  <1>5. ASSUME NEW j \in 1 .. Len(s) - 1
        PROVE  (a \o b)[j] = IF j < i THEN s[j] ELSE s[j + 1]
    <2>1. CASE j < i
      BY <1>1, <1>2, <1>3, <2>1
    <2>2. CASE ~(j < i)
      <3>1. j - (i - 1) \in 1 .. Len(s) - i /\ i + (j - (i - 1)) = j + 1
        BY <2>2
      <3>2. j \in 1 .. Len(a) + Len(b) /\ ~(j <= Len(a)) /\ Len(a) = i - 1
        BY <1>1, <1>2, <2>2
      <3>3. (a \o b)[j] = b[j - (i - 1)]
        BY <1>3, <3>2
      <3>4. b[j - (i - 1)] = s[j + 1]
        BY <1>2, <3>1
      <3> QED
        BY <2>2, <3>3, <3>4
    <2> QED
      BY <2>1, <2>2
  <1>6. Len(a \o b) = Len(s) - 1
    BY <1>1, <1>2, <1>3
  <1> QED
    BY <1>3, <1>4, <1>5, <1>6

\* A turn of poll() makes every ring one turn older and the one it looked at the newest.
LEMMA DistanceStep ==
  ASSUME NEW m \in Modules, NEW next \in Modules
  PROVE  /\ (next + 1) % NumModules \in Modules
         /\ Distance(m, next) \in 1 .. NumModules
         /\ Distance(m, (next + 1) % NumModules) = IF m = next THEN 1 ELSE Distance(m, next) + 1
  <1>1. (next + 1) % NumModules = IF next + 1 < NumModules THEN next + 1 ELSE 0
    <2>1. PICK a \in Nat : a = next + 1 /\ a <= NumModules
      BY MultiHalAssumption DEF Modules
    <2>2. NumModules \in Nat \ {0} /\ a < 2 * NumModules
      BY <2>1, MultiHalAssumption
    <2>3. a % NumModules = IF a < NumModules THEN a ELSE a - NumModules
      BY <2>2, ModWrapsOnce
    <2> QED
      BY <2>1, <2>2, <2>3
  <1>2. NumModules \in Nat \ {0} /\ m \in 0 .. NumModules - 1 /\ next \in 0 .. NumModules - 1
    BY MultiHalAssumption DEF Modules
  <1>3. PICK w : w = (next + 1) % NumModules
    OBVIOUS
  <1>4. w = IF next + 1 < NumModules THEN next + 1 ELSE 0
    BY <1>1, <1>3
  <1>5. /\ w \in 0 .. NumModules - 1
        /\ Distance(m, next) \in 1 .. NumModules
        /\ Distance(m, w) = IF m = next THEN 1 ELSE Distance(m, next) + 1
    BY <1>2, <1>4 DEF Distance
  <1> QED
    BY <1>3, <1>5 DEF Modules

-----------------------------------------------------------------------------
(* What the steps of a writer and of poll() do to the relation between a thread, its *)
(* buffer and its ring                                                                *)

\* One pass of the loop of write().
LEMMA ThreadAfterWriteChunk ==
  ASSUME NEW b \in Seq(Event), NEW q \in Queue, NEW read \in Nat, NEW reported \in Nat,
         ThreadOK("write", b, q, read, reported), q.mPendingSize > 0, ~Full(q)
  PROVE  LET chunk == WritableRegion(q, q.mPendingSize)
             rest  == SubSeq(b, chunk + 1, Len(b))
         IN  /\ WriteChunk(q, b) \in Queue
             /\ WriteChunk(q, b).mSize > 0
             /\ rest \in Seq(Event)
             /\ ThreadOK("write", rest, WriteChunk(q, b), read, reported)
  <1> DEFINE chunk == WritableRegion(q, q.mPendingSize)
             rest  == SubSeq(b, chunk + 1, Len(b))
             r     == WriteChunk(q, b)
  <1>1. b \in Seq(Event \cup {NoEvent}) /\ q \in QueueOf(Event \cup {NoEvent})
    BY SeqMonotonic, QueueIsQueueOf
  <1>2. q.mPendingSize = Len(b)
    BY DEF ThreadOK
  <1>3. /\ r \in QueueOf(Event \cup {NoEvent})
        /\ r.mSize = q.mSize + chunk
        /\ r.mPendingSize = q.mPendingSize - chunk
        /\ \A i \in 1 .. q.mSize : Readable(r)[i] = Readable(q)[i]
        /\ \A i \in 1 .. chunk : Readable(r)[q.mSize + i] = b[i]
    BY <1>1, <1>2, WriteChunkAppends
  <1>4. chunk \in 1 .. Len(b) /\ q.mSize \in Nat /\ Len(b) \in Nat
    <2>1. q.mStart \in Slots /\ q.mSize \in 0 .. Capacity /\ Len(b) \in Nat \ {0}
      BY <1>2 DEF Queue
    <2> QED
      BY <1>2, <2>1, WritableRegionBounds, CapacityAssumption
  <1> HIDE DEF chunk, r
  <1>5. /\ rest \in Seq(Event) /\ Len(rest) = Len(b) - chunk
        /\ \A i \in 1 .. Len(b) - chunk : rest[i] = b[chunk + i]
    BY <1>4
  <1> HIDE DEF rest
  <1>6. ASSUME NEW i \in 1 .. r.mSize
        PROVE  Readable(r)[i] \in Event /\ Readable(r)[i].n = read + i
    <2>1. CASE i <= q.mSize
      <3>1. i \in 1 .. q.mSize
        BY <1>3, <1>4, <2>1
      <3>2. Readable(q)[i] \in Event /\ Readable(q)[i].n = read + i
        BY <3>1 DEF ThreadOK
      <3> QED
        BY <1>3, <3>1, <3>2
    <2>2. CASE i > q.mSize
      <3>1. i - q.mSize \in 1 .. chunk /\ i - q.mSize \in 1 .. Len(b) /\ q.mSize + (i - q.mSize) = i
        BY <1>3, <1>4, <2>2
      <3>2. Readable(r)[i] = b[i - q.mSize]
        BY <1>3, <3>1
      <3>3. b[i - q.mSize].n = read + q.mSize + (i - q.mSize)
        BY <3>1 DEF ThreadOK
      <3>4. read + q.mSize + (i - q.mSize) = read + i
        BY <1>4
      <3> QED
        BY <3>1, <3>2, <3>3, <3>4, ElementOfSeq
    <2> QED
      BY <1>3, <1>4, <2>1, <2>2
  <1>7. ASSUME NEW i \in 1 .. Len(rest)
        PROVE  rest[i].n = read + r.mSize + i
    <2>1. chunk + i \in 1 .. Len(b) /\ i \in 1 .. Len(b) - chunk
      BY <1>4, <1>5
    <2>2. b[chunk + i].n = read + q.mSize + (chunk + i)
      BY <2>1 DEF ThreadOK
    <2> QED
      BY <1>3, <1>4, <1>5, <2>1, <2>2
  <1>8. reported = read + r.mSize + Len(rest)
    <2>1. reported = read + q.mSize + Len(b)
      BY DEF ThreadOK
    <2> QED
      BY <1>3, <1>4, <1>5, <2>1
  <1>9. r.mPendingSize = Len(rest) /\ r.mSize > 0 /\ Len(rest) <= Capacity
    <2>1. Len(b) <= Capacity
      BY DEF ThreadOK
    <2> QED
      BY <1>2, <1>3, <1>4, <1>5, <2>1, CapacityAssumption
  <1>10. ThreadOK("write", rest, r, read, reported)
    BY <1>6, <1>7, <1>8, <1>9 DEF ThreadOK
  <1> QED
    BY <1>3, <1>5, <1>9, <1>10, QueueIsQueueOf DEF r, rest, chunk

\* dequeue() by poll(), with the broadcast that wakes the writer of a full ring.
LEMMA ThreadAfterDequeue ==
  ASSUME NEW w, NEW b \in Seq(Event), NEW q \in Queue, NEW read \in Nat, NEW reported \in Nat,
         ThreadOK(w, b, q, read, reported), q.mSize > 0, w # "write"
  PROVE  /\ Dequeue(q) \in Queue
         /\ Peek(q) \in Event
         /\ ThreadOK(IF DequeueSignals(q) THEN Spaced(w) ELSE w, b, Dequeue(q), read + 1, reported)
  <1> DEFINE r == Dequeue(q)
             v == IF DequeueSignals(q) THEN Spaced(w) ELSE w
  <1>0. q \in QueueOf(Event \cup {NoEvent})
    BY QueueIsQueueOf
  <1>1. q.mSize \in 1 .. Capacity
    BY <1>0, CapacityAssumption DEF QueueOf
  <1>2. /\ r \in QueueOf(Event \cup {NoEvent})
        /\ r.mSize = q.mSize - 1
        /\ r.mPendingSize = q.mPendingSize
        /\ Peek(q) = Readable(q)[1]
        /\ \A i \in 1 .. q.mSize - 1 : Readable(r)[i] = Readable(q)[i + 1]
    BY <1>0, DequeueRemovesOldest
  <1> HIDE DEF r
  <1>3. Peek(q) \in Event
    <2>1. 1 \in 1 .. q.mSize
      BY <1>1
    <2> QED
      BY <1>2, <2>1 DEF ThreadOK
  <1>4. ASSUME NEW i \in 1 .. r.mSize
        PROVE  Readable(r)[i] \in Event /\ Readable(r)[i].n = read + 1 + i
    <2>1. i + 1 \in 1 .. q.mSize /\ i \in 1 .. q.mSize - 1 /\ read + (i + 1) = read + 1 + i
      BY <1>1, <1>2
    <2>2. Readable(q)[i + 1] \in Event /\ Readable(q)[i + 1].n = read + (i + 1)
      BY <2>1 DEF ThreadOK
    <2> QED
      BY <1>2, <2>1, <2>2
  <1>5. /\ read + 1 + r.mSize = read + q.mSize
        /\ \A i \in 1 .. Len(b) : b[i].n = read + q.mSize + i
        /\ reported = read + q.mSize + Len(b)
    BY <1>1, <1>2 DEF ThreadOK
  <1>6. v \notin {"waitTop", "waitWrite"}
    BY <1>1 DEF DequeueSignals, ThreadOK, Spaced
  <1>7. /\ IF v \in {"write", "waitWrite", "rewrite"} THEN q.mPendingSize = Len(b)
                                                       ELSE q.mPendingSize = 0
        /\ v \in {"top", "waitTop", "poll"} => Len(b) = 0
        /\ Len(b) <= Capacity
    BY DEF ThreadOK, Spaced
  <1> HIDE DEF v
  <1>8. ThreadOK(v, b, r, read + 1, reported)
    BY <1>2, <1>4, <1>5, <1>6, <1>7 DEF ThreadOK
  <1> QED
    BY <1>2, <1>3, <1>8, QueueIsQueueOf DEF r, v
=============================================================================
