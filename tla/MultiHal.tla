------------------------------ MODULE MultiHal ------------------------------
(***************************************************************************)
(* The sensor multihal of sensors/multihal.cpp after open_sensors(): one   *)
(* writerTask() thread per sub-HAL fills that sub-HAL's SensorEventQueue,  *)
(* one framework thread calls poll(), and others call activate() and       *)
(* flush().  All share queue_mutex.                                        *)
(*                                                                         *)
(* A critical section that can be left in the middle by a condition wait   *)
(* is split at the waits and at the iterations of its loops; while it runs *)
(* queue_mutex names its thread and nobody else can enter.  A critical     *)
(* section without a wait or loop is one action that requires the mutex to *)
(* be free.                                                                *)
(***************************************************************************)
EXTENDS SensorEventQueue, SensorHandles, SequencesExt

CONSTANTS
  NumModules,   \* sub_hw_devices.size(): the number of sub-HALs
  MaxReads,     \* largest count a client passes to poll()
  EventKinds,   \* what a sub-HAL may report: records [meta, local]
  MaxEvents,    \* bound: events each sub-HAL reports
  MaxFlushes,   \* bound: flush() calls that are accepted
  MaxActivations, \* bound: activate() calls
  Poller,       \* the framework thread in poll()
  Nobody        \* queue_mutex is free; no activate() is in progress

Modules == 0 .. NumModules - 1

ASSUME MultiHalAssumption ==
  /\ NumModules \in Nat \ {0}
  /\ MaxReads \in Nat \ {0}
  /\ MaxEvents \in Nat /\ MaxFlushes \in Nat /\ MaxActivations \in Nat
  /\ Poller \notin Modules /\ Nobody \notin Modules /\ Poller # Nobody
  /\ SensorList \in Seq([module : Modules, local : Int, oneShot : BOOLEAN])
  /\ EventKinds \subseteq [meta : BOOLEAN, local : Int]

VARIABLES
  \* shared, protected by queue_mutex
  queues, consumed_events, pending_flushes, active_sensors, nextReadIndex,
  queue_mutex,
  \* writerTask() of each sub-HAL: program point, and the events of its private
  \* buffer that write() has not copied to the ring
  writer, buffer,
  \* poll(): program point, its argument, its locals, the client's array so far
  poller, maxReads, empties, data,
  \* activate() between the sub-HAL's answer and the update of active_sensors
  activating,
  \* history: events each sub-HAL has reported, flush() and activate() calls so far, and
  \* reads of other queues since queue m had its turn
  polled, flushes, activations, passed

writerVars == <<writer, buffer, polled>>
pollVars   == <<poller, maxReads, empties, data, nextReadIndex, consumed_events, passed>>
callVars   == <<active_sensors, activating, flushes, activations>>
vars == <<queues, pending_flushes, queue_mutex, writerVars, pollVars, callVars>>

Init ==
  /\ queues = [m \in Modules |-> NewQueue]
  /\ consumed_events = [m \in Modules |-> 0]
  /\ pending_flushes = <<>>
  /\ active_sensors = [h \in Handles |-> FALSE]
  /\ nextReadIndex = 0
  /\ queue_mutex = Nobody
  /\ writer = [m \in Modules |-> "top"]
  /\ buffer = [m \in Modules |-> <<>>]
  /\ poller = "idle" /\ maxReads = 0 /\ empties = 0 /\ data = <<>>
  /\ activating = Nobody
  /\ polled = [m \in Modules |-> 0]
  /\ flushes = 0 /\ activations = 0
  /\ passed = [m \in Modules |-> 0]

PokedNever(p) == p

\* pthread_cond_broadcast(&data_available_cond): the poll() waiting on it goes on to
\* take the mutex again.
Poked(p) == IF p = "wait" THEN "woken" ELSE p

\* pthread_cond_broadcast(&mSpaceAvailableCondition): writerTask() waits on it in its
\* first waitForSpace() ("waitTop") or in the one of write() ("waitWrite").
Spaced(w) == CASE w = "waitTop" -> "top" [] w = "waitWrite" -> "rewrite" [] OTHER -> w

-----------------------------------------------------------------------------
(* writerTask(m) *)

\* Take the mutex, waitForSpace(), release the mutex (also by waiting).
WaitForSpace(m) ==
  /\ writer[m] = "top" /\ queue_mutex = Nobody
  /\ writer' = [writer EXCEPT ![m] = IF Full(queues[m]) THEN "waitTop" ELSE "poll"]
  /\ UNCHANGED <<queues, pending_flushes, queue_mutex, buffer, polled, pollVars, callVars>>

\* device->poll() returns n events.
SubHalPoll(m) ==
  /\ writer[m] = "poll"
  /\ \E n \in 1 .. Capacity :
       /\ polled[m] + n <= MaxEvents
       /\ \E kinds \in [1 .. n -> EventKinds] :
            buffer' = [buffer EXCEPT ![m] =
              [i \in 1 .. n |-> [n     |-> polled[m] + i,
                                 meta  |-> kinds[i].meta,
                                 local |-> kinds[i].local]]]
       /\ polled' = [polled EXCEPT ![m] = @ + n]
  /\ writer' = [writer EXCEPT ![m] = "lock"]
  /\ UNCHANGED <<queues, pending_flushes, queue_mutex, pollVars, callVars>>

\* device->poll() returns nothing, an error or more events than the buffer holds.
SubHalPollFails(m) ==
  /\ writer[m] = "poll"
  /\ writer' = [writer EXCEPT ![m] = "top"]
  /\ UNCHANGED <<queues, pending_flushes, queue_mutex, buffer, polled, pollVars, callVars>>

\* Take the mutex and enter write(), which announces the whole batch.
StartWrite(m) ==
  /\ writer[m] = "lock" /\ queue_mutex = Nobody
  /\ queue_mutex' = m
  /\ queues' = [queues EXCEPT ![m].mPendingSize = Len(buffer[m])]
  /\ writer' = [writer EXCEPT ![m] = "write"]
  /\ UNCHANGED <<pending_flushes, buffer, polled, pollVars, callVars>>

\* A pass of the loop of write() that finds space.
WriteSome(m) ==
  /\ writer[m] = "write" /\ queues[m].mPendingSize > 0 /\ ~Full(queues[m])
  /\ LET chunk == WritableRegion(queues[m], queues[m].mPendingSize)
     IN  buffer' = [buffer EXCEPT ![m] = SubSeq(@, chunk + 1, Len(@))]
  /\ queues' = [queues EXCEPT ![m] = WriteChunk(@, buffer[m])]
  /\ poller' = Poked(poller)
  /\ UNCHANGED <<pending_flushes, queue_mutex, writer, polled, callVars,
                 maxReads, empties, data, nextReadIndex, consumed_events, passed>>

\* A pass that waits for space, with the mutex released.
WriteWaits(m) ==
  /\ writer[m] = "write" /\ queues[m].mPendingSize > 0 /\ Full(queues[m])
  /\ writer' = [writer EXCEPT ![m] = "waitWrite"]
  /\ queue_mutex' = Nobody
  /\ UNCHANGED <<queues, pending_flushes, buffer, polled, pollVars, callVars>>

\* The wait in write() returns with the mutex.
WriteResumes(m) ==
  /\ writer[m] = "rewrite" /\ queue_mutex = Nobody
  /\ writer' = [writer EXCEPT ![m] = "write"]
  /\ queue_mutex' = m
  /\ UNCHANGED <<queues, pending_flushes, buffer, polled, pollVars, callVars>>

WriteReturns(m) ==
  /\ writer[m] = "write" /\ queues[m].mPendingSize = 0
  /\ writer' = [writer EXCEPT ![m] = "top"]
  /\ queue_mutex' = Nobody
  /\ UNCHANGED <<queues, pending_flushes, buffer, polled, pollVars, callVars>>

\* pthread_cond_wait() may return without a broadcast.
SpuriousWakeup(m) ==
  /\ Spaced(writer[m]) # writer[m]
  /\ writer' = [writer EXCEPT ![m] = Spaced(@)]
  /\ UNCHANGED <<queues, pending_flushes, queue_mutex, buffer, polled, pollVars, callVars>>

-----------------------------------------------------------------------------
(* poll() *)

PollCall ==
  /\ poller = "idle" /\ queue_mutex = Nobody
  /\ poller' = "scan" /\ queue_mutex' = Poller
  /\ maxReads' \in 1 .. MaxReads
  /\ empties' = 0
  /\ UNCHANGED <<queues, pending_flushes, writerVars, callVars,
                 data, nextReadIndex, consumed_events, passed>>

\* emit_ready_flushes() completes a flush once the events ahead of it are consumed.
IsReadyEarly(f) == consumed_events[f.module_index] + 1 >= f.after_event
IsReady(f) == consumed_events[f.module_index] >= f.after_event

\* The inner loop condition of poll().
Scanning == poller = "scan" /\ empties < NumModules /\ Len(data) < maxReads

\* emit_ready_flushes() completes the first ready flush, if the array has room for it.
EmitFirst ==
  \E i \in DOMAIN pending_flushes :
    /\ IsReady(pending_flushes[i])
    /\ \A j \in 1 .. i - 1 : ~IsReady(pending_flushes[j])
    /\ data' = Append(data, FlushComplete(pending_flushes[i].handle))
    /\ pending_flushes' = RemoveAt(pending_flushes, i)

\* emit_ready_flushes(), before each read and after the inner loop.
EmitReadyFlush ==
  /\ Scanning \/ (poller = "tail" /\ Len(data) < maxReads)
  /\ EmitFirst
  /\ UNCHANGED <<queues, queue_mutex, writerVars, callVars,
                 poller, maxReads, empties, nextReadIndex, consumed_events, passed>>

NoneReady == \A i \in DOMAIN pending_flushes : ~IsReady(pending_flushes[i])

NextIndexStuck == IF Readable(queues[nextReadIndex]) = <<>>
                    THEN (nextReadIndex + 1) % NumModules ELSE nextReadIndex
NextIndex == (nextReadIndex + 1) % NumModules

\* An iteration that finds the queue empty.
SkipEmpty ==
  /\ Scanning /\ NoneReady
  /\ queues[nextReadIndex].mSize = 0
  /\ empties' = empties + 1
  /\ nextReadIndex' = NextIndex
  /\ UNCHANGED <<queues, pending_flushes, queue_mutex, writerVars, callVars,
                 poller, maxReads, data, consumed_events, passed>>

\* The event at the head of the queue goes to the client or is dropped; a one-shot
\* sensor that reports is no longer active.
Forward(event) ==
  IF IsDropped(event)
    THEN UNCHANGED <<data, active_sensors>>
    ELSE /\ data' = Append(data, event)
         /\ active_sensors' = [h \in Handles |->
              active_sensors[h] /\ ~(~event.meta /\ h = event.handle /\ IsOneShot(h))]

\* Reading ahead of a flush that is ready: the order of the loop body reversed.
ReadGuardLate == Scanning
ReadGuard == Scanning /\ NoneReady

\* An iteration that consumes an event.
ReadEvent ==
  /\ ReadGuard
  /\ LET m == nextReadIndex IN
     /\ queues[m].mSize > 0
     /\ Forward(copy_event_remap_handle(m, Peek(queues[m])))
     /\ queues' = [queues EXCEPT ![m] = Dequeue(@)]
     /\ writer' = IF DequeueSignals(queues[m])
                    THEN [writer EXCEPT ![m] = Spaced(@)]
                    ELSE writer
     /\ consumed_events' = [consumed_events EXCEPT ![m] = @ + 1]
     /\ passed' = [k \in Modules |->
                     IF k # m /\ queues[k].mSize > 0 THEN passed[k] + 1 ELSE 0]
  /\ empties' = 0
  /\ nextReadIndex' = NextIndex
  /\ UNCHANGED <<pending_flushes, queue_mutex, buffer, polled, activating, flushes, activations,
                 poller, maxReads>>

ScanEnds ==
  /\ poller = "scan" /\ ~Scanning
  /\ poller' = "tail"
  /\ UNCHANGED <<queues, pending_flushes, queue_mutex, writerVars, callVars,
                 maxReads, empties, data, nextReadIndex, consumed_events, passed>>

PollReturns ==
  /\ poller = "tail" /\ data # <<>>
  /\ Len(data) = maxReads \/ NoneReady
  /\ poller' = "idle" /\ queue_mutex' = Nobody
  /\ maxReads' = 0 /\ empties' = 0 /\ data' = <<>>
  /\ UNCHANGED <<queues, pending_flushes, writerVars, callVars,
                 nextReadIndex, consumed_events, passed>>

PollWaits ==
  /\ poller = "tail" /\ data = <<>> /\ NoneReady
  /\ poller' = "wait" /\ queue_mutex' = Nobody
  /\ UNCHANGED <<queues, pending_flushes, writerVars, callVars,
                 maxReads, empties, data, nextReadIndex, consumed_events, passed>>

PollResumes ==
  /\ poller = "woken" /\ queue_mutex = Nobody
  /\ poller' = "scan" /\ queue_mutex' = Poller
  /\ empties' = 0
  /\ UNCHANGED <<queues, pending_flushes, writerVars, callVars,
                 maxReads, data, nextReadIndex, consumed_events, passed>>

PollSpuriousWakeup ==
  /\ poller = "wait"
  /\ poller' = "woken"
  /\ UNCHANGED <<queues, pending_flushes, queue_mutex, writerVars, callVars,
                 maxReads, empties, data, nextReadIndex, consumed_events, passed>>

-----------------------------------------------------------------------------
(* activate() and flush() *)

\* The sub-HAL accepts the call (when it refuses, nothing changes).  The framework
\* makes one activate() call at a time.
ActivateSubHal(h, enabled) ==
  /\ activating = Nobody /\ activations < MaxActivations
  /\ activating' = [handle |-> h, enabled |-> enabled]
  /\ activations' = activations + 1
  /\ UNCHANGED <<queues, pending_flushes, queue_mutex, writerVars, pollVars,
                 active_sensors, flushes>>

ActivateRecords ==
  /\ activating # Nobody /\ queue_mutex = Nobody
  /\ active_sensors' = [active_sensors EXCEPT ![activating.handle] = activating.enabled]
  /\ activating' = Nobody
  /\ UNCHANGED <<queues, pending_flushes, queue_mutex, writerVars, pollVars, flushes, activations>>

\* flush() of a sensor that is not one-shot and is active; otherwise it returns -EINVAL.
Flush(h) ==
  /\ ~IsOneShot(h) /\ queue_mutex = Nobody
  /\ active_sensors[h]
  /\ flushes < MaxFlushes
  /\ LET m == get_module_index(h) IN
     pending_flushes' = Append(pending_flushes,
       [handle |-> h, module_index |-> m,
        after_event |-> consumed_events[m] + PendingSize(queues[m])])
  /\ flushes' = flushes + 1
  /\ poller' = Poked(poller)
  /\ UNCHANGED <<queues, queue_mutex, writerVars, active_sensors, activating, activations,
                 maxReads, empties, data, nextReadIndex, consumed_events, passed>>

-----------------------------------------------------------------------------
WriterStep(m) ==
  \/ WaitForSpace(m) \/ SubHalPoll(m) \/ SubHalPollFails(m)
  \/ StartWrite(m) \/ WriteSome(m) \/ WriteWaits(m) \/ WriteResumes(m) \/ WriteReturns(m)
  \/ SpuriousWakeup(m)

PollStep ==
  \/ PollCall \/ EmitReadyFlush \/ SkipEmpty \/ ReadEvent \/ ScanEnds
  \/ PollReturns \/ PollWaits \/ PollResumes \/ PollSpuriousWakeup

CallStep ==
  \/ \E h \in Handles, enabled \in BOOLEAN : ActivateSubHal(h, enabled)
  \/ ActivateRecords
  \/ \E h \in Handles : Flush(h)

Next == (\E m \in Modules : WriterStep(m)) \/ PollStep \/ CallStep

Spec == Init /\ [][Next]_vars

\* Threads run, and one that keeps asking for queue_mutex gets it in the end: every
\* critical section is finite.  A sub-HAL need not report anything, a client need not
\* call activate() or flush(), and spurious wakeups need not happen.
Fairness ==
  /\ \A m \in Modules :
       /\ SF_vars(WaitForSpace(m)) /\ SF_vars(StartWrite(m)) /\ SF_vars(WriteResumes(m))
       /\ WF_vars(WriteSome(m) \/ WriteWaits(m) \/ WriteReturns(m))
  /\ SF_vars(PollCall) /\ SF_vars(PollResumes)
  /\ WF_vars(EmitReadyFlush \/ SkipEmpty \/ ReadEvent \/ ScanEnds \/ PollReturns \/ PollWaits)

FairSpec == Spec /\ Fairness

-----------------------------------------------------------------------------
(* Properties *)

Event == [n : Nat \ {0}, meta : BOOLEAN, local : {k.local : k \in EventKinds}]

Queue == [mStart : Slots, mSize : 0 .. Capacity, mPendingSize : 0 .. Capacity,
          mData : [Slots -> Event \cup {NoEvent}]]

Writing(m) == writer[m] \in {"write", "waitWrite", "rewrite"}

\* Every field of the multihal context and of its threads has its type.
TypeOK ==
  /\ queues \in [Modules -> Queue]
  /\ consumed_events \in [Modules -> Nat]
  /\ pending_flushes \in Seq([handle : Handles, module_index : Modules, after_event : Nat])
  /\ active_sensors \in [Handles -> BOOLEAN]
  /\ nextReadIndex \in Modules
  /\ queue_mutex \in Modules \cup {Poller, Nobody}
  /\ writer \in [Modules -> {"top", "waitTop", "poll", "lock", "write", "waitWrite", "rewrite"}]
  /\ buffer \in [Modules -> Seq(Event)]
  /\ poller \in {"idle", "scan", "tail", "wait", "woken"}
  /\ maxReads \in 0 .. MaxReads /\ empties \in 0 .. NumModules
  /\ data \in Seq([n : Nat, meta : BOOLEAN, handle : Handles \cup {UnknownHandle}])
  /\ activating \in [handle : Handles, enabled : BOOLEAN] \cup {Nobody}
  /\ polled \in [Modules -> Nat] /\ flushes \in Nat /\ activations \in Nat
  /\ passed \in [Modules -> Nat]

\* What a sub-HAL reported is consumed by poll() in the order it was reported, nothing
\* lost and nothing twice, whatever the ring wraps around and however often write() is
\* interrupted to wait: the events consumed, the readable ones and the ones still in the
\* writer's buffer are numbered consecutively up to the last one reported.
EventsInOrder ==
  \A m \in Modules :
    LET read == consumed_events[m]
        size == queues[m].mSize
    IN  /\ \A i \in 1 .. size : Readable(queues[m])[i].n = read + i
        /\ \A i \in 1 .. Len(buffer[m]) : buffer[m][i].n = read + size + i
        /\ polled[m] = read + size + Len(buffer[m])

\* poll() never consumes an event that a sub-HAL's writer handed over after a flush()
\* before it has delivered the completion of that flush: a pending flush is never left
\* behind its barrier after_event.
FlushNotOvertaken ==
  \A i \in DOMAIN pending_flushes :
    consumed_events[pending_flushes[i].module_index] <= pending_flushes[i].after_event

\* No thread sleeps on work that is there: poll() waits on data_available_cond only while
\* every ring is empty and no flush is ready, and a writer waits for space only while its
\* ring is full, so neither condition variable misses a broadcast.
NoSleepOnWork ==
  /\ poller = "wait" => NoneReady /\ \A m \in Modules : queues[m].mSize = 0
  /\ \A m \in Modules : writer[m] \in {"waitTop", "waitWrite"} => Full(queues[m])

\* A busy sub-HAL does not starve another: while a ring holds events, poll() consumes at
\* most one event of each other ring before it turns to this one, across poll() calls too.
RoundRobin == \A m \in Modules : passed[m] < NumModules

\* poll() hands no event upstream whose sensor it could not identify.
NoCorruptedEventUpstream == \A i \in DOMAIN data : data[i].handle # UnknownHandle

\* Every event a sub-HAL reported is consumed and every accepted flush completed, if the
\* framework keeps polling: no writer stays blocked in waitForSpace(), and poll() does
\* not sleep through a chunk of a long batch or through a flush().
Drained ==
  /\ pending_flushes = <<>>
  /\ \A m \in Modules : consumed_events[m] = polled[m]

AlwaysDrains == []<>Drained
=============================================================================
