--------------------------- MODULE MultiHalSteps ----------------------------
(***************************************************************************)
(* Every step of MultiHal preserves the types, the ownership of the mutex, *)
(* and the numbering of the events.                                        *)
(***************************************************************************)
EXTENDS MultiHalInvariant

-----------------------------------------------------------------------------
(* The steps preserve the invariant *)

\* Every step keeps the types.
LEMMA TypeStep ==
  ASSUME IInv, [Next]_vars
  PROVE  TypeOK'
  <1> USE DEF IInv
  <1>1. ASSUME NEW m \in Modules, WaitForSpace(m) PROVE TypeOK'
    BY <1>1 DEF WaitForSpace, TypeOK, vars, writerVars, pollVars, callVars
  <1>2. ASSUME NEW m \in Modules, SubHalPoll(m) PROVE TypeOK'
    <2>0. PICK n \in 1 .. Capacity :
            /\ \E kinds \in [1 .. n -> EventKinds] :
                 buffer' = [buffer EXCEPT ![m] =
                   [i \in 1 .. n |-> [n     |-> polled[m] + i,
                                      meta  |-> kinds[i].meta,
                                      local |-> kinds[i].local]]]
            /\ polled' = [polled EXCEPT ![m] = @ + n]
      BY <1>2 DEF SubHalPoll
    <2>1. PICK kinds \in [1 .. n -> EventKinds] :
            buffer' = [buffer EXCEPT ![m] =
              [i \in 1 .. n |-> [n     |-> polled[m] + i,
                                 meta  |-> kinds[i].meta,
                                 local |-> kinds[i].local]]]
      BY <2>0
    <2>2. n \in Nat /\ polled[m] \in Nat
      BY CapacityAssumption DEF TypeOK
    <2> DEFINE ev == [i \in 1 .. n |-> [n     |-> polled[m] + i,
                                        meta  |-> kinds[i].meta,
                                        local |-> kinds[i].local]]
    <2>3. ASSUME NEW i \in 1 .. n
          PROVE  [n |-> polled[m] + i, meta |-> kinds[i].meta, local |-> kinds[i].local] \in Event
      <3>1. kinds[i] \in EventKinds /\ kinds[i].meta \in BOOLEAN
        BY MultiHalAssumption
      <3>2. polled[m] + i \in Nat \ {0}
        BY <2>2
      <3> QED
        BY <3>1, <3>2 DEF Event
    <2>4. ev \in Seq(Event)
      BY <2>2, <2>3
    <2>5. buffer' = [buffer EXCEPT ![m] = ev]
      BY <2>1
    <2> HIDE DEF ev
    <2>6. buffer' \in [Modules -> Seq(Event)] /\ polled' \in [Modules -> Nat]
      <3>1. buffer \in [Modules -> Seq(Event)] /\ polled \in [Modules -> Nat]
        BY DEF TypeOK
      <3>2. buffer' \in [Modules -> Seq(Event)]
        BY <2>4, <2>5, <3>1
      <3> QED
        BY <2>0, <2>2, <3>1, <3>2
    <2> QED
      BY <1>2, <2>6 DEF SubHalPoll, TypeOK, pollVars, callVars
  <1>3. ASSUME NEW m \in Modules, SubHalPollFails(m) PROVE TypeOK'
    BY <1>3 DEF SubHalPollFails, TypeOK, vars, writerVars, pollVars, callVars
  <1>4. ASSUME NEW m \in Modules, StartWrite(m) PROVE TypeOK'
    <2>1. Len(buffer[m]) \in 0 .. Capacity
      BY CapacityAssumption DEF TypeOK, Threads, ThreadOK
    <2>2. [queues[m] EXCEPT !.mPendingSize = Len(buffer[m])] \in Queue
      BY <2>1 DEF TypeOK, Queue
    <2>3. queues' \in [Modules -> Queue]
      BY <1>4, <2>2 DEF StartWrite, TypeOK
    <2> QED
      BY <1>4, <2>3 DEF StartWrite, TypeOK, pollVars, callVars
  <1>5. ASSUME NEW m \in Modules, WriteSome(m) PROVE TypeOK'
    <2>1. /\ buffer[m] \in Seq(Event) /\ queues[m] \in Queue
          /\ consumed_events[m] \in Nat /\ polled[m] \in Nat
      BY DEF TypeOK
    <2>2. ThreadOK("write", buffer[m], queues[m], consumed_events[m], polled[m])
      BY <1>5 DEF WriteSome, Threads
    <2>3. /\ WriteChunk(queues[m], buffer[m]) \in Queue
          /\ SubSeq(buffer[m], WritableRegion(queues[m], queues[m].mPendingSize) + 1,
                    Len(buffer[m])) \in Seq(Event)
      BY <1>5, <2>1, <2>2, ThreadAfterWriteChunk DEF WriteSome
    <2>4. queues' \in [Modules -> Queue] /\ buffer' \in [Modules -> Seq(Event)]
      BY <1>5, <2>3 DEF WriteSome, TypeOK
    <2> QED
      BY <1>5, <2>4 DEF WriteSome, TypeOK, Poked, callVars
  <1>6. ASSUME NEW m \in Modules, WriteWaits(m) PROVE TypeOK'
    BY <1>6 DEF WriteWaits, TypeOK, vars, writerVars, pollVars, callVars
  <1>7. ASSUME NEW m \in Modules, WriteResumes(m) PROVE TypeOK'
    BY <1>7 DEF WriteResumes, TypeOK, vars, writerVars, pollVars, callVars
  <1>8. ASSUME NEW m \in Modules, WriteReturns(m) PROVE TypeOK'
    BY <1>8 DEF WriteReturns, TypeOK, vars, writerVars, pollVars, callVars
  <1>9. ASSUME NEW m \in Modules, SpuriousWakeup(m) PROVE TypeOK'
    BY <1>9 DEF SpuriousWakeup, TypeOK, vars, writerVars, pollVars, callVars, Spaced
  <1>10. CASE PollCall
    BY <1>10, MultiHalAssumption DEF PollCall, TypeOK, vars, writerVars, pollVars, callVars
  <1>11. CASE EmitReadyFlush
    <2>1. PICK i \in DOMAIN pending_flushes :
            /\ data' = Append(data, FlushComplete(pending_flushes[i].handle))
            /\ pending_flushes' = RemoveAt(pending_flushes, i)
      BY <1>11 DEF EmitReadyFlush, EmitFirst
    <2>2. i \in 1 .. Len(pending_flushes) /\ pending_flushes[i].handle \in Handles
      <3>1. pending_flushes \in Seq([handle : Handles, module_index : Modules, after_event : Nat])
        BY DEF TypeOK
      <3>2. pending_flushes[i] \in [handle : Handles, module_index : Modules, after_event : Nat]
        BY <2>1, <3>1, SeqDomain
      <3> QED
        BY <2>1, <3>1, <3>2, SeqDomain
    <2>3. /\ pending_flushes' \in
               Seq([handle : Handles, module_index : Modules, after_event : Nat])
      BY <2>1, <2>2, RemoveAtProperties DEF TypeOK
    <2>4. data' \in Seq([n : Nat, meta : BOOLEAN, handle : Handles \cup {UnknownHandle}])
      BY <2>1, <2>2 DEF TypeOK, FlushComplete
    <2> QED
      BY <1>11, <2>3, <2>4 DEF EmitReadyFlush, TypeOK, writerVars, callVars
  <1>12. CASE SkipEmpty
    <2>1. nextReadIndex' \in Modules
      BY <1>12, DistanceStep DEF SkipEmpty, NextIndex, TypeOK
    <2>2. empties' \in 0 .. NumModules
      BY <1>12, MultiHalAssumption DEF SkipEmpty, Scanning, TypeOK
    <2> QED
      BY <1>12, <2>1, <2>2 DEF SkipEmpty, TypeOK, writerVars, callVars
  <1>13. CASE ReadEvent
    <2> DEFINE m == nextReadIndex
               event == copy_event_remap_handle(m, Peek(queues[m]))
    <2>1. /\ m \in Modules /\ buffer[m] \in Seq(Event) /\ queues[m] \in Queue
          /\ consumed_events[m] \in Nat /\ polled[m] \in Nat
      BY DEF TypeOK
    <2>2. ThreadOK(writer[m], buffer[m], queues[m], consumed_events[m], polled[m])
      BY <2>1 DEF Threads
    <2>3. queues[m].mSize > 0 /\ writer[m] # "write"
      <3>1. queue_mutex = Poller
        BY <1>13 DEF ReadEvent, ReadGuard, Scanning, MutexHeld
      <3> QED
        BY <1>13, <2>1, <3>1, MultiHalAssumption DEF ReadEvent, MutexHeld
    <2>4. Dequeue(queues[m]) \in Queue /\ Peek(queues[m]) \in Event
      BY <2>1, <2>2, <2>3, ThreadAfterDequeue
    <2>5. event \in [n : Nat, meta : BOOLEAN, handle : Handles \cup {UnknownHandle}]
      BY <2>4, GlobalHandleType DEF copy_event_remap_handle, Event
    <2> HIDE DEF event
    <2>6. /\ data' \in Seq([n : Nat, meta : BOOLEAN, handle : Handles \cup {UnknownHandle}])
          /\ active_sensors' \in [Handles -> BOOLEAN]
      <3>1. Forward(event)
        BY <1>13 DEF ReadEvent, event
      <3>2. CASE IsDropped(event)
        BY <3>1, <3>2 DEF Forward, TypeOK
      <3>3. CASE ~IsDropped(event)
        <4>1. data' = Append(data, event)
          BY <3>1, <3>3 DEF Forward
        <4>2. data' \in Seq([n : Nat, meta : BOOLEAN, handle : Handles \cup {UnknownHandle}])
          BY <4>1, <2>5 DEF TypeOK
        <4>3. active_sensors' \in [Handles -> BOOLEAN]
          BY <3>1, <3>3 DEF Forward
        <4> QED
          BY <4>2, <4>3
      <3> QED
        BY <3>2, <3>3
    <2>7. queues' \in [Modules -> Queue] /\ consumed_events' \in [Modules -> Nat]
      BY <1>13, <2>1, <2>4 DEF ReadEvent, TypeOK
    <2>8. writer' \in [Modules ->
            {"top", "waitTop", "poll", "lock", "write", "waitWrite", "rewrite"}]
      BY <1>13, <2>1 DEF ReadEvent, TypeOK, Spaced
    <2>9. passed' \in [Modules -> Nat]
      BY <1>13 DEF ReadEvent, TypeOK
    <2>10. nextReadIndex' \in Modules /\ empties' \in 0 .. NumModules
      BY <1>13, <2>1, DistanceStep, MultiHalAssumption DEF ReadEvent, NextIndex
    <2> QED
      BY <1>13, <2>6, <2>7, <2>8, <2>9, <2>10 DEF ReadEvent, TypeOK
  <1>14. CASE ScanEnds
    BY <1>14 DEF ScanEnds, TypeOK, vars, writerVars, pollVars, callVars
  <1>15. CASE PollReturns
    BY <1>15, MultiHalAssumption DEF PollReturns, TypeOK, vars, writerVars, pollVars, callVars
  <1>16. CASE PollWaits
    BY <1>16 DEF PollWaits, TypeOK, vars, writerVars, pollVars, callVars
  <1>17. CASE PollResumes
    BY <1>17, MultiHalAssumption DEF PollResumes, TypeOK, vars, writerVars, pollVars, callVars
  <1>18. CASE PollSpuriousWakeup
    BY <1>18 DEF PollSpuriousWakeup, TypeOK, vars, writerVars, pollVars, callVars
  <1>19. ASSUME NEW h \in Handles, NEW enabled \in BOOLEAN, ActivateSubHal(h, enabled) PROVE TypeOK'
    BY <1>19 DEF ActivateSubHal, TypeOK, vars, writerVars, pollVars, callVars
  <1>20. CASE ActivateRecords
    BY <1>20 DEF ActivateRecords, TypeOK, vars, writerVars, pollVars, callVars
  <1>21. ASSUME NEW h \in Handles, Flush(h) PROVE TypeOK'
    <2> DEFINE m == get_module_index(h)
               f == [handle |-> h, module_index |-> m,
                     after_event |-> consumed_events[m] + PendingSize(queues[m])]
    <2>1. m \in Modules
      BY <1>21, ModuleOfHandle
    <2>2. consumed_events[m] + PendingSize(queues[m]) \in Nat
      <3> HIDE DEF m
      <3>1. queues[m] \in Queue /\ consumed_events[m] \in Nat
        BY <2>1 DEF TypeOK
      <3>2. queues[m].mSize \in Nat /\ queues[m].mPendingSize \in Nat
        BY <3>1, CapacityAssumption DEF Queue
      <3> QED
        BY <3>1, <3>2 DEF PendingSize
    <2>3. f \in [handle : Handles, module_index : Modules, after_event : Nat]
      BY <1>21, <2>1, <2>2
    <2>4. pending_flushes' = Append(pending_flushes, f)
      BY <1>21 DEF Flush
    <2> HIDE DEF f
    <2>5. pending_flushes' \in
            Seq([handle : Handles, module_index : Modules, after_event : Nat])
      BY <2>3, <2>4 DEF TypeOK
    <2>6. flushes' \in Nat /\ poller' \in {"idle", "scan", "tail", "wait", "woken"}
      BY <1>21 DEF Flush, TypeOK, Poked
    <2>7. UNCHANGED <<queues, queue_mutex, writer, buffer, polled, active_sensors, activating,
                      activations, maxReads, empties, data, nextReadIndex, consumed_events,
                      passed>>
      BY <1>21 DEF Flush, writerVars
    <2> QED
      BY <2>5, <2>6, <2>7 DEF TypeOK
  <1>22. CASE UNCHANGED vars
    BY <1>22 DEF TypeOK, vars, writerVars, pollVars, callVars
  <1> QED
    BY <1>1, <1>2, <1>3, <1>4, <1>5, <1>6, <1>7, <1>8, <1>9, <1>10, <1>11,
       <1>12, <1>13, <1>14, <1>15, <1>16, <1>17, <1>18, <1>19, <1>20, <1>21, <1>22
       DEF Next, WriterStep, PollStep, CallStep

\* Every step takes and releases queue_mutex as its program point says.
LEMMA MutexStep ==
  ASSUME IInv, [Next]_vars
  PROVE  MutexHeld'
  <1> USE DEF IInv, TypeOK
  <1>1. ASSUME NEW m \in Modules, WaitForSpace(m) PROVE MutexHeld'
    BY <1>1, MultiHalAssumption DEF WaitForSpace, MutexHeld, writerVars, pollVars, callVars
  <1>2. ASSUME NEW m \in Modules, SubHalPoll(m) PROVE MutexHeld'
    BY <1>2, MultiHalAssumption DEF SubHalPoll, MutexHeld, writerVars, pollVars, callVars
  <1>3. ASSUME NEW m \in Modules, SubHalPollFails(m) PROVE MutexHeld'
    BY <1>3, MultiHalAssumption DEF SubHalPollFails, MutexHeld, writerVars, pollVars, callVars
  <1>4. ASSUME NEW m \in Modules, StartWrite(m) PROVE MutexHeld'
    <2>1. \A k \in Modules : writer[k] # "write"
      BY <1>4, MultiHalAssumption DEF StartWrite, MutexHeld
    <2>2. \A k \in Modules : writer'[k] = "write" <=> k = m
      BY <1>4, <2>1 DEF StartWrite
    <2> QED
      BY <1>4, <2>2, MultiHalAssumption DEF StartWrite, MutexHeld, pollVars
  <1>5. ASSUME NEW m \in Modules, WriteSome(m) PROVE MutexHeld'
    BY <1>5, MultiHalAssumption DEF WriteSome, MutexHeld, writerVars, pollVars, callVars, Poked
  <1>6. ASSUME NEW m \in Modules, WriteWaits(m) PROVE MutexHeld'
    BY <1>6, MultiHalAssumption DEF WriteWaits, MutexHeld, writerVars, pollVars, callVars
  <1>7. ASSUME NEW m \in Modules, WriteResumes(m) PROVE MutexHeld'
    BY <1>7, MultiHalAssumption DEF WriteResumes, MutexHeld, writerVars, pollVars, callVars
  <1>8. ASSUME NEW m \in Modules, WriteReturns(m) PROVE MutexHeld'
    BY <1>8, MultiHalAssumption DEF WriteReturns, MutexHeld, writerVars, pollVars, callVars
  <1>9. ASSUME NEW m \in Modules, SpuriousWakeup(m) PROVE MutexHeld'
    <2>1. \A k \in Modules : writer'[k] = "write" <=> writer[k] = "write"
      BY <1>9 DEF SpuriousWakeup, Spaced
    <2> QED
      BY <1>9, <2>1 DEF SpuriousWakeup, MutexHeld, pollVars
  <1>10. CASE PollCall
    BY <1>10, MultiHalAssumption DEF PollCall, MutexHeld, writerVars, pollVars, callVars
  <1>11. CASE EmitReadyFlush
    BY <1>11, MultiHalAssumption DEF EmitReadyFlush, MutexHeld, writerVars, pollVars, callVars, Scanning
  <1>12. CASE SkipEmpty
    BY <1>12, MultiHalAssumption DEF SkipEmpty, MutexHeld, writerVars, pollVars, callVars, Scanning
  <1>13. CASE ReadEvent
    <2>1. \A k \in Modules : writer'[k] = "write" <=> writer[k] = "write"
      BY <1>13 DEF ReadEvent, Spaced
    <2> QED
      BY <1>13, <2>1 DEF ReadEvent, MutexHeld
  <1>14. CASE ScanEnds
    BY <1>14, MultiHalAssumption DEF ScanEnds, MutexHeld, writerVars, pollVars, callVars
  <1>15. CASE PollReturns
    BY <1>15, MultiHalAssumption DEF PollReturns, MutexHeld, writerVars, pollVars, callVars
  <1>16. CASE PollWaits
    BY <1>16, MultiHalAssumption DEF PollWaits, MutexHeld, writerVars, pollVars, callVars
  <1>17. CASE PollResumes
    BY <1>17, MultiHalAssumption DEF PollResumes, MutexHeld, writerVars, pollVars, callVars
  <1>18. CASE PollSpuriousWakeup
    BY <1>18, MultiHalAssumption DEF PollSpuriousWakeup, MutexHeld, writerVars, pollVars, callVars
  <1>19. ASSUME NEW h \in Handles, NEW enabled \in BOOLEAN, ActivateSubHal(h, enabled) PROVE MutexHeld'
    BY <1>19, MultiHalAssumption DEF ActivateSubHal, MutexHeld, writerVars, pollVars, callVars
  <1>20. CASE ActivateRecords
    BY <1>20, MultiHalAssumption DEF ActivateRecords, MutexHeld, writerVars, pollVars, callVars
  <1>21. ASSUME NEW h \in Handles, Flush(h) PROVE MutexHeld'
    BY <1>21, MultiHalAssumption DEF Flush, MutexHeld, writerVars, pollVars, callVars, Poked
  <1>22. CASE UNCHANGED vars
    BY <1>22 DEF MutexHeld, vars, writerVars, pollVars, callVars
  <1> QED
    BY <1>1, <1>2, <1>3, <1>4, <1>5, <1>6, <1>7, <1>8, <1>9, <1>10, <1>11,
       <1>12, <1>13, <1>14, <1>15, <1>16, <1>17, <1>18, <1>19, <1>20, <1>21, <1>22
       DEF Next, WriterStep, PollStep, CallStep

\* Every step keeps the events of a sub-HAL in order between its buffer, its ring and the
\* client, and a writer asleep only on a full ring.
LEMMA ThreadsStep ==
  ASSUME IInv, [Next]_vars
  PROVE  Threads'
  <1> USE DEF IInv
  <1>1. ASSUME NEW m \in Modules, WaitForSpace(m) PROVE Threads'
    <2>1. ASSUME NEW k \in Modules, k # m
          PROVE  ThreadOK(writer'[k], buffer'[k], queues'[k], consumed_events'[k], polled'[k])
      <3>1. /\ writer'[k] = writer[k] /\ buffer'[k] = buffer[k] /\ queues'[k] = queues[k]
            /\ consumed_events'[k] = consumed_events[k] /\ polled'[k] = polled[k]
        BY <1>1, <2>1 DEF WaitForSpace, TypeOK, pollVars
      <3> QED
        BY <3>1 DEF Threads
    <2>2. ThreadOK(writer[m], buffer[m], queues[m], consumed_events[m], polled[m])
      BY DEF Threads
    <2>3. ThreadOK(writer'[m], buffer'[m], queues'[m], consumed_events'[m], polled'[m])
      <3>1. /\ writer[m] = "top" /\ writer'[m] = (IF Full(queues[m]) THEN "waitTop" ELSE "poll") /\ buffer'[m] = buffer[m]
            /\ queues'[m] = queues[m] /\ consumed_events'[m] = consumed_events[m]
            /\ polled'[m] = polled[m]
        BY <1>1 DEF WaitForSpace, TypeOK, pollVars
      <3> QED
        BY <2>2, <3>1 DEF ThreadOK
    <2> QED
      BY <2>1, <2>3 DEF Threads
  <1>2. ASSUME NEW m \in Modules, SubHalPoll(m) PROVE Threads'
    <2>1. ASSUME NEW k \in Modules, k # m
          PROVE  ThreadOK(writer'[k], buffer'[k], queues'[k], consumed_events'[k], polled'[k])
      <3>1. /\ writer'[k] = writer[k] /\ buffer'[k] = buffer[k] /\ queues'[k] = queues[k]
            /\ consumed_events'[k] = consumed_events[k] /\ polled'[k] = polled[k]
        BY <1>2, <2>1 DEF SubHalPoll, TypeOK, pollVars
      <3> QED
        BY <3>1 DEF Threads
    <2>2. ThreadOK(writer[m], buffer[m], queues[m], consumed_events[m], polled[m])
      BY DEF Threads
    <2>3. ThreadOK(writer'[m], buffer'[m], queues'[m], consumed_events'[m], polled'[m])
      <3>0. PICK n \in 1 .. Capacity :
              /\ \E kinds \in [1 .. n -> EventKinds] :
                   buffer' = [buffer EXCEPT ![m] =
                     [i \in 1 .. n |-> [n     |-> polled[m] + i,
                                        meta  |-> kinds[i].meta,
                                        local |-> kinds[i].local]]]
              /\ polled' = [polled EXCEPT ![m] = @ + n]
        BY <1>2 DEF SubHalPoll
      <3>1. PICK kinds \in [1 .. n -> EventKinds] :
              buffer' = [buffer EXCEPT ![m] =
                [i \in 1 .. n |-> [n     |-> polled[m] + i,
                                   meta  |-> kinds[i].meta,
                                   local |-> kinds[i].local]]]
        BY <3>0
      <3>2. n \in Nat /\ n <= Capacity
        BY CapacityAssumption
      <3>3. Len(buffer'[m]) = n /\ \A i \in 1 .. n : buffer'[m][i].n = polled[m] + i
        <4>1. m \in DOMAIN buffer
          BY DEF TypeOK
        <4>2. buffer'[m] = [i \in 1 .. n |-> [n     |-> polled[m] + i,
                                             meta  |-> kinds[i].meta,
                                             local |-> kinds[i].local]]
          BY <3>1, <4>1
        <4> QED
          BY <3>2, <4>2
      <3>4. polled'[m] = polled[m] + n
        BY <3>0 DEF TypeOK
      <3>5. writer[m] = "poll" /\ writer'[m] = "lock" /\ queues'[m] = queues[m]
            /\ consumed_events'[m] = consumed_events[m]
        BY <1>2 DEF SubHalPoll, TypeOK, pollVars
      <3>6. polled[m] = consumed_events[m] + queues[m].mSize /\ queues[m].mSize \in Nat
            /\ consumed_events[m] \in Nat
        <4>1. queues[m] \in Queue /\ consumed_events[m] \in Nat
          BY DEF TypeOK
        <4>2. queues[m].mSize \in Nat
          BY <4>1, CapacityAssumption DEF Queue
        <4> QED
          BY <2>2, <3>5, <4>1, <4>2 DEF ThreadOK
      <3> QED
        BY <2>2, <3>2, <3>3, <3>4, <3>5, <3>6 DEF ThreadOK
    <2> QED
      BY <2>1, <2>3 DEF Threads
  <1>3. ASSUME NEW m \in Modules, SubHalPollFails(m) PROVE Threads'
    <2>1. ASSUME NEW k \in Modules, k # m
          PROVE  ThreadOK(writer'[k], buffer'[k], queues'[k], consumed_events'[k], polled'[k])
      <3>1. /\ writer'[k] = writer[k] /\ buffer'[k] = buffer[k] /\ queues'[k] = queues[k]
            /\ consumed_events'[k] = consumed_events[k] /\ polled'[k] = polled[k]
        BY <1>3, <2>1 DEF SubHalPollFails, TypeOK, pollVars
      <3> QED
        BY <3>1 DEF Threads
    <2>2. ThreadOK(writer[m], buffer[m], queues[m], consumed_events[m], polled[m])
      BY DEF Threads
    <2>3. ThreadOK(writer'[m], buffer'[m], queues'[m], consumed_events'[m], polled'[m])
      <3>1. /\ writer[m] = "poll" /\ writer'[m] = "top" /\ buffer'[m] = buffer[m]
            /\ queues'[m] = queues[m] /\ consumed_events'[m] = consumed_events[m]
            /\ polled'[m] = polled[m]
        BY <1>3 DEF SubHalPollFails, TypeOK, pollVars
      <3> QED
        BY <2>2, <3>1 DEF ThreadOK
    <2> QED
      BY <2>1, <2>3 DEF Threads
  <1>4. ASSUME NEW m \in Modules, StartWrite(m) PROVE Threads'
    <2>1. ASSUME NEW k \in Modules, k # m
          PROVE  ThreadOK(writer'[k], buffer'[k], queues'[k], consumed_events'[k], polled'[k])
      <3>1. /\ writer'[k] = writer[k] /\ buffer'[k] = buffer[k] /\ queues'[k] = queues[k]
            /\ consumed_events'[k] = consumed_events[k] /\ polled'[k] = polled[k]
        BY <1>4, <2>1 DEF StartWrite, TypeOK, pollVars
      <3> QED
        BY <3>1 DEF Threads
    <2>2. ThreadOK(writer[m], buffer[m], queues[m], consumed_events[m], polled[m])
      BY DEF Threads
    <2>3. ThreadOK(writer'[m], buffer'[m], queues'[m], consumed_events'[m], polled'[m])
      <3> DEFINE q == queues[m]
                 r == [queues[m] EXCEPT !.mPendingSize = Len(buffer[m])]
      <3>1. /\ writer[m] = "lock" /\ writer'[m] = "write"
            /\ buffer'[m] = buffer[m] /\ queues'[m] = r
            /\ consumed_events'[m] = consumed_events[m] /\ polled'[m] = polled[m]
        BY <1>4 DEF StartWrite, TypeOK, pollVars
      <3>2. q \in Queue
        BY DEF TypeOK
      <3>3. /\ r.mSize = q.mSize /\ r.mStart = q.mStart /\ r.mData = q.mData
            /\ r.mPendingSize = Len(buffer[m])
        BY <3>2 DEF Queue
      <3>4. Readable(r) = Readable(q)
        BY <3>3 DEF Readable
      <3> HIDE DEF r
      <3> QED
        BY <2>2, <3>1, <3>3, <3>4 DEF ThreadOK
    <2> QED
      BY <2>1, <2>3 DEF Threads
  <1>5. ASSUME NEW m \in Modules, WriteSome(m) PROVE Threads'
    <2>1. ASSUME NEW k \in Modules, k # m
          PROVE  ThreadOK(writer'[k], buffer'[k], queues'[k], consumed_events'[k], polled'[k])
      <3>1. /\ writer'[k] = writer[k] /\ buffer'[k] = buffer[k] /\ queues'[k] = queues[k]
            /\ consumed_events'[k] = consumed_events[k] /\ polled'[k] = polled[k]
        BY <1>5, <2>1 DEF WriteSome, TypeOK, pollVars
      <3> QED
        BY <3>1 DEF Threads
    <2>2. ThreadOK(writer[m], buffer[m], queues[m], consumed_events[m], polled[m])
      BY DEF Threads
    <2>3. ThreadOK(writer'[m], buffer'[m], queues'[m], consumed_events'[m], polled'[m])
      <3>1. /\ buffer[m] \in Seq(Event) /\ queues[m] \in Queue
            /\ consumed_events[m] \in Nat /\ polled[m] \in Nat
        BY DEF TypeOK
      <3>2. /\ writer[m] = "write" /\ writer'[m] = "write"
            /\ queues[m].mPendingSize > 0 /\ ~Full(queues[m])
            /\ queues'[m] = WriteChunk(queues[m], buffer[m])
            /\ buffer'[m] = SubSeq(buffer[m], WritableRegion(queues[m], queues[m].mPendingSize) + 1,
                                   Len(buffer[m]))
            /\ consumed_events'[m] = consumed_events[m] /\ polled'[m] = polled[m]
        BY <1>5 DEF WriteSome, TypeOK
      <3> QED
        BY <2>2, <3>1, <3>2, ThreadAfterWriteChunk
    <2> QED
      BY <2>1, <2>3 DEF Threads
  <1>6. ASSUME NEW m \in Modules, WriteWaits(m) PROVE Threads'
    <2>1. ASSUME NEW k \in Modules, k # m
          PROVE  ThreadOK(writer'[k], buffer'[k], queues'[k], consumed_events'[k], polled'[k])
      <3>1. /\ writer'[k] = writer[k] /\ buffer'[k] = buffer[k] /\ queues'[k] = queues[k]
            /\ consumed_events'[k] = consumed_events[k] /\ polled'[k] = polled[k]
        BY <1>6, <2>1 DEF WriteWaits, TypeOK, pollVars
      <3> QED
        BY <3>1 DEF Threads
    <2>2. ThreadOK(writer[m], buffer[m], queues[m], consumed_events[m], polled[m])
      BY DEF Threads
    <2>3. ThreadOK(writer'[m], buffer'[m], queues'[m], consumed_events'[m], polled'[m])
      <3>1. /\ writer[m] = "write" /\ writer'[m] = "waitWrite" /\ Full(queues[m])
            /\ buffer'[m] = buffer[m] /\ queues'[m] = queues[m]
            /\ consumed_events'[m] = consumed_events[m] /\ polled'[m] = polled[m]
        BY <1>6 DEF WriteWaits, TypeOK, pollVars
      <3> QED
        BY <2>2, <3>1 DEF ThreadOK
    <2> QED
      BY <2>1, <2>3 DEF Threads
  <1>7. ASSUME NEW m \in Modules, WriteResumes(m) PROVE Threads'
    <2>1. ASSUME NEW k \in Modules, k # m
          PROVE  ThreadOK(writer'[k], buffer'[k], queues'[k], consumed_events'[k], polled'[k])
      <3>1. /\ writer'[k] = writer[k] /\ buffer'[k] = buffer[k] /\ queues'[k] = queues[k]
            /\ consumed_events'[k] = consumed_events[k] /\ polled'[k] = polled[k]
        BY <1>7, <2>1 DEF WriteResumes, TypeOK, pollVars
      <3> QED
        BY <3>1 DEF Threads
    <2>2. ThreadOK(writer[m], buffer[m], queues[m], consumed_events[m], polled[m])
      BY DEF Threads
    <2>3. ThreadOK(writer'[m], buffer'[m], queues'[m], consumed_events'[m], polled'[m])
      <3>1. /\ writer[m] = "rewrite" /\ writer'[m] = "write" /\ buffer'[m] = buffer[m]
            /\ queues'[m] = queues[m] /\ consumed_events'[m] = consumed_events[m]
            /\ polled'[m] = polled[m]
        BY <1>7 DEF WriteResumes, TypeOK, pollVars
      <3> QED
        BY <2>2, <3>1 DEF ThreadOK
    <2> QED
      BY <2>1, <2>3 DEF Threads
  <1>8. ASSUME NEW m \in Modules, WriteReturns(m) PROVE Threads'
    <2>1. ASSUME NEW k \in Modules, k # m
          PROVE  ThreadOK(writer'[k], buffer'[k], queues'[k], consumed_events'[k], polled'[k])
      <3>1. /\ writer'[k] = writer[k] /\ buffer'[k] = buffer[k] /\ queues'[k] = queues[k]
            /\ consumed_events'[k] = consumed_events[k] /\ polled'[k] = polled[k]
        BY <1>8, <2>1 DEF WriteReturns, TypeOK, pollVars
      <3> QED
        BY <3>1 DEF Threads
    <2>2. ThreadOK(writer[m], buffer[m], queues[m], consumed_events[m], polled[m])
      BY DEF Threads
    <2>3. ThreadOK(writer'[m], buffer'[m], queues'[m], consumed_events'[m], polled'[m])
      <3>1. /\ writer[m] = "write" /\ writer'[m] = "top" /\ queues[m].mPendingSize = 0
            /\ buffer'[m] = buffer[m] /\ queues'[m] = queues[m]
            /\ consumed_events'[m] = consumed_events[m] /\ polled'[m] = polled[m]
        BY <1>8 DEF WriteReturns, TypeOK, pollVars
      <3> QED
        BY <2>2, <3>1 DEF ThreadOK
    <2> QED
      BY <2>1, <2>3 DEF Threads
  <1>9. ASSUME NEW m \in Modules, SpuriousWakeup(m) PROVE Threads'
    <2>1. ASSUME NEW k \in Modules, k # m
          PROVE  ThreadOK(writer'[k], buffer'[k], queues'[k], consumed_events'[k], polled'[k])
      <3>1. /\ writer'[k] = writer[k] /\ buffer'[k] = buffer[k] /\ queues'[k] = queues[k]
            /\ consumed_events'[k] = consumed_events[k] /\ polled'[k] = polled[k]
        BY <1>9, <2>1 DEF SpuriousWakeup, TypeOK, pollVars
      <3> QED
        BY <3>1 DEF Threads
    <2>2. ThreadOK(writer[m], buffer[m], queues[m], consumed_events[m], polled[m])
      BY DEF Threads
    <2>3. ThreadOK(writer'[m], buffer'[m], queues'[m], consumed_events'[m], polled'[m])
      <3>1. /\ \/ writer[m] = "waitTop" /\ writer'[m] = "top"
               \/ writer[m] = "waitWrite" /\ writer'[m] = "rewrite"
            /\ buffer'[m] = buffer[m] /\ queues'[m] = queues[m]
            /\ consumed_events'[m] = consumed_events[m] /\ polled'[m] = polled[m]
        BY <1>9 DEF SpuriousWakeup, Spaced, TypeOK, pollVars
      <3> QED
        BY <2>2, <3>1 DEF ThreadOK
    <2> QED
      BY <2>1, <2>3 DEF Threads
  <1>10. CASE PollCall
    BY <1>10 DEF PollCall, Threads, writerVars, pollVars, callVars
  <1>11. CASE EmitReadyFlush
    BY <1>11 DEF EmitReadyFlush, Threads, writerVars, pollVars, callVars
  <1>12. CASE SkipEmpty
    BY <1>12 DEF SkipEmpty, Threads, writerVars, pollVars, callVars
  <1>13. CASE ReadEvent
    <2> DEFINE m == nextReadIndex
    <2>1. m \in Modules
      BY DEF TypeOK
    <2>2. ASSUME NEW k \in Modules, k # m
          PROVE  ThreadOK(writer'[k], buffer'[k], queues'[k], consumed_events'[k], polled'[k])
      <3>1. /\ writer'[k] = writer[k] /\ buffer'[k] = buffer[k] /\ queues'[k] = queues[k]
            /\ consumed_events'[k] = consumed_events[k] /\ polled'[k] = polled[k]
        BY <1>13, <2>2 DEF ReadEvent, TypeOK
      <3> QED
        BY <3>1 DEF Threads
    <2>3. ThreadOK(writer'[m], buffer'[m], queues'[m], consumed_events'[m], polled'[m])
      <3>1. /\ buffer[m] \in Seq(Event) /\ queues[m] \in Queue
            /\ consumed_events[m] \in Nat /\ polled[m] \in Nat
        BY <2>1 DEF TypeOK
      <3>2. ThreadOK(writer[m], buffer[m], queues[m], consumed_events[m], polled[m])
        BY <2>1 DEF Threads
      <3>3. queues[m].mSize > 0 /\ writer[m] # "write"
        <4>1. queue_mutex = Poller
          BY <1>13 DEF ReadEvent, ReadGuard, Scanning, MutexHeld
        <4> QED
          BY <1>13, <2>1, <4>1, MultiHalAssumption DEF ReadEvent, MutexHeld
      <3>4. /\ writer'[m] = IF DequeueSignals(queues[m]) THEN Spaced(writer[m]) ELSE writer[m]
            /\ queues'[m] = Dequeue(queues[m])
            /\ consumed_events'[m] = consumed_events[m] + 1
            /\ buffer'[m] = buffer[m] /\ polled'[m] = polled[m]
        <4>1. writer \in [Modules -> {"top", "waitTop", "poll", "lock", "write", "waitWrite",
                                      "rewrite"}]
          BY DEF TypeOK
        <4>2. writer' = IF DequeueSignals(queues[m]) THEN [writer EXCEPT ![m] = Spaced(@)]
                                                     ELSE writer
          BY <1>13 DEF ReadEvent
        <4>3. writer'[m] = IF DequeueSignals(queues[m]) THEN Spaced(writer[m]) ELSE writer[m]
          BY <2>1, <4>1, <4>2
        <4>4. /\ queues'[m] = Dequeue(queues[m])
              /\ consumed_events'[m] = consumed_events[m] + 1
              /\ buffer'[m] = buffer[m] /\ polled'[m] = polled[m]
          BY <1>13, <2>1 DEF ReadEvent, TypeOK
        <4> QED
          BY <4>3, <4>4
      <3> QED
        BY <3>1, <3>2, <3>3, <3>4, ThreadAfterDequeue
    <2> QED
      BY <2>1, <2>2, <2>3 DEF Threads
  <1>14. CASE ScanEnds
    BY <1>14 DEF ScanEnds, Threads, writerVars, pollVars, callVars
  <1>15. CASE PollReturns
    BY <1>15 DEF PollReturns, Threads, writerVars, pollVars, callVars
  <1>16. CASE PollWaits
    BY <1>16 DEF PollWaits, Threads, writerVars, pollVars, callVars
  <1>17. CASE PollResumes
    BY <1>17 DEF PollResumes, Threads, writerVars, pollVars, callVars
  <1>18. CASE PollSpuriousWakeup
    BY <1>18 DEF PollSpuriousWakeup, Threads, writerVars, pollVars, callVars
  <1>19. ASSUME NEW h \in Handles, NEW enabled \in BOOLEAN, ActivateSubHal(h, enabled) PROVE Threads'
    BY <1>19 DEF ActivateSubHal, Threads, writerVars, pollVars, callVars
  <1>20. CASE ActivateRecords
    BY <1>20 DEF ActivateRecords, Threads, writerVars, pollVars, callVars
  <1>21. ASSUME NEW h \in Handles, Flush(h) PROVE Threads'
    BY <1>21 DEF Flush, Threads, writerVars, pollVars, callVars
  <1>22. CASE UNCHANGED vars
    BY <1>22 DEF Threads, vars, writerVars, pollVars, callVars
  <1> QED
    BY <1>1, <1>2, <1>3, <1>4, <1>5, <1>6, <1>7, <1>8, <1>9, <1>10, <1>11,
       <1>12, <1>13, <1>14, <1>15, <1>16, <1>17, <1>18, <1>19, <1>20, <1>21, <1>22
       DEF Next, WriterStep, PollStep, CallStep
=============================================================================
