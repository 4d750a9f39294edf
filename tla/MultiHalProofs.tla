--------------------------- MODULE MultiHalProofs ---------------------------
(***************************************************************************)
(* The safety properties of MultiHal, for any number of sub-HALs and       *)
(* sensors, any ring capacity and any bounds.                              *)
(***************************************************************************)
EXTENDS MultiHalSteps

\* No step lets poll() pass the barrier of a pending flush.
LEMMA FlushStep ==
  ASSUME IInv, [Next]_vars
  PROVE  FlushNotOvertaken'
  <1> USE DEF IInv
  <1>1. ASSUME NEW m \in Modules, WaitForSpace(m) PROVE FlushNotOvertaken'
    BY <1>1 DEF WaitForSpace, FlushNotOvertaken, writerVars, pollVars, callVars
  <1>2. ASSUME NEW m \in Modules, SubHalPoll(m) PROVE FlushNotOvertaken'
    BY <1>2 DEF SubHalPoll, FlushNotOvertaken, writerVars, pollVars, callVars
  <1>3. ASSUME NEW m \in Modules, SubHalPollFails(m) PROVE FlushNotOvertaken'
    BY <1>3 DEF SubHalPollFails, FlushNotOvertaken, writerVars, pollVars, callVars
  <1>4. ASSUME NEW m \in Modules, StartWrite(m) PROVE FlushNotOvertaken'
    BY <1>4 DEF StartWrite, FlushNotOvertaken, writerVars, pollVars, callVars
  <1>5. ASSUME NEW m \in Modules, WriteSome(m) PROVE FlushNotOvertaken'
    BY <1>5 DEF WriteSome, FlushNotOvertaken, writerVars, pollVars, callVars
  <1>6. ASSUME NEW m \in Modules, WriteWaits(m) PROVE FlushNotOvertaken'
    BY <1>6 DEF WriteWaits, FlushNotOvertaken, writerVars, pollVars, callVars
  <1>7. ASSUME NEW m \in Modules, WriteResumes(m) PROVE FlushNotOvertaken'
    BY <1>7 DEF WriteResumes, FlushNotOvertaken, writerVars, pollVars, callVars
  <1>8. ASSUME NEW m \in Modules, WriteReturns(m) PROVE FlushNotOvertaken'
    BY <1>8 DEF WriteReturns, FlushNotOvertaken, writerVars, pollVars, callVars
  <1>9. ASSUME NEW m \in Modules, SpuriousWakeup(m) PROVE FlushNotOvertaken'
    BY <1>9 DEF SpuriousWakeup, FlushNotOvertaken, writerVars, pollVars, callVars
  <1>10. CASE PollCall
    BY <1>10 DEF PollCall, FlushNotOvertaken, writerVars, pollVars, callVars
  <1>11. CASE EmitReadyFlush
    <2> DEFINE F == [handle : Handles, module_index : Modules, after_event : Nat]
    <2>1. PICK i \in DOMAIN pending_flushes : pending_flushes' = RemoveAt(pending_flushes, i)
      BY <1>11 DEF EmitReadyFlush, EmitFirst
    <2>2. pending_flushes \in Seq(F)
      BY DEF TypeOK
    <2>3. /\ pending_flushes' \in Seq(F) /\ Len(pending_flushes') = Len(pending_flushes) - 1
          /\ \A j \in 1 .. Len(pending_flushes) - 1 :
               pending_flushes'[j] = IF j < i THEN pending_flushes[j] ELSE pending_flushes[j + 1]
      <3>1. i \in 1 .. Len(pending_flushes)
        BY <2>1, <2>2, SeqDomain
      <3> QED
        BY <2>1, <2>2, <3>1, RemoveAtProperties
    <2>4. ASSUME NEW j \in DOMAIN pending_flushes'
          PROVE  \E k \in DOMAIN pending_flushes : pending_flushes'[j] = pending_flushes[k]
      <3>1. j \in 1 .. Len(pending_flushes) - 1
        BY <2>3, LenProperties
      <3>2. j \in DOMAIN pending_flushes /\ j + 1 \in DOMAIN pending_flushes
        BY <2>2, <3>1, LenProperties
      <3> QED
        BY <2>3, <3>1, <3>2
    <2> QED
      BY <1>11, <2>4 DEF EmitReadyFlush, FlushNotOvertaken
  <1>12. CASE SkipEmpty
    BY <1>12 DEF SkipEmpty, FlushNotOvertaken, writerVars, pollVars, callVars
  <1>13. CASE ReadEvent
    <2>1. ASSUME NEW i \in DOMAIN pending_flushes
          PROVE  consumed_events'[pending_flushes[i].module_index] <= pending_flushes[i].after_event
      <3> DEFINE f == pending_flushes[i]
      <3>1. f \in [handle : Handles, module_index : Modules, after_event : Nat]
        <4>1. pending_flushes \in Seq([handle : Handles, module_index : Modules, after_event : Nat])
          BY DEF TypeOK
        <4> QED
          BY <4>1, SeqDomain
      <3>2. ~(consumed_events[f.module_index] >= f.after_event)
        BY <1>13 DEF ReadEvent, ReadGuard, NoneReady, IsReady
      <3>3. f.module_index \in Modules /\ f.after_event \in Nat
        BY <3>1
      <3> HIDE DEF f
      <3>4. consumed_events' = [consumed_events EXCEPT ![nextReadIndex] = @ + 1]
        BY <1>13 DEF ReadEvent
      <3>5. consumed_events'[f.module_index] <= f.after_event
        <4>1. consumed_events \in [Modules -> Nat] /\ nextReadIndex \in Modules
          BY DEF TypeOK
        <4>2. CASE f.module_index = nextReadIndex
          BY <3>2, <3>3, <3>4, <4>1, <4>2
        <4>3. CASE f.module_index # nextReadIndex
          BY <3>2, <3>3, <3>4, <4>1, <4>3
        <4> QED
          BY <4>2, <4>3
      <3> QED
        BY <3>5 DEF f
    <2> QED
      BY <1>13, <2>1 DEF ReadEvent, FlushNotOvertaken
  <1>14. CASE ScanEnds
    BY <1>14 DEF ScanEnds, FlushNotOvertaken, writerVars, pollVars, callVars
  <1>15. CASE PollReturns
    BY <1>15 DEF PollReturns, FlushNotOvertaken, writerVars, pollVars, callVars
  <1>16. CASE PollWaits
    BY <1>16 DEF PollWaits, FlushNotOvertaken, writerVars, pollVars, callVars
  <1>17. CASE PollResumes
    BY <1>17 DEF PollResumes, FlushNotOvertaken, writerVars, pollVars, callVars
  <1>18. CASE PollSpuriousWakeup
    BY <1>18 DEF PollSpuriousWakeup, FlushNotOvertaken, writerVars, pollVars, callVars
  <1>19. ASSUME NEW h \in Handles, NEW enabled \in BOOLEAN, ActivateSubHal(h, enabled) PROVE FlushNotOvertaken'
    BY <1>19 DEF ActivateSubHal, FlushNotOvertaken, writerVars, pollVars, callVars
  <1>20. CASE ActivateRecords
    BY <1>20 DEF ActivateRecords, FlushNotOvertaken, writerVars, pollVars, callVars
  <1>21. ASSUME NEW h \in Handles, Flush(h) PROVE FlushNotOvertaken'
    <2> DEFINE F == [handle : Handles, module_index : Modules, after_event : Nat]
               m == get_module_index(h)
               f == [handle |-> h, module_index |-> m,
                     after_event |-> consumed_events[m] + PendingSize(queues[m])]
    <2>1. m \in Modules
      BY <1>21, ModuleOfHandle
    <2> HIDE DEF m
    <2>2. /\ consumed_events[m] \in Nat
          /\ queues[m].mSize \in Nat /\ queues[m].mPendingSize \in Nat
      <3>1. queues[m] \in Queue /\ consumed_events[m] \in Nat
        BY <2>1 DEF TypeOK
      <3> QED
        BY <3>1, CapacityAssumption DEF Queue
    <2>3. pending_flushes' = Append(pending_flushes, f) /\ consumed_events' = consumed_events
      BY <1>21 DEF Flush, m
    <2>4. f \in F /\ f.module_index = m /\ consumed_events[m] <= f.after_event
      BY <1>21, <2>1, <2>2 DEF PendingSize
    <2> HIDE DEF f
    <2>5. pending_flushes \in Seq(F)
      BY DEF TypeOK
    <2> HIDE DEF F
    <2>6. /\ DOMAIN pending_flushes' = 1 .. Len(pending_flushes) + 1
          /\ DOMAIN pending_flushes = 1 .. Len(pending_flushes) /\ Len(pending_flushes) \in Nat
          /\ pending_flushes'[Len(pending_flushes) + 1] = f
          /\ \A i \in 1 .. Len(pending_flushes) : pending_flushes'[i] = pending_flushes[i]
      BY <2>3, <2>4, <2>5
    <2>7. \A i \in DOMAIN pending_flushes' :
            i = Len(pending_flushes) + 1 \/ i \in DOMAIN pending_flushes
      BY <2>6
    <2> QED
      BY <2>3, <2>4, <2>6, <2>7 DEF FlushNotOvertaken
  <1>22. CASE UNCHANGED vars
    BY <1>22 DEF FlushNotOvertaken, vars, writerVars, pollVars, callVars
  <1> QED
    BY <1>1, <1>2, <1>3, <1>4, <1>5, <1>6, <1>7, <1>8, <1>9, <1>10, <1>11,
       <1>12, <1>13, <1>14, <1>15, <1>16, <1>17, <1>18, <1>19, <1>20, <1>21, <1>22
       DEF Next, WriterStep, PollStep, CallStep

\* Every step keeps poll() asleep only while there is nothing for it to do.
LEMMA PollOKStep ==
  ASSUME IInv, [Next]_vars
  PROVE  PollOK'
  <1> USE DEF IInv
  <1>1. ASSUME NEW m \in Modules, WaitForSpace(m) PROVE PollOK'
    BY <1>1 DEF WaitForSpace, PollOK, NoneReady, IsReady, writerVars, pollVars, callVars
  <1>2. ASSUME NEW m \in Modules, SubHalPoll(m) PROVE PollOK'
    BY <1>2 DEF SubHalPoll, PollOK, NoneReady, IsReady, writerVars, pollVars, callVars
  <1>3. ASSUME NEW m \in Modules, SubHalPollFails(m) PROVE PollOK'
    BY <1>3 DEF SubHalPollFails, PollOK, NoneReady, IsReady, writerVars, pollVars, callVars
  <1>4. ASSUME NEW m \in Modules, StartWrite(m) PROVE PollOK'
    <2>1. \A k \in Modules : queues'[k].mSize = queues[k].mSize
      BY <1>4 DEF StartWrite, TypeOK, Queue
    <2> QED
      BY <1>4, <2>1 DEF StartWrite, pollVars, PollOK, NoneReady, IsReady
  <1>5. ASSUME NEW m \in Modules, WriteSome(m) PROVE PollOK'
    <2>1. poller \notin {"scan", "tail"}
      BY <1>5, MultiHalAssumption DEF WriteSome, MutexHeld
    <2> QED
      BY <1>5, <2>1 DEF WriteSome, Poked, PollOK
  <1>6. ASSUME NEW m \in Modules, WriteWaits(m) PROVE PollOK'
    BY <1>6 DEF WriteWaits, PollOK, NoneReady, IsReady, writerVars, pollVars, callVars
  <1>7. ASSUME NEW m \in Modules, WriteResumes(m) PROVE PollOK'
    BY <1>7 DEF WriteResumes, PollOK, NoneReady, IsReady, writerVars, pollVars, callVars
  <1>8. ASSUME NEW m \in Modules, WriteReturns(m) PROVE PollOK'
    BY <1>8 DEF WriteReturns, PollOK, NoneReady, IsReady, writerVars, pollVars, callVars
  <1>9. ASSUME NEW m \in Modules, SpuriousWakeup(m) PROVE PollOK'
    BY <1>9 DEF SpuriousWakeup, PollOK, NoneReady, IsReady, writerVars, pollVars, callVars
  <1>10. CASE PollCall
    <2>1. \A m \in Modules : ~(Distance(m, nextReadIndex) <= 0)
      BY DistanceStep DEF TypeOK
    <2>2. maxReads' >= 1 /\ poller' = "scan"
      BY <1>10, MultiHalAssumption DEF PollCall
    <2>3. empties' = 0 /\ nextReadIndex' = nextReadIndex
      BY <1>10 DEF PollCall
    <2>4. \A m \in Modules : ~(Distance(m, nextReadIndex)' <= empties')
      BY <2>1, <2>3 DEF Distance
    <2> QED
      BY <2>2, <2>4 DEF PollOK
  <1>11. CASE EmitReadyFlush
    <2>1. PICK x : data' = Append(data, x)
      BY <1>11 DEF EmitReadyFlush, EmitFirst
    <2>2. data' # <<>>
      <3>1. data \in Seq([n : Nat, meta : BOOLEAN, handle : Handles \cup {UnknownHandle}])
        BY DEF TypeOK
      <3>2. Len(data') = Len(data) + 1 /\ Len(data) \in Nat
        BY <2>1, <3>1
      <3> QED
        BY <3>2
    <2>3. poller \in {"scan", "tail"}
      BY <1>11 DEF EmitReadyFlush, Scanning
    <2> QED
      BY <1>11, <2>2, <2>3 DEF EmitReadyFlush, PollOK
  <1>12. CASE SkipEmpty
    <2>1. poller = "scan" /\ empties \in Nat
      BY <1>12 DEF SkipEmpty, Scanning, TypeOK
    <2>2. ASSUME NEW m \in Modules, Distance(m, nextReadIndex') <= empties'
          PROVE  queues[m].mSize = 0
      <3>1. CASE m = nextReadIndex
        BY <1>12, <3>1 DEF SkipEmpty
      <3>2. CASE m # nextReadIndex
        <4>1. /\ Distance(m, nextReadIndex') = Distance(m, nextReadIndex) + 1
              /\ Distance(m, nextReadIndex) \in Nat
          BY <1>12, <3>2, DistanceStep DEF SkipEmpty, NextIndex, TypeOK
        <4>2. Distance(m, nextReadIndex) <= empties
          BY <1>12, <2>1, <2>2, <4>1 DEF SkipEmpty
        <4> QED
          BY <2>1, <4>2 DEF PollOK
      <3> QED
        BY <3>1, <3>2
    <2> QED
      BY <1>12, <2>1, <2>2 DEF SkipEmpty, PollOK
  <1>13. CASE ReadEvent
    <2>1. poller = "scan" /\ poller' = "scan" /\ empties' = 0 /\ maxReads' = maxReads
      BY <1>13 DEF ReadEvent, ReadGuard, Scanning
    <2>2. nextReadIndex' \in Modules
      BY <1>13, DistanceStep DEF ReadEvent, NextIndex, TypeOK
    <2>3. \A m \in Modules : ~(Distance(m, nextReadIndex') <= 0)
      BY <2>2, DistanceStep
    <2> QED
      BY <2>1, <2>3 DEF PollOK
  <1>14. CASE ScanEnds
    <2>1. data = <<>> => empties = NumModules
      <3>1. SUFFICES ASSUME data = <<>> PROVE empties = NumModules
        OBVIOUS
      <3>2. Len(data) = 0 /\ maxReads >= 1 /\ maxReads \in Int
        BY <1>14, <3>1, MultiHalAssumption DEF ScanEnds, PollOK, TypeOK
      <3>3. ~(empties < NumModules)
        BY <1>14, <3>2 DEF ScanEnds, Scanning
      <3> QED
        BY <3>3, MultiHalAssumption DEF TypeOK
    <2> QED
      BY <1>14, <2>1 DEF ScanEnds, PollOK
  <1>15. CASE PollReturns
    BY <1>15 DEF PollReturns, PollOK, NoneReady, IsReady, writerVars, pollVars, callVars
  <1>16. CASE PollWaits
    <2>1. \A m \in Modules : Distance(m, nextReadIndex) <= empties
      BY <1>16, DistanceStep, MultiHalAssumption DEF PollWaits, PollOK, TypeOK
    <2>2. \A m \in Modules : queues[m].mSize = 0
      BY <1>16, <2>1 DEF PollWaits, PollOK
    <2> QED
      BY <1>16, <2>2 DEF PollWaits, PollOK, NoneReady, IsReady
  <1>17. CASE PollResumes
    <2>1. \A m \in Modules : ~(Distance(m, nextReadIndex) <= 0)
      BY DistanceStep DEF TypeOK
    <2> QED
      BY <1>17, <2>1 DEF PollResumes, PollOK
  <1>18. CASE PollSpuriousWakeup
    BY <1>18 DEF PollSpuriousWakeup, PollOK, NoneReady, IsReady, writerVars, pollVars, callVars
  <1>19. ASSUME NEW h \in Handles, NEW enabled \in BOOLEAN, ActivateSubHal(h, enabled) PROVE PollOK'
    BY <1>19 DEF ActivateSubHal, PollOK, NoneReady, IsReady, writerVars, pollVars, callVars
  <1>20. CASE ActivateRecords
    BY <1>20 DEF ActivateRecords, PollOK, NoneReady, IsReady, writerVars, pollVars, callVars
  <1>21. ASSUME NEW h \in Handles, Flush(h) PROVE PollOK'
    <2>1. poller \notin {"scan", "tail"}
      BY <1>21, MultiHalAssumption DEF Flush, MutexHeld
    <2> QED
      BY <1>21, <2>1 DEF Flush, Poked, PollOK
  <1>22. CASE UNCHANGED vars
    BY <1>22 DEF vars, PollOK, NoneReady, IsReady, writerVars, pollVars, callVars
  <1> QED
    BY <1>1, <1>2, <1>3, <1>4, <1>5, <1>6, <1>7, <1>8, <1>9, <1>10, <1>11,
       <1>12, <1>13, <1>14, <1>15, <1>16, <1>17, <1>18, <1>19, <1>20, <1>21, <1>22
       DEF Next, WriterStep, PollStep, CallStep

\* Every step gives each ring its turn.
LEMMA TurnsStep ==
  ASSUME IInv, [Next]_vars
  PROVE  Turns'
  <1> USE DEF IInv
  <1>1. ASSUME NEW m \in Modules, WaitForSpace(m) PROVE Turns'
    BY <1>1 DEF WaitForSpace, Turns, writerVars, pollVars, callVars
  <1>2. ASSUME NEW m \in Modules, SubHalPoll(m) PROVE Turns'
    BY <1>2 DEF SubHalPoll, Turns, writerVars, pollVars, callVars
  <1>3. ASSUME NEW m \in Modules, SubHalPollFails(m) PROVE Turns'
    BY <1>3 DEF SubHalPollFails, Turns, writerVars, pollVars, callVars
  <1>4. ASSUME NEW m \in Modules, StartWrite(m) PROVE Turns'
    <2>1. \A k \in Modules : queues'[k].mSize = queues[k].mSize
      BY <1>4 DEF StartWrite, TypeOK, Queue
    <2> QED
      BY <1>4, <2>1 DEF StartWrite, pollVars, Turns
  <1>5. ASSUME NEW m \in Modules, WriteSome(m) PROVE Turns'
    <2>1. queues'[m].mSize > 0
      <3>1. /\ buffer[m] \in Seq(Event) /\ queues[m] \in Queue
            /\ consumed_events[m] \in Nat /\ polled[m] \in Nat
        BY DEF TypeOK
      <3>2. ThreadOK("write", buffer[m], queues[m], consumed_events[m], polled[m])
        BY <1>5 DEF WriteSome, Threads
      <3>3. WriteChunk(queues[m], buffer[m]).mSize > 0
        BY <1>5, <3>1, <3>2, ThreadAfterWriteChunk DEF WriteSome
      <3> QED
        BY <1>5, <3>3 DEF WriteSome, TypeOK
    <2>2. \A k \in Modules : k # m => queues'[k] = queues[k]
      BY <1>5 DEF WriteSome, TypeOK
    <2>3. UNCHANGED <<passed, nextReadIndex>>
      BY <1>5 DEF WriteSome
    <2>4. ASSUME NEW k \in Modules, queues'[k].mSize = 0 PROVE queues[k].mSize = 0
      <3>1. k # m
        BY <2>1, <2>4
      <3> QED
        BY <2>2, <2>4, <3>1
    <2> QED
      BY <2>3, <2>4 DEF Turns
  <1>6. ASSUME NEW m \in Modules, WriteWaits(m) PROVE Turns'
    BY <1>6 DEF WriteWaits, Turns, writerVars, pollVars, callVars
  <1>7. ASSUME NEW m \in Modules, WriteResumes(m) PROVE Turns'
    BY <1>7 DEF WriteResumes, Turns, writerVars, pollVars, callVars
  <1>8. ASSUME NEW m \in Modules, WriteReturns(m) PROVE Turns'
    BY <1>8 DEF WriteReturns, Turns, writerVars, pollVars, callVars
  <1>9. ASSUME NEW m \in Modules, SpuriousWakeup(m) PROVE Turns'
    BY <1>9 DEF SpuriousWakeup, Turns, writerVars, pollVars, callVars
  <1>10. CASE PollCall
    BY <1>10 DEF PollCall, Turns, writerVars, pollVars, callVars
  <1>11. CASE EmitReadyFlush
    BY <1>11 DEF EmitReadyFlush, Turns, writerVars, pollVars, callVars
  <1>12. CASE SkipEmpty
    <2>1. ASSUME NEW m \in Modules
          PROVE  passed[m] < Distance(m, nextReadIndex')
      <3>1. CASE m = nextReadIndex
        <4>1. Distance(m, nextReadIndex') = 1
          BY <1>12, <3>1, DistanceStep DEF SkipEmpty, NextIndex, TypeOK
        <4>2. passed[m] = 0
          BY <1>12, <3>1 DEF SkipEmpty, Turns
        <4> QED
          BY <4>1, <4>2
      <3>2. CASE m # nextReadIndex
        <4>1. /\ Distance(m, nextReadIndex') = Distance(m, nextReadIndex) + 1
              /\ Distance(m, nextReadIndex) \in Nat
          BY <1>12, <3>2, DistanceStep DEF SkipEmpty, NextIndex, TypeOK
        <4>2. passed[m] < Distance(m, nextReadIndex) /\ passed[m] \in Nat
          BY DEF Turns, TypeOK
        <4> QED
          BY <4>1, <4>2
      <3> QED
        BY <3>1, <3>2
    <2> QED
      BY <1>12, <2>1 DEF SkipEmpty, Turns
  <1>13. CASE ReadEvent
    <2>1. ASSUME NEW m \in Modules
          PROVE  /\ passed'[m] < Distance(m, nextReadIndex')
                 /\ queues'[m].mSize = 0 => passed'[m] = 0
      <3>1. CASE m = nextReadIndex
        <4>1. Distance(m, nextReadIndex') = 1
          BY <1>13, <3>1, DistanceStep DEF ReadEvent, NextIndex, TypeOK
        <4>2. passed'[m] = 0
          BY <1>13, <3>1 DEF ReadEvent
        <4> QED
          BY <4>1, <4>2
      <3>2. CASE m # nextReadIndex
        <4>1. /\ Distance(m, nextReadIndex') = Distance(m, nextReadIndex) + 1
              /\ Distance(m, nextReadIndex) \in 1 .. NumModules
          BY <1>13, <3>2, DistanceStep DEF ReadEvent, NextIndex, TypeOK
        <4>2. passed[m] < Distance(m, nextReadIndex) /\ passed[m] \in Nat
          BY DEF Turns, TypeOK
        <4>3. queues'[m] = queues[m]
          BY <1>13, <3>2 DEF ReadEvent, TypeOK
        <4>4. passed'[m] = IF queues[m].mSize > 0 THEN passed[m] + 1 ELSE 0
          BY <1>13, <3>2 DEF ReadEvent
        <4>5. queues[m].mSize = 0 => passed'[m] = 0
          BY <4>4
        <4>6. passed'[m] < Distance(m, nextReadIndex) + 1
          BY <4>1, <4>2, <4>4
        <4> QED
          BY <4>1, <4>3, <4>5, <4>6
      <3> QED
        BY <3>1, <3>2
    <2> QED
      BY <2>1 DEF Turns
  <1>14. CASE ScanEnds
    BY <1>14 DEF ScanEnds, Turns, writerVars, pollVars, callVars
  <1>15. CASE PollReturns
    BY <1>15 DEF PollReturns, Turns, writerVars, pollVars, callVars
  <1>16. CASE PollWaits
    BY <1>16 DEF PollWaits, Turns, writerVars, pollVars, callVars
  <1>17. CASE PollResumes
    BY <1>17 DEF PollResumes, Turns, writerVars, pollVars, callVars
  <1>18. CASE PollSpuriousWakeup
    BY <1>18 DEF PollSpuriousWakeup, Turns, writerVars, pollVars, callVars
  <1>19. ASSUME NEW h \in Handles, NEW enabled \in BOOLEAN, ActivateSubHal(h, enabled) PROVE Turns'
    BY <1>19 DEF ActivateSubHal, Turns, writerVars, pollVars, callVars
  <1>20. CASE ActivateRecords
    BY <1>20 DEF ActivateRecords, Turns, writerVars, pollVars, callVars
  <1>21. ASSUME NEW h \in Handles, Flush(h) PROVE Turns'
    BY <1>21 DEF Flush, Turns, writerVars, pollVars, callVars
  <1>22. CASE UNCHANGED vars
    BY <1>22 DEF vars, Turns, writerVars, pollVars, callVars
  <1> QED
    BY <1>1, <1>2, <1>3, <1>4, <1>5, <1>6, <1>7, <1>8, <1>9, <1>10, <1>11,
       <1>12, <1>13, <1>14, <1>15, <1>16, <1>17, <1>18, <1>19, <1>20, <1>21, <1>22
       DEF Next, WriterStep, PollStep, CallStep

-----------------------------------------------------------------------------
(* The theorems *)

\* The state open_sensors() leaves satisfies the invariant.
LEMMA InitIInv == Init => IInv
  <1> SUFFICES ASSUME Init PROVE IInv
    OBVIOUS
  <1>1. NewQueue \in Queue /\ NewQueue.mSize = 0 /\ NewQueue.mPendingSize = 0
    BY CapacityAssumption DEF NewQueue, Queue, Slots
  <1>2. nextReadIndex \in Modules
    BY MultiHalAssumption DEF Init, Modules
  <1>3. TypeOK
    BY <1>1, <1>2, MultiHalAssumption DEF Init, TypeOK
  <1>4. MutexHeld
    BY MultiHalAssumption DEF Init, MutexHeld
  <1>5. Threads
    BY <1>1, CapacityAssumption DEF Init, Threads, ThreadOK
  <1>6. FlushNotOvertaken
    BY DEF Init, FlushNotOvertaken
  <1>7. PollOK
    BY DEF Init, PollOK
  <1>8. Turns
    BY <1>2, DistanceStep DEF Init, Turns
  <1> QED
    BY <1>3, <1>4, <1>5, <1>6, <1>7, <1>8 DEF IInv

\* The invariant is inductive.
THEOREM MultiHalInvariant == Spec => []IInv
  <1>1. ASSUME IInv, [Next]_vars PROVE IInv'
    BY <1>1, TypeStep, MutexStep, ThreadsStep, FlushStep, PollOKStep, TurnsStep DEF IInv
  <1> QED
    BY <1>1, InitIInv, PTL DEF Spec

\* Every field of the context keeps its type.
THEOREM TypeCorrect == Spec => []TypeOK
  <1>1. IInv => TypeOK
    BY DEF IInv
  <1> QED
    BY <1>1, MultiHalInvariant, PTL

\* poll() consumes what a sub-HAL reports in order, nothing lost and nothing twice.
THEOREM Ordered == Spec => []EventsInOrder
  <1>1. IInv => EventsInOrder
    BY DEF IInv, Threads, ThreadOK, EventsInOrder
  <1> QED
    BY <1>1, MultiHalInvariant, PTL

\* poll() never passes the barrier of a flush it has not completed.
THEOREM FlushBarrier == Spec => []FlushNotOvertaken
  <1>1. IInv => FlushNotOvertaken
    BY DEF IInv
  <1> QED
    BY <1>1, MultiHalInvariant, PTL

\* Neither poll() nor a writer sleeps on work that is there.
THEOREM NoLostWakeup == Spec => []NoSleepOnWork
  <1>1. IInv => NoSleepOnWork
    BY DEF IInv, PollOK, Threads, ThreadOK, NoSleepOnWork
  <1> QED
    BY <1>1, MultiHalInvariant, PTL

\* No sub-HAL starves another.
THEOREM NoStarvation == Spec => []RoundRobin
  <1>1. ASSUME IInv PROVE RoundRobin
    <2> SUFFICES ASSUME NEW m \in Modules PROVE passed[m] < NumModules
      BY DEF RoundRobin
    <2>1. passed[m] < Distance(m, nextReadIndex) /\ passed[m] \in Nat
      BY <1>1 DEF IInv, Turns, TypeOK
    <2>2. Distance(m, nextReadIndex) \in 1 .. NumModules
      BY <1>1, DistanceStep DEF IInv, TypeOK
    <2> QED
      BY <2>1, <2>2, MultiHalAssumption
  <1> QED
    BY <1>1, MultiHalInvariant, PTL
=============================================================================
