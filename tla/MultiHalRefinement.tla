------------------------- MODULE MultiHalRefinement -------------------------
(***************************************************************************)
(* The multihal implements FlushStream: a stream is the readable part of   *)
(* the ring, then what write() still has to copy, with the pending flushes *)
(* put back at the positions their after_event counters stand for.         *)
(***************************************************************************)
EXTENDS MultiHal

\* Events of m that write() has been given and poll() has not consumed.
HandedOver(m) ==
  Readable(queues[m]) \o SubSeq(buffer[m], 1, queues[m].mPendingSize)

\* The i-th pending flush of m stands behind the i - 1 earlier ones and behind the events
\* its barrier waits for.
Stream(m) ==
  LET events    == HandedOver(m)
      markers   == SelectSeq(pending_flushes, LAMBDA f : f.module_index = m)
      place(i)  == markers[i].after_event - consumed_events[m] + i
      before(p) == {i \in DOMAIN markers : place(i) < p}
  IN  [p \in 1 .. Len(events) + Len(markers) |->
         IF \E i \in DOMAIN markers : place(i) = p
           THEN [flush |-> markers[CHOOSE i \in DOMAIN markers : place(i) = p].handle]
           ELSE events[p - Cardinality(before(p))]]

\* The batch a writer holds before it enters write().
Held(m) == IF Writing(m) THEN <<>> ELSE buffer[m]

Promise == INSTANCE FlushStream
             WITH held <- [m \in Modules |-> Held(m)], stream <- [m \in Modules |-> Stream(m)]

\* The rings, the staging counter, the after_event barriers and the deque of pending
\* flushes together behave like one in-band stream per sub-HAL, as poll() and flush()
\* promise: completions are delivered exactly at their place among the events.
ImplementsFlushStream == Promise!Spec
=============================================================================
