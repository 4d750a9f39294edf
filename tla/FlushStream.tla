---------------------------- MODULE FlushStream -----------------------------
(***************************************************************************)
(* What the sensor multihal promises its client, without rings, counters   *)
(* or threads: the events of each sub-HAL and the flush requests for its   *)
(* sensors form one stream.  flush() puts a marker at the end of the       *)
(* stream, and what poll() hands out is always taken from the front of a   *)
(* stream.  A flush completion therefore follows every event handed over   *)
(* before the flush() call and precedes every later one.                   *)
(***************************************************************************)
EXTENDS SensorHandles

CONSTANT Modules

VARIABLES
  held,     \* per sub-HAL: the batch it reported last, not handed over yet
  stream,   \* per sub-HAL: events handed over and flush markers, oldest first
  data      \* the client's array of the current poll()

vars == <<held, stream, data>>

Marker(h) == [flush |-> h]

Init ==
  /\ held = [m \in Modules |-> <<>>]
  /\ stream = [m \in Modules |-> <<>>]
  /\ data = <<>>

Report(m) ==
  /\ held[m] = <<>> /\ held'[m] # <<>>
  /\ held' = [held EXCEPT ![m] = held'[m]]
  /\ UNCHANGED <<stream, data>>

HandOver(m) ==
  /\ held[m] # <<>>
  /\ stream' = [stream EXCEPT ![m] = @ \o held[m]]
  /\ held' = [held EXCEPT ![m] = <<>>]
  /\ UNCHANGED data

Flush(h) ==
  /\ ~IsOneShot(h)
  /\ stream' = [stream EXCEPT ![get_module_index(h)] = Append(@, Marker(h))]
  /\ UNCHANGED <<held, data>>

\* The client receives the front of a stream, or the front is an event without a
\* registered sensor and is dropped.
Deliver(m) ==
  /\ stream[m] # <<>>
  /\ stream' = [stream EXCEPT ![m] = Tail(@)]
  /\ LET front == Head(stream[m])
         event == IF "flush" \in DOMAIN front THEN FlushComplete(front.flush)
                  ELSE copy_event_remap_handle(m, front)
     IN  data' = IF IsDropped(event) THEN data ELSE Append(data, event)
  /\ UNCHANGED held

Return == data # <<>> /\ data' = <<>> /\ UNCHANGED <<held, stream>>

Next ==
  \/ \E m \in Modules : Report(m) \/ HandOver(m) \/ Deliver(m)
  \/ \E h \in Handles : Flush(h)
  \/ Return

Spec == Init /\ [][Next]_vars
=============================================================================
