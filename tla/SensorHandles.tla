--------------------------- MODULE SensorHandles ----------------------------
(***************************************************************************)
(* The handle maps of sensors/multihal.cpp.                                *)
(*                                                                         *)
(* lazy_init_sensors_list() gives the sensors of all sub-HALs the global   *)
(* handles 1, 2, ... in list order, so global_sensors_list is modelled as  *)
(* a sequence: the sensor with global handle h is SensorList[h].           *)
(***************************************************************************)
EXTENDS Integers, Sequences

CONSTANT SensorList   \* a sequence of [module, local, oneShot]

Handles == DOMAIN SensorList

UnknownHandle == -1

\* full_to_global: when a sub-HAL lists a local handle twice, the map keeps the
\* entry that was stored last.
GlobalHandles(m, local) ==
  {h \in Handles : SensorList[h].module = m /\ SensorList[h].local = local}

get_global_handle(m, local) ==
  IF GlobalHandles(m, local) = {}
    THEN UnknownHandle
    ELSE CHOOSE h \in GlobalHandles(m, local) : \A g \in GlobalHandles(m, local) : g <= h

get_module_index(h) == SensorList[h].module

IsOneShot(h) == SensorList[h].oneShot

\* copy_event_remap_handle(): what the client gets for event e of sub-HAL m.  The
\* handle stands for the sensor field of a normal event and for the nested
\* meta_data.sensor field of a meta-data event (whose own sensor field is 0).
copy_event_remap_handle(m, e) ==
  [n |-> e.n, meta |-> e.meta, handle |-> get_global_handle(m, e.local)]

\* The test of poll() that drops an event: only the outer sensor field is looked at.
DropsNothing(event) == FALSE
IsDropped(event) == ~event.meta /\ event.handle = UnknownHandle

\* The META_DATA_FLUSH_COMPLETE event of emit_ready_flushes().
FlushComplete(h) == [n |-> 0, meta |-> TRUE, handle |-> h]
=============================================================================
