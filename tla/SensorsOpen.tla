----------------------------- MODULE SensorsOpen -----------------------------
(***************************************************************************)
(* How the sensors multi-HAL comes up (sensors/multihal.cpp): the lazy     *)
(* loading of the sub-HAL libraries, the lazy global sensor list with its  *)
(* global handles, and open_sensors(), on threads that call in any order.  *)
(*                                                                         *)
(* A sensor is named by the library that has it.  Each call ends in a      *)
(* "done" thread; the sub-HAL libraries are external.                      *)
(***************************************************************************)
EXTENDS Integers, SequencesExt

CONSTANTS
    Threads,       \* the framework's threads, one call each
    Libraries,     \* the lines of the config file, in order
    SensorsOf      \* library -> number of its sensors

Nobody == "nobody"
\* What methods->open() gives: an incomplete device lacks a method that is
\* needed, an unclosable one lacks close().
Opens == {"error", "no device", "incomplete", "unclosable", "ok"}

VARIABLES
    loads, opens,    \* the libraries dlopen() and dlsym() find; how they open
    modules,         \* sub_hw_modules, if not NULL
    list,            \* global_sensors_list in the order of handles, if not NULL
    hasModules, hasList,            \* whether they are not NULL
    modulesMutex, sensorsMutex,     \* the threads that hold them
    pc, opened,      \* a thread's place, and the devices it has open
    context,         \* sub_hw_devices of the device a thread was given, or <<>>
    held             \* the sub-HAL devices that are open, with their opener

vars == <<loads, opens, modules, list, hasModules, hasList, modulesMutex, sensorsMutex, pc, opened, context, held>>
inputs == <<loads, opens>>

Init ==
    /\ loads \in SUBSET ToSet(Libraries)
    /\ opens \in [loads -> Opens]
    /\ modules = <<>> /\ list = <<>> /\ hasModules = FALSE /\ hasList = FALSE
    /\ modulesMutex = Nobody /\ sensorsMutex = Nobody
    /\ pc = [t \in Threads |-> "start"]
    /\ opened = [t \in Threads |-> <<>>]
    /\ context = [t \in Threads |-> <<>>]
    /\ held = {}

Goto(t, l) == pc' = [pc EXCEPT ![t] = l]

\* get_so_paths() and the loop over it: the libraries that load keep their order.
Loaded == SelectSeq(Libraries, LAMBDA l : l \in loads)

\* open_sensors() or get_sensors_list() is called.
Call(t) ==
    /\ pc[t] = "start"
    /\ \E l \in {"open: modules", "list"} : Goto(t, l)
    /\ UNCHANGED <<inputs, modules, list, hasModules, hasList, modulesMutex, sensorsMutex, opened, context, held>>

\* lazy_init_modules(): whoever comes second finds the work done.
ModulesBegin(t) ==
    /\ pc[t] \in {"open: modules", "list: modules"}
    /\ modulesMutex = Nobody
    /\ modulesMutex' = t
    /\ hasModules' = TRUE
    /\ modules' = IF hasModules THEN modules ELSE Loaded
    /\ Goto(t, IF pc[t] = "open: modules" THEN "open: loaded" ELSE "list: loaded")
    /\ UNCHANGED <<inputs, list, hasList, sensorsMutex, opened, context, held>>

ModulesEnd(t) ==
    /\ pc[t] \in {"open: loaded", "list: loaded"}
    /\ modulesMutex' = Nobody
    /\ Goto(t, IF pc[t] = "list: loaded" THEN "list: build"
               ELSE IF modules = <<>> THEN "done" ELSE "open")
    /\ UNCHANGED <<inputs, modules, list, hasModules, hasList, sensorsMutex, opened, context, held>>

\* lazy_init_sensors_list()
ListBegin(t) ==
    /\ pc[t] \in {"list", "open: list"}
    /\ sensorsMutex = Nobody
    /\ IF hasList
         THEN /\ Goto(t, IF opened[t] = <<>> THEN "done" ELSE "context")
              /\ UNCHANGED sensorsMutex
         ELSE /\ sensorsMutex' = t
              /\ Goto(t, "list: modules")
    /\ UNCHANGED <<inputs, modules, list, hasModules, hasList, modulesMutex, opened, context, held>>

\* The sensors of the first module, then those of the second, ...; the global
\* handle of a sensor is its place, and its module is an index of modules.
Sensors ==
    FlattenSeq([i \in DOMAIN modules |->
                    [k \in 1..SensorsOf[modules[i]] |-> [module |-> i, owner |-> modules[i]]]])

ListBuild(t) ==
    /\ pc[t] = "list: build"
    /\ list' = Sensors /\ hasList' = TRUE
    /\ sensorsMutex' = Nobody
    /\ Goto(t, IF opened[t] = <<>> THEN "done" ELSE "context")
    /\ UNCHANGED <<inputs, modules, hasModules, modulesMutex, opened, context, held>>

\* A sub-HAL that does not open is left out.
OpenNext_Skips(t) ==
    /\ pc[t] = "open"
    /\ LET usable == SelectSeq(modules, LAMBDA l : opens[l] = "ok")
       IN  /\ opened' = [opened EXCEPT ![t] = usable]
           /\ held' = held \cup {<<l, t>> : l \in ToSet(usable)}
           /\ Goto(t, IF usable = <<>> THEN "done" ELSE "open: list")
    /\ UNCHANGED <<inputs, modules, list, hasModules, hasList, modulesMutex, sensorsMutex, context>>

\* One round of the loop over the sub-HALs.  A device that lacks a method is
\* among those to close.
OpenNext(t) ==
    /\ pc[t] = "open"
    /\ LET l == modules[Len(opened[t]) + 1]
           sub == opens[l] \in {"incomplete", "unclosable", "ok"}
       IN  /\ opened' = IF sub THEN [opened EXCEPT ![t] = Append(@, l)] ELSE opened
           /\ held' = IF sub THEN held \cup {<<l, t>>} ELSE held
           /\ Goto(t, IF opens[l] # "ok" THEN "close"
                      ELSE IF Len(opened[t]) + 1 = Len(modules) THEN "open: list"
                      ELSE "open")
    /\ UNCHANGED <<inputs, modules, list, hasModules, hasList, modulesMutex, sensorsMutex, context>>

CloseOpened(t) ==
    /\ pc[t] = "close"
    /\ held' = {d \in held : d[2] # t \/ opens[d[1]] = "unclosable"}
    /\ opened' = [opened EXCEPT ![t] = <<>>]
    /\ Goto(t, "done")
    /\ UNCHANGED <<inputs, modules, list, hasModules, hasList, modulesMutex, sensorsMutex, context>>

\* addSubHwDevice() for each of them, in order
MakeContext(t) ==
    /\ pc[t] = "context"
    /\ context' = [context EXCEPT ![t] = opened[t]]
    /\ Goto(t, "done")
    /\ UNCHANGED <<inputs, modules, list, hasModules, hasList, modulesMutex, sensorsMutex, opened, held>>

Next ==
    \E t \in Threads :
        \/ Call(t) \/ ModulesBegin(t) \/ ModulesEnd(t) \/ ListBegin(t) \/ ListBuild(t)
        \/ OpenNext(t) \/ CloseOpened(t) \/ MakeContext(t)

Spec == Init /\ [][Next]_vars

-----------------------------------------------------------------------------
(* Properties *)

\* Every device that open_sensors() returns serves the whole list: the sensor
\* with global handle h is asked of the sub-HAL that has it, because the index
\* a handle was given while the list was built is that of the sub-HAL's device,
\* whichever thread built the list and whichever sub-HALs failed.  And an open
\* that fails leaves no sub-HAL device open behind that can be closed.
HandlesReachOwners ==
    \A t \in Threads :
        /\ context[t] # <<>> =>
              /\ hasList
              /\ \A h \in DOMAIN list : /\ list[h].module \in DOMAIN context[t]
                                        /\ context[t][list[h].module] = list[h].owner
        /\ pc[t] = "done" /\ context[t] = <<>> => \A d \in held : d[2] # t \/ opens[d[1]] = "unclosable"
=============================================================================
