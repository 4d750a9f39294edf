------------------------------ MODULE AudioRoute ------------------------------
(***************************************************************************)
(* The configuration manager of the audio HAL (configmgr/audio_config.c)   *)
(* at run time: the mixer settings it writes, the use count of each device *)
(* and, for each stream of the configuration file, how many owners it has  *)
(* and the devices it is routed to.                                        *)
(*                                                                         *)
(* Everything here runs with config_mgr.lock held, so each operator is one *)
(* critical section: a function from the manager's state to its next       *)
(* state.  The one computation the code does before it takes the lock, the *)
(* two device masks of apply_route(), is RouteEnabling and RouteDisabling. *)
(*                                                                         *)
(* A device mask is the set of its bit numbers, bit 31 being               *)
(* AUDIO_DEVICE_BIT_IN: as in the C headers the same low bit names an      *)
(* output device without it and an input device with it.  The mixer is     *)
(* external (tinyalsa): a control accepts every value it is given, or does *)
(* not exist.                                                              *)
(***************************************************************************)
EXTENDS Integers, Sequences, FiniteSets
LOCAL INSTANCE FiniteSetsExt

CONSTANTS
    Devices,      \* <<[type, paths]>>: the <device> elements in file order; a
                  \* path is [id, ctls], a control setting [ctl, val]
    Streams,      \* <<[type, name, enable, disable, max, cases]>>: <stream>s
    Ctls,         \* the mixer controls the file names
    MissingCtls   \* those of them the card does not have

BIT_IN == 31
NoPath == "none"        \* enable_path or disable_path left at -1
NULL == 0               \* no stream; otherwise an index of Streams

StreamIds == DOMAIN Streams
IsInput(s) == Streams[s].type \in {"in_pcm", "in_compress", "in_hw"}

InitCm ==
    [mixer |-> [c \in Ctls |-> 0], use |-> [d \in DOMAIN Devices |-> 0],
     ref |-> [s \in StreamIds |-> 0], current |-> [s \in StreamIds |-> {}]]

-----------------------------------------------------------------------------
(* Applying settings. *)

\* apply_ctls_l(): the settings in order, up to the first control that
\* ctl_open() cannot find; the last one of a control stays.
ApplyCtls(mixer, ctls) ==
    LET missing == {i \in DOMAIN ctls : ctls[i].ctl \in MissingCtls}
        opened == {i \in DOMAIN ctls : \A m \in missing : i < m}
        Of(c) == {i \in opened : ctls[i].ctl = c}
    IN  [c \in DOMAIN mixer |-> IF Of(c) = {} THEN mixer[c] ELSE ctls[Max(Of(c))].val]

\* A path is applied even when the device is still used by another stream.
ApplyDevicePath_Uncounted(cm, d, path) ==
    [cm EXCEPT !.mixer = ApplyCtls(@, path.ctls)]

\* apply_device_path_l(): the on and off paths are reference counted, every
\* other path is always applied.
ApplyDevicePath(cm, d, path) ==
    LET used == cm.use[d] + CASE path.id = "on" -> 1 [] path.id = "off" -> -1 [] OTHER -> 0
        inUse == \/ path.id = "off" /\ used > 0
                 \/ path.id = "on" /\ used > 1
    IN  [cm EXCEPT !.use[d] = used,
                   !.mixer = IF inUse THEN @ ELSE ApplyCtls(@, path.ctls)]

\* The walk of apply_paths_by_id_l() over a device's paths: it stops once both
\* ids were met, and a later path with the same id replaces an earlier one.
FoundPath(paths, first, second, id) ==
    LET Met(n) == {first, second} \subseteq {paths[i].id : i \in 1..n}
        stops == {n \in DOMAIN paths : Met(n)}
        last == IF stops = {} THEN Len(paths) ELSE Min(stops)
        hits == {i \in 1..last : paths[i].id = id}
    IN  IF hits = {} THEN NULL ELSE Max(hits)

ApplyPathsById(cm, d, first, second) ==
    LET paths == Devices[d].paths
        Apply(c, id) ==
            LET i == FoundPath(paths, first, second, id)
            IN  IF i = NULL THEN c ELSE ApplyDevicePath(c, d, paths[i])
    IN  IF first = second THEN Apply(cm, first) ELSE Apply(Apply(cm, first), second)

\* The devices apply_paths_to_devices_l() visits for a mask: the ones of the
\* mask's direction (of both when it lacks BIT_IN) that still find one of their
\* bits in it, each device taking its bits from the ones after it in the file.
MatchedDevices(mask) ==
    LET able == {d \in DOMAIN Devices : mask \cap {BIT_IN} \subseteq Devices[d].type}
        Taken(d) == UNION {Devices[e].type : e \in {e \in able : e < d}}
    IN  {d \in able : ((Devices[d].type \cap mask) \ {BIT_IN}) \ Taken(d) # {}}

ApplyPathsToDevices(cm, mask, first, second) ==
    LET matched == MatchedDevices(mask)
        upTo[d \in 0..Len(Devices)] ==
            IF d = 0 THEN cm
            ELSE IF d \in matched THEN ApplyPathsById(upTo[d - 1], d, first, second)
            ELSE upTo[d - 1]
    IN  upTo[Len(Devices)]

\* apply_paths_to_global_l(): the device of type 0 is the global one.
ApplyPathsToGlobal(cm, first, second) ==
    LET global == {d \in DOMAIN Devices : Devices[d].type = {}}
    IN  IF global = {} THEN cm ELSE ApplyPathsById(cm, Min(global), first, second)

-----------------------------------------------------------------------------
(* apply_route() *)

\* Both masks are taken before the lock, from whatever current_devices holds.
RouteEnabling(cm, s, devices) == devices \ cm.current[s]
RouteDisabling(cm, s, devices) == cm.current[s] \ devices

\* "Attempting to set input routing on output stream" and the reverse.
RouteRefused(s, devices) == devices # {} /\ IsInput(s) # (BIT_IN \in devices)

\* A route that forgets to disable the devices the stream leaves.
RouteLocked_KeepsOld(cm, s, devices, enabling, disabling) ==
    [ApplyPathsToDevices(cm, enabling, "on", Streams[s].enable) EXCEPT !.current[s] = devices]

\* The locked part, with the masks computed before.
RouteLocked(cm, s, devices, enabling, disabling) ==
    LET c1 == ApplyPathsToDevices(cm, disabling, Streams[s].disable, "off")
        c2 == ApplyPathsToDevices(c1, enabling, "on", Streams[s].enable)
    IN  [c2 EXCEPT !.current[s] = devices]

-----------------------------------------------------------------------------
(* Opening and releasing streams. *)

\* open_stream_l() succeeds while the stream has instances left.
CanOpen(cm, s) == cm.ref[s] < Streams[s].max

OpenStream(cm, s) ==
    LET c1 == [cm EXCEPT !.ref[s] = @ + 1]
    IN  IF c1.ref[s] = 1 THEN ApplyPathsToGlobal(c1, "on", Streams[s].enable) ELSE c1

\* get_stream() tries the streams of the wanted type from the last one; the
\* type follows from the BIT_IN of the devices asked for and the format.
GetStream(cm, devices, pcm) ==
    LET type == IF BIT_IN \in devices
                THEN IF pcm THEN "in_pcm" ELSE "in_compress"
                ELSE IF pcm THEN "out_pcm" ELSE "out_compress"
        able == {s \in StreamIds : Streams[s].type = type /\ CanOpen(cm, s)}
    IN  IF able = {} THEN NULL ELSE Max(able)

\* find_named_stream() takes the first stream of that name.
FindNamedStream(name) ==
    LET named == {s \in StreamIds : Streams[s].name = name}
    IN  IF named = {} THEN NULL ELSE Min(named)

GetNamedStream(cm, name) ==
    LET s == FindNamedStream(name)
    IN  IF s # NULL /\ CanOpen(cm, s) THEN s ELSE NULL

\* release_stream(): the last owner disables what the stream still uses.
ReleaseStream(cm, s) ==
    LET c1 == [cm EXCEPT !.ref[s] = @ - 1]
        c2 == ApplyPathsToDevices(c1, c1.current[s], "off", Streams[s].disable)
        c3 == ApplyPathsToGlobal(c2, Streams[s].disable, "off")
    IN  IF c1.ref[s] = 0 THEN [c3 EXCEPT !.current[s] = {}] ELSE c1

\* apply_use_case(): the controls of the first matching case of the stream.
ApplyUseCase(cm, s, setting) ==
    LET hits == {i \in DOMAIN Streams[s].cases : Streams[s].cases[i].setting = setting}
    IN  IF hits = {} THEN cm
        ELSE [cm EXCEPT !.mixer = ApplyCtls(@, Streams[s].cases[Min(hits)].ctls)]
=============================================================================
