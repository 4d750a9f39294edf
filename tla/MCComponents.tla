---------------------------- MODULE MCComponents ----------------------------
(***************************************************************************)
(* The components that share no state with one another, model-checked side *)
(* by side: a behaviour picks one of them at the start, the unit, and runs *)
(* that one alone; the variables of the others keep their initial values.  *)
(*                                                                         *)
(*   pcm       TinyPcm          tinyalsa's PCM handle (extended here)      *)
(*   parser    ConfigParser     the audio configuration's XML parser       *)
(*   mixer     MixerCtl         tinyalsa's mixer and its two users         *)
(*   hal       AudioHal         the audio HAL's streams, routes and voice  *)
(*   compress  CompressOut      compressed playback and its async thread   *)
(*   cond      CondVar          the condition variable of the shim library *)
(*   binder    CameraBinder     the camera proxies, stubs and parcels      *)
(*   params    CameraParams     the camera parameters                      *)
(*   metadata  MetadataBuffers  the ownership of camera metadata           *)
(*   sensors   SensorsOpen      opening the sensor multi-HAL               *)
(***************************************************************************)
EXTENDS TinyPcm, AudioConfigs, TLC

CONSTANTS Units    \* the components to check

VARIABLES
    unit,
    status, file, left, stack, cur, probe, cfg, ready,
    count, named, present, values, percent,
    cm, lock, voice, active, hal, todo,
    open, started, paused, refresh, mode, exit, published, caller, worker, job, out, owed,
    state, owner, items, asleep, old, pc,
    phase, transaction, parcel, answer, result, reader,
    map, pairs, lastSet, sets,
    mBuffer, mLocked, raw, heap, lost,
    loads, opens, modules, list, hasModules, hasList, modulesMutex, sensorsMutex, at, opened,
    context, held

parserVars == <<status, file, left, stack, cur, probe, cfg, ready>>
mixerVars == <<count, named, present, values, percent>>
halVars == <<cm, lock, voice, active, hal, todo>>
compressVars == <<open, started, paused, refresh, mode, exit, published, caller, worker,
                  job, out, owed>>
condVars == <<state, owner, items, asleep, old, pc>>
binderVars == <<phase, transaction, parcel, answer, result, reader>>
paramsVars == <<map, pairs, lastSet, sets>>
metadataVars == <<mBuffer, mLocked, raw, heap, lost>>
sensorsVars == <<loads, opens, modules, list, hasModules, hasList, modulesMutex, sensorsMutex,
                 at, opened, context, held>>

-----------------------------------------------------------------------------
\* Two files that may redirect to each other, one name of each kind, and arrays
\* that grow one by one and are full with two elements.
Parser == INSTANCE ConfigParser WITH
    Files <- {"a", "b"}, FirstFile <- "a", Codecs <- {"c"}, Codec <- "c",
    DeviceNames <- {"speaker"}, StreamNames <- {"global"}, StreamKinds <- {<<"pcm", "out">>},
    CtlKinds <- {"BYTE"}, PathNames <- {"p"}, VolumeFunctions <- {"leftvol"},
    MaxElements <- 6, Granule <- 1, MaxCount <- 2

\* A stereo volume, a byte array and an enumeration that appears late.
Mixer == INSTANCE MixerCtl WITH
    Card <- << [type |-> "INT", count |-> 2, min |-> -2, max |-> 14, items |-> 0],
               [type |-> "BYTE", count |-> 2, min |-> 0, max |-> 255, items |-> 0],
               [type |-> "ENUM", count |-> 1, min |-> 0, max |-> 0, items |-> 2] >>,
    Early <- 1, LeftVol <- 1, RightVol <- 1, Decibels <- {-58, -30, -1, 0}, W <- 12,
    Settings <- {1, 15}

\* The configuration in which every device has on and off paths; two HAL
\* streams at a time, or one with the voice trigger.
Hal == INSTANCE AudioHal WITH
    Devices <- FullDevices, Streams <- FullStreams, Ctls <- FullCtls, MissingCtls <- {"eq"},
    Outs <- {"o1", "o2"}, Ins <- {"i1"}, OutRoutes <- AllRoutes, InRoutes <- MicRoutes,
    VoiceMics <- DefaultMic,
    Groups <- {{"o1", "o2"}, {"o1", "i1"}, {"o1", "adev"}, {"i1", "adev"}}

Compress == INSTANCE CompressOut

\* Two threads on each side; the counter cannot wrap within one wait.
Cond == INSTANCE CondVar WITH
    Consumers <- {"c1", "c2"}, Producers <- {"p1", "p2"}, Flags <- 1, Counter <- 4

BinderCalls == INSTANCE CameraBinder WITH MaxList <- 2, MaxEvents <- 1, call <- transaction

\* Keys and values with and without the separators, numbers of either sign.
Params == INSTANCE CameraParams WITH
    Keys <- {<<"k">>, <<"j">>, <<"k", "=">>}, Values <- {<<>>, <<"v">>, <<"v", ";">>},
    Numbers <- {-1, 0, 12}, MaxSets <- 3, list <- pairs

Buffers == INSTANCE MetadataBuffers WITH
    Objects <- {"a", "b"}, Tags <- {"t"}, MaxBuffers <- 3, MaxEntries <- 2

\* Three sub-HALs, any of which may fail to load or to open; two callers.
Sensors == INSTANCE SensorsOpen WITH
    Threads <- {"t1", "t2"}, Libraries <- <<"a", "b", "c">>,
    SensorsOf <- [l \in {"a", "b", "c"} |-> IF l = "b" THEN 2 ELSE 1], pc <- at

-----------------------------------------------------------------------------
UnitsInit ==
    /\ unit \in Units
    /\ Init /\ Parser!Init /\ Mixer!Init /\ Compress!Init /\ Cond!Init /\ BinderCalls!Init
    /\ Params!Init /\ Buffers!Init /\ Sensors!Init /\ Hal!Init
    /\ unit # "hal" => todo["o1"] = <<>> /\ todo["o2"] = <<>>
    /\ unit # "sensors" => loads = {}
    /\ unit # "parser" => ready

UnitsNext ==
    /\ UNCHANGED unit
    /\ \/ unit = "pcm" /\ Next
       \/ unit # "pcm" /\ UNCHANGED vars
    /\ \/ unit = "parser" /\ Parser!Next
       \/ unit # "parser" /\ UNCHANGED parserVars
    /\ \/ unit = "mixer" /\ Mixer!Next
       \/ unit # "mixer" /\ UNCHANGED mixerVars
    /\ \/ unit = "hal" /\ Hal!Next
       \/ unit # "hal" /\ UNCHANGED halVars
    /\ \/ unit = "compress" /\ Compress!Next
       \/ unit # "compress" /\ UNCHANGED compressVars
    /\ \/ unit = "cond" /\ Cond!Next
       \/ unit # "cond" /\ UNCHANGED condVars
    /\ \/ unit = "binder" /\ BinderCalls!Next
       \/ unit # "binder" /\ UNCHANGED binderVars
    /\ \/ unit = "params" /\ Params!Next
       \/ unit # "params" /\ UNCHANGED paramsVars
    /\ \/ unit = "metadata" /\ Buffers!Next
       \/ unit # "metadata" /\ UNCHANGED metadataVars
    /\ \/ unit = "sensors" /\ Sensors!Next
       \/ unit # "sensors" /\ UNCHANGED sensorsVars

allVars == <<unit, vars, parserVars, mixerVars, compressVars, condVars, binderVars, paramsVars,
             metadataVars, sensorsVars, halVars>>

\* The fairness of each component, for the behaviours that run it.
UnitsSpec ==
    /\ UnitsInit /\ [][UnitsNext]_allVars
    /\ WF_vars(unit = "pcm" /\ Transfer) /\ WF_vars(unit = "pcm" /\ HwAdvance)
    /\ WF_parserVars(unit = "parser" /\ Parser!Load)
    /\ \A t \in {"c1", "c2", "p1", "p2"} :
          WF_condVars(unit = "cond" /\ Cond!Step(t)) /\ SF_condVars(unit = "cond" /\ Cond!Lock(t))

-----------------------------------------------------------------------------
(* The properties, as the components state them. *)

\* ConfigParser: the element stack of parse_section_start() never overflows.
StackInBounds == Parser!StackInBounds

\* ConfigParser: the references of parse_state.current are the open elements'.
CurrentIsEnclosing == Parser!CurrentIsEnclosing

\* ConfigParser: the paths that streams enable and disable were defined.
PathsResolve == Parser!PathsResolve

\* ConfigParser: parse_config_file() ends once the probe file exists.
LoadingEnds == unit = "parser" => Parser!LoadingEnds

\* TinyPcm: every pcm_mmap_read() returns, unless the device is suspended.
CaptureEnds == unit = "pcm" => CaptureReturns

\* MixerCtl: a volume change leaves the gain's share of the range in the control.
VolumeIsScaled == Mixer!VolumeIsScaled

\* MixerCtl: a setting with an index changes one value of one control.
OnlyIndexedValueChanges == Mixer!OnlyIndexedValueChanges

\* AudioHal: ref_count counts the owners of a configured stream.
RefCountsOwners == Hal!RefCountsOwners

\* AudioHal: a stream's enable and disable paths follow its route.
StreamPathsFollowRoutes == Hal!StreamPathsFollowRoutes

\* AudioHal: a device's on and off paths follow its use by all streams.
OnOffFollowUse == Hal!OnOffFollowUse

\* AudioHal: a voice capture in progress has an input stream that will end it.
CaptureHasOwner == Hal!CaptureHasOwner

\* AudioHal: a write reaches the driver only while the stream is routed.
WritesAreRouted == Hal!WritesAreRouted

\* CompressOut: a paused or started stream has its compress handle.
HandleOutlivesPause == Compress!HandleOutlivesPause

\* CompressOut: each callback answers one accepted request.
CallbackAnswersRequest == Compress!CallbackAnswersRequest

\* CondVar: no wake-up is lost.
EveryoneServed == unit = "cond" => Cond!EveryoneServed

\* CameraBinder: proxy and stub agree on every parcel.
ParcelsInStep == BinderCalls!ParcelsInStep

\* CameraBinder: success is reported only for what the service did.
SuccessIsReal == BinderCalls!SuccessIsReal

\* CameraParams: values and set order survive the flattening.
SettingsSurvive == Params!SettingsSurvive

\* CameraParams: formatted sizes parse back.
SizesReadBack == Params!SizesReadBack

\* MetadataBuffers: every live buffer has one owner.
OneOwner == Buffers!OneOwner

\* MetadataBuffers: what getAndLock() returned stays as it is.
LockedBufferStays == Buffers!LockedBufferStays

\* SensorsOpen: a handle reaches the sub-HAL that owns the sensor.
HandlesReachOwners == Sensors!HandlesReachOwners
=============================================================================
