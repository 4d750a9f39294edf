------------------------------- MODULE AudioHal -------------------------------
(***************************************************************************)
(* The audio HAL (audio/audio_hw.c) over the configuration manager: PCM    *)
(* output streams, PCM input streams (also the ones that capture through a *)
(* compressed channel), input source changes and the voice trigger state   *)
(* machine.                                                                *)
(*                                                                         *)
(* AudioFlinger (external) calls each HAL stream from one thread at a time *)
(* and the device functions from another, so a process is a HAL stream or  *)
(* the device.  A call runs its first critical section at once and leaves  *)
(* the rest in todo[p]: one entry for each later section, so the calls of  *)
(* different processes interleave wherever the code holds no common lock.  *)
(* lock is audio_device.lock; stream_*_common.lock is private to a process *)
(* and is not represented.  ALSA (external) may refuse to open a device    *)
(* node.  AudioFlinger gives a route together with every input source.     *)
(*                                                                         *)
(* malloc() succeeds, and the build is the one of audio/Android.mk, with   *)
(* compressed capture; compressed playback is module CompressOut.          *)
(***************************************************************************)
EXTENDS AudioRoute
LOCAL INSTANCE SequencesExt

CONSTANTS
    Outs, Ins,      \* the HAL output and input streams AudioFlinger may open
    OutRoutes,      \* the routes it gives an output stream, {} included
    InRoutes,       \* and an input stream
    VoiceMics,      \* values of "voice_trigger_mic" (AUDIO_DEVICE_IN_* masks)
    Groups          \* the sets of processes that run together in a behaviour;
                    \* {Procs} for all of them, smaller sets to bound a run

VARIABLES
    cm,        \* struct config_mgr
    lock,      \* the process that holds audio_device.lock, or Nobody
    voice,     \* voice_st, voice_trig_mic, voice_trig_stream; open: whether the
               \* trigger owns that stream (the code never clears the pointer)
    active,    \* active_voice_control: a HAL input stream or Nobody
    hal,       \* the HAL streams
    todo       \* what is left of each process's call

vars == <<cm, lock, voice, active, hal, todo>>

Adev == "adev"
Nobody == "nobody"
Hals == Outs \cup Ins
Procs == Hals \cup {Adev}

BUILTIN_MIC == {2, BIT_IN}
kVoiceTriggerStreamName == "voice trigger"
kVoiceRecogStreamName == "voice recognition"
VoiceStates == {"None", "TriggerIdle", "TriggerArmed", "TriggerFired", "RecogIdle",
                "RecogArmed", "RecogFired", "RecogAudio", "RecogReArm"}
VOICE_RECOGNITION == "voice_recognition"
Sources == {"unset", "mic", VOICE_RECOGNITION}

Closed == [open |-> FALSE, hw |-> NULL, standby |-> TRUE, handle |-> "none", src |-> "unset"]

\* adev_open(): the global stream is held for good, voice_trigger_init()
\* chooses the mode.
Init ==
    LET global == FindNamedStream("global")
    IN  /\ cm = IF global = NULL THEN InitCm ELSE OpenStream(InitCm, global)
        /\ lock = Nobody
        /\ voice = [st |-> IF FindNamedStream(kVoiceRecogStreamName) # NULL THEN "RecogIdle"
                           ELSE IF FindNamedStream(kVoiceTriggerStreamName) # NULL
                           THEN "TriggerIdle" ELSE "None",
                    mic |-> {}, stream |-> NULL, open |-> FALSE]
        /\ active = Nobody
        /\ hal = [p \in Hals |-> Closed]
        /\ \E group \in Groups :
               todo = [p \in Procs |-> IF p \in group THEN <<>> ELSE <<[op |-> "absent"]>>]

-----------------------------------------------------------------------------
(* The steps a call leaves for later. *)

Route(s, devices) == [op |-> "route", s |-> s, devices |-> devices]
Release(s) == [op |-> "release", s |-> s]
ReleaseVoice == [op |-> "releaseVoice"]
Unlock(st) == [op |-> "unlock", st |-> st]     \* voice_st = st, then unlock
Op(name) == [op |-> name]

\* stream_invoke_usecases(): a setting the stream does not know is ignored.
UseCase(s, setting) ==
    IF s # NULL /\ \E i \in DOMAIN Streams[s].cases : Streams[s].cases[i].setting = setting
    THEN <<[op |-> "usecase", s |-> s, setting |-> setting]>> ELSE <<>>
Idle(p) == todo[p] = <<>>
Next1(p, op) == todo[p] # <<>> /\ Head(todo[p]).op = op
Then(p, steps) == todo' = [todo EXCEPT ![p] = steps \o Tail(@)]
Start(p, steps) == Idle(p) /\ todo' = [todo EXCEPT ![p] = steps]

\* apply_route() before config_mgr.lock: the masks come from the routes of this
\* instant.
RouteRead(p) ==
    /\ Next1(p, "route")
    /\ LET r == Head(todo[p])
           apply == [op |-> "apply", s |-> r.s, devices |-> r.devices,
                     enabling |-> RouteEnabling(cm, r.s, r.devices),
                     disabling |-> RouteDisabling(cm, r.s, r.devices)]
       IN  Then(p, IF RouteRefused(r.s, r.devices) THEN <<>> ELSE <<apply>>)
    /\ UNCHANGED <<cm, lock, voice, active, hal>>

\* ... and with it.
RouteApply(p) ==
    /\ Next1(p, "apply")
    /\ LET r == Head(todo[p])
       IN  cm' = RouteLocked(cm, r.s, r.devices, r.enabling, r.disabling)
    /\ Then(p, <<>>)
    /\ UNCHANGED <<lock, voice, active, hal>>

DoRelease(p) ==
    /\ Next1(p, "release")
    /\ cm' = ReleaseStream(cm, Head(todo[p]).s)
    /\ Then(p, <<>>)
    /\ UNCHANGED <<lock, voice, active, hal>>

\* The release of do_voice_trigger_close_stream().
DoReleaseVoice(p) ==
    /\ Next1(p, "releaseVoice")
    /\ cm' = ReleaseStream(cm, voice.stream)
    /\ voice' = [voice EXCEPT !.open = FALSE]
    /\ Then(p, <<>>)
    /\ UNCHANGED <<lock, active, hal>>

DoUseCase(p) ==
    /\ Next1(p, "usecase")
    /\ cm' = ApplyUseCase(cm, Head(todo[p]).s, Head(todo[p]).setting)
    /\ Then(p, <<>>)
    /\ UNCHANGED <<lock, voice, active, hal>>

DoUnlock(p) ==
    /\ Next1(p, "unlock")
    /\ lock' = Nobody
    /\ voice' = [voice EXCEPT !.st = Head(todo[p]).st]
    /\ Then(p, <<>>)
    /\ UNCHANGED <<cm, active, hal>>

-----------------------------------------------------------------------------
(* PCM output streams. *)

\* adev_open_output_stream() and do_init_out_common(): the initial route is
\* applied without audio_device.lock.
OpenOutput(p, devices) ==
    LET s == GetStream(cm, devices, TRUE)
    IN  /\ ~hal[p].open
        /\ s # NULL
        /\ cm' = OpenStream(cm, s)
        /\ hal' = [hal EXCEPT ![p] = [Closed EXCEPT !.open = TRUE, !.hw = s]]
        /\ Start(p, <<Route(s, devices)>>)
        /\ UNCHANGED <<lock, voice, active>>

\* out_set_parameters(): the route, then the use cases.
OutSetParameters(p, devices, setting) ==
    /\ hal[p].open
    /\ lock = Nobody
    /\ lock' = p
    /\ Start(p, <<Route(hal[p].hw, devices)>> \o UseCase(hal[p].hw, setting)
                \o <<Op("unlockOut")>>)
    /\ UNCHANGED <<cm, voice, active, hal>>

UnlockOut(p) ==
    /\ Next1(p, "unlockOut")
    /\ lock' = Nobody
    /\ Then(p, <<>>)
    /\ UNCHANGED <<cm, voice, active, hal>>

\* do_out_pcm_standby() and do_in_pcm_standby()
PcmStandby(h) == IF h.standby THEN h ELSE [h EXCEPT !.standby = TRUE, !.handle = "none"]

OutPcmStandby(p) ==
    /\ hal[p].open /\ Idle(p)
    /\ hal' = [hal EXCEPT ![p] = PcmStandby(@)]
    /\ UNCHANGED <<cm, lock, voice, active, todo>>

\* A write that does not look at the routes.
OutPcmWrite_Unrouted(p) ==
    /\ hal[p].open
    /\ Start(p, <<Op("write")>>)
    /\ UNCHANGED <<cm, lock, voice, active, hal>>

\* out_pcm_write(): nothing is written while the stream has no route ...
OutPcmWrite(p) ==
    /\ hal[p].open
    /\ cm.current[hal[p].hw] # {}
    /\ Start(p, <<Op("write")>>)
    /\ UNCHANGED <<cm, lock, voice, active, hal>>

\* ... start_output_pcm() may fail, and leaves a closed handle behind.
OutPcmWritten(p, ready) ==
    /\ Next1(p, "write")
    /\ hal[p].standby \/ ready
    /\ hal' = [hal EXCEPT ![p] =
                   IF ~@.standby THEN @
                   ELSE IF ready THEN [@ EXCEPT !.standby = FALSE, !.handle = "open"]
                   ELSE [@ EXCEPT !.handle = "freed"]]
    /\ Then(p, <<>>)
    /\ UNCHANGED <<cm, lock, voice, active>>

\* do_close_out_pcm() and do_close_out_common()
CloseOutput(p) ==
    /\ hal[p].open
    /\ hal' = [hal EXCEPT ![p] = Closed]
    /\ Start(p, <<Release(hal[p].hw)>>)
    /\ UNCHANGED <<cm, lock, voice, active>>

-----------------------------------------------------------------------------
(* The voice trigger: voice_st and the stream it owns. *)

\* do_voice_trigger_open_stream() with the lock held, then voice_st = st.
VoiceOpenStream(name, st) ==
    LET s == GetNamedStream(cm, name)
        mic == IF voice.mic = {} THEN BUILTIN_MIC ELSE voice.mic
    IN  /\ lock' = Adev
        /\ cm' = IF s = NULL THEN cm ELSE OpenStream(cm, s)
        /\ voice' = [voice EXCEPT !.stream = s, !.open = (s # NULL)]
        /\ Then(Adev, (IF s = NULL THEN <<>> ELSE <<Route(s, mic)>>) \o <<Unlock(st)>>)

\* do_voice_trigger_close_stream() with the lock held, then voice_st = st.
VoiceCloseStream(st) ==
    (IF voice.stream = NULL THEN <<>> ELSE <<Route(voice.stream, {}), ReleaseVoice>>)
    \o <<Unlock(st)>>

\* adev_set_parameters() and voice_trigger_set_params(): the microphone is
\* stored without the lock, then the command runs, then the use cases of the
\* global stream.
AdevSetParameters(mic, command, setting) ==
    /\ Start(Adev, <<Op(command)>> \o UseCase(FindNamedStream("global"), setting))
    /\ voice' = [voice EXCEPT !.mic = mic]
    /\ UNCHANGED <<cm, lock, active, hal>>

\* "voice_trigger=1"
VoiceTriggerEnable ==
    /\ Next1(Adev, "enable") /\ lock = Nobody
    /\ \/ /\ voice.st \in {"TriggerIdle", "TriggerFired", "RecogIdle"}
          /\ IF voice.st = "RecogIdle" THEN VoiceOpenStream(kVoiceRecogStreamName, "RecogArmed")
             ELSE VoiceOpenStream(kVoiceTriggerStreamName, "TriggerArmed")
       \/ /\ voice.st \notin {"TriggerIdle", "TriggerFired", "RecogIdle"}
          /\ voice' = [voice EXCEPT !.st = IF @ = "RecogAudio" THEN "RecogReArm" ELSE @]
          /\ Then(Adev, <<>>)
          /\ UNCHANGED <<cm, lock>>
    /\ UNCHANGED <<active, hal>>

\* "voice_trigger=0": a recognition that has fired goes on until its audio ends.
VoiceTriggerDisable ==
    /\ Next1(Adev, "disable") /\ lock = Nobody
    /\ \/ /\ voice.st \in {"TriggerFired", "TriggerArmed", "RecogArmed"}
          /\ lock' = Adev
          /\ Then(Adev, VoiceCloseStream(IF voice.st = "RecogArmed" THEN "RecogIdle"
                                         ELSE "TriggerIdle"))
          /\ UNCHANGED voice
       \/ /\ voice.st \notin {"TriggerFired", "TriggerArmed", "RecogArmed"}
          /\ voice' = [voice EXCEPT !.st = IF @ = "RecogReArm" THEN "RecogAudio" ELSE @]
          /\ Then(Adev, <<>>)
          /\ UNCHANGED lock
    /\ UNCHANGED <<cm, active, hal>>

\* "voice_trigger=2"
VoiceTriggerTriggered ==
    /\ Next1(Adev, "triggered") /\ lock = Nobody
    /\ voice' = [voice EXCEPT !.st = CASE @ = "TriggerArmed" -> "TriggerFired"
                                       [] @ = "RecogArmed" -> "RecogFired"
                                       [] OTHER -> @]
    /\ Then(Adev, <<>>)
    /\ UNCHANGED <<cm, lock, active, hal>>

\* voice_trigger_audio_stream_name(): read without the lock.
VoiceStreamName ==
    IF voice.st \in {"None", "TriggerIdle", "TriggerArmed", "TriggerFired", "RecogFired"}
    THEN kVoiceRecogStreamName ELSE "none"

\* active_voice_control = p, then voice_trigger_audio_started_locked()
VoiceAudioStarted(p) ==
    /\ active' = p
    /\ voice' = [voice EXCEPT !.st = IF @ = "RecogFired" THEN "RecogAudio" ELSE @]
    /\ Then(p, <<>>)
    /\ UNCHANGED lock

\* The pointer is cleared and the state machine is not told.
VoiceAudioEnded_Silent(p) ==
    /\ active' = IF active = p THEN Nobody ELSE active
    /\ Then(p, <<>>)
    /\ UNCHANGED <<voice, lock>>

\* active_voice_control = NULL, then voice_trigger_audio_ended_locked(), for
\* the stream that is the active one.
VoiceAudioEnded(p) ==
    \/ /\ active = p /\ voice.st = "RecogAudio"
       /\ active' = Nobody
       /\ lock' = p
       /\ Then(p, VoiceCloseStream("RecogIdle"))
       /\ UNCHANGED voice
    \/ /\ active = p /\ voice.st # "RecogAudio"
       /\ active' = Nobody
       /\ voice' = [voice EXCEPT !.st = IF @ = "RecogReArm" THEN "RecogArmed" ELSE @]
       /\ Then(p, <<>>)
       /\ UNCHANGED lock
    \/ /\ active # p
       /\ Then(p, <<>>)
       /\ UNCHANGED <<active, voice, lock>>

-----------------------------------------------------------------------------
(* PCM input streams. *)

\* adev_open_input_stream(): no stream of the configuration is taken until the
\* input source is known.
OpenInput(p) ==
    /\ ~hal[p].open /\ Idle(p)
    /\ hal' = [hal EXCEPT ![p] = [Closed EXCEPT !.open = TRUE]]
    /\ UNCHANGED <<cm, lock, voice, active, todo>>

\* in_pcm_set_parameters() with a route only, or with the source in use.
InSetRouting(p, devices, setting) ==
    /\ hal[p].open
    /\ Start(p, (IF hal[p].hw = NULL THEN <<>> ELSE <<Route(hal[p].hw, devices)>>)
                \o UseCase(hal[p].hw, setting))
    /\ UNCHANGED <<cm, lock, voice, active, hal>>

\* in_pcm_set_parameters() with a new source: change_input_source_locked()
\* refuses it while the stream is active and looks up the stream name.
InSetSource(p, src, devices, setting) ==
    LET name == IF src = VOICE_RECOGNITION THEN VoiceStreamName ELSE "none"
    IN  /\ hal[p].open /\ hal[p].standby
        /\ src # hal[p].src
        /\ Start(p, <<[op |-> IF name = "none" THEN "getStream" ELSE "getNamed",
                       name |-> name, src |-> src, devices |-> devices,
                       setting |-> setting]>>)
        /\ UNCHANGED <<cm, lock, voice, active, hal>>

\* The old stream is forgotten instead of released.
InTakeStream_Leaks(p, s) ==
    LET c == Head(todo[p])
    IN  /\ cm' = OpenStream(cm, s)
        /\ hal' = [hal EXCEPT ![p].hw = s, ![p].src = c.src]
        /\ Then(p, <<Op(IF c.src = VOICE_RECOGNITION THEN "started" ELSE "ended"),
                     Route(s, c.devices)>> \o UseCase(s, c.setting))

\* The new stream s replaces the old one, then comes the section under
\* audio_device.lock, then the route and the use cases.
InTakeStream(p, s) ==
    LET c == Head(todo[p])
        old == hal[p].hw
    IN  /\ cm' = OpenStream(cm, s)
        /\ hal' = [hal EXCEPT ![p].hw = s, ![p].src = c.src]
        /\ Then(p, (IF old = NULL THEN <<>> ELSE <<Release(old)>>)
                   \o <<Op(IF c.src = VOICE_RECOGNITION THEN "started" ELSE "ended"),
                        Route(s, c.devices)>>
                   \o UseCase(s, c.setting))

\* get_named_stream(); without it the generic stream is tried.
InGetNamed(p) ==
    /\ Next1(p, "getNamed")
    /\ LET s == GetNamedStream(cm, Head(todo[p]).name)
       IN  \/ s # NULL /\ InTakeStream(p, s)
           \/ /\ s = NULL
              /\ Then(p, <<[Head(todo[p]) EXCEPT !.op = "getStream"]>>)
              /\ UNCHANGED <<cm, hal>>
    /\ UNCHANGED <<lock, voice, active>>

\* get_stream(); without it the source stays as it was.
InGetStream(p) ==
    /\ Next1(p, "getStream")
    /\ LET s == GetStream(cm, Head(todo[p]).devices, TRUE)
       IN  \/ s # NULL /\ InTakeStream(p, s)
           \/ s = NULL /\ Then(p, <<>>) /\ UNCHANGED <<cm, hal>>
    /\ UNCHANGED <<lock, voice, active>>

\* The section of change_input_source_locked() and do_close_in_common() under
\* audio_device.lock.
InVoiceSection(p) ==
    /\ lock = Nobody
    /\ \/ Next1(p, "started") /\ VoiceAudioStarted(p)
       \/ Next1(p, "ended") /\ VoiceAudioEnded(p)
    /\ UNCHANGED <<cm, hal>>

\* in_pcm_standby(): a stream without a source has nothing to close.
InStandby(h) == IF h.hw = NULL THEN h ELSE PcmStandby(h)

InPcmStandby(p) ==
    /\ hal[p].open /\ Idle(p)
    /\ hal' = [hal EXCEPT ![p] = InStandby(@)]
    /\ UNCHANGED <<cm, lock, voice, active, todo>>

\* in_pcm_read(): silence without a source or a route ...
InPcmRead(p) ==
    /\ hal[p].open /\ hal[p].hw # NULL
    /\ cm.current[hal[p].hw] # {}
    /\ Start(p, <<Op("read")>>)
    /\ UNCHANGED <<cm, lock, voice, active, hal>>

\* ... otherwise the device node is opened if need be.  A PCM node that does
\* not open leaves the stream in standby; do_open_compress_pcm_in() returns a
\* positive errno, which its caller takes for success.
InPcmReadDone(p, ready) ==
    /\ Next1(p, "read")
    /\ hal[p].standby \/ ready
    /\ hal' = [hal EXCEPT ![p] =
                   IF ~@.standby THEN @
                   ELSE IF ready THEN [@ EXCEPT !.standby = FALSE, !.handle = "open"]
                   ELSE IF Streams[@.hw].type = "in_compress" THEN [@ EXCEPT !.standby = FALSE]
                   ELSE @]
    /\ Then(p, <<>>)
    /\ UNCHANGED <<cm, lock, voice, active>>

\* do_close_in_pcm() and do_close_in_common()
CloseInput(p) ==
    /\ hal[p].open
    /\ hal' = [hal EXCEPT ![p] = Closed]
    /\ Start(p, <<Op("ended")>> \o IF hal[p].hw = NULL THEN <<>> ELSE <<Release(hal[p].hw)>>)
    /\ UNCHANGED <<cm, lock, voice, active>>

-----------------------------------------------------------------------------
\* The use case settings that mean something to one of the streams S, and one
\* that means nothing.
Settings(S) ==
    {"none"} \cup UNION {{Streams[s].cases[i].setting : i \in DOMAIN Streams[s].cases} : s \in S}
OutSettings == Settings({s \in StreamIds : ~IsInput(s)})
InSettings == Settings({s \in StreamIds : IsInput(s)})

Step(p) ==
    \/ RouteRead(p) \/ RouteApply(p) \/ DoRelease(p) \/ DoReleaseVoice(p)
    \/ DoUseCase(p) \/ DoUnlock(p)

OutStep(p) ==
    \/ \E devices \in OutRoutes : OpenOutput(p, devices)
    \/ \E devices \in OutRoutes, setting \in OutSettings : OutSetParameters(p, devices, setting)
    \/ UnlockOut(p) \/ OutPcmStandby(p) \/ OutPcmWrite(p) \/ CloseOutput(p)
    \/ \E ready \in BOOLEAN : OutPcmWritten(p, ready)

InStep(p) ==
    \/ OpenInput(p) \/ InPcmStandby(p) \/ InPcmRead(p) \/ CloseInput(p)
    \/ \E devices \in InRoutes, setting \in InSettings : InSetRouting(p, devices, setting)
    \/ \E src \in Sources \ {"unset"}, devices \in InRoutes \ {{}}, setting \in InSettings :
           InSetSource(p, src, devices, setting)
    \/ InGetNamed(p) \/ InGetStream(p) \/ InVoiceSection(p)
    \/ \E ready \in BOOLEAN : InPcmReadDone(p, ready)

AdevStep ==
    \/ \E mic \in VoiceMics, setting \in OutSettings,
          command \in {"enable", "disable", "triggered"} :
           AdevSetParameters(mic, command, setting)
    \/ VoiceTriggerEnable \/ VoiceTriggerDisable \/ VoiceTriggerTriggered

Next ==
    \/ \E p \in Procs : Step(p)
    \/ \E p \in Outs : OutStep(p)
    \/ \E p \in Ins : InStep(p)
    \/ AdevStep

Spec == Init /\ [][Next]_vars

-----------------------------------------------------------------------------
(* Properties *)

\* How many releases of stream s are still to come in the calls under way.
Releasing(s) ==
    Cardinality({p \in Procs : \E i \in DOMAIN todo[p] : todo[p][i] = Release(s)})

\* ref_count of open_stream_l() and release_stream() is exactly the number of
\* owners: HAL streams, the voice trigger and the device's global stream.  No
\* order of source changes, trigger commands and closes leaks a stream or
\* releases it twice.
RefCountsOwners ==
    \A s \in StreamIds :
        cm.ref[s] = Cardinality({p \in Hals : hal[p].hw = s}) + Releasing(s)
                    + (IF voice.open /\ voice.stream = s THEN 1 ELSE 0)
                    + (IF Streams[s].name = "global" THEN 1 ELSE 0)

\* What "stream s is connected to device d" means for a route: a bit of the
\* device's type, of the same direction.  The global device is connected to
\* every open stream.
Connected(c, s, d) ==
    IF Devices[d].type = {} THEN c.ref[s] > 0
    ELSE /\ (Devices[d].type \ {BIT_IN}) \cap c.current[s] # {}
         /\ BIT_IN \in Devices[d].type <=> BIT_IN \in c.current[s]

InUse(c, d) == \E s \in StreamIds : Connected(c, s, d)

\* The settings of path id of device d, and whether the mixer holds them all.
PathSettings(d, id) ==
    UNION {{Devices[d].paths[i].ctls[j] : j \in DOMAIN Devices[d].paths[i].ctls} :
           i \in {i \in DOMAIN Devices[d].paths : Devices[d].paths[i].id = id}}
Holds(c, settings) == \A x \in settings : c.mixer[x.ctl] = x.val

\* The devices that define both paths of a stream, with their settings.
StreamPaths ==
    {[s |-> s, d |-> d, on |-> PathSettings(d, Streams[s].enable),
      off |-> PathSettings(d, Streams[s].disable)] : s \in StreamIds, d \in DOMAIN Devices}
OnOffPaths ==
    {[d |-> d, on |-> PathSettings(d, "on"), off |-> PathSettings(d, "off")] :
     d \in DOMAIN Devices}
BothPaths == {x \in StreamPaths : x.on # {} /\ x.off # {}}

\* The pseudo-logic of audio/README for the stream paths: whatever the streams
\* went through, the enable settings of a stream hold on the devices it is
\* connected to, and its disable settings on the devices it has left.  A
\* stream that nobody owns is connected to nothing.
StreamPathsFollowRoutes ==
    /\ \A s \in StreamIds : cm.ref[s] = 0 => cm.current[s] = {}
    /\ \A x \in BothPaths : Holds(cm, IF Connected(cm, x.s, x.d) THEN x.on ELSE x.off)

\* The same for a device's own paths: while some stream is connected to the
\* device its "on" settings hold, and once the last one has left its "off"
\* settings do, however many streams share it.
OnOffFollowUse ==
    \A x \in OnOffPaths : Holds(cm, IF InUse(cm, x.d) THEN x.on ELSE x.off)

\* While a recognised phrase is being captured (RecogAudio, RecogReArm) some
\* input stream is active_voice_control, so that its close or its next source
\* change will end the capture and give the trigger's stream back.
CaptureHasOwner ==
    voice.st \in {"RecogAudio", "RecogReArm"} => active # Nobody \/ lock \in Ins

\* A PCM write reaches the driver only while the stream has a route, the state
\* the comment in out_pcm_write() asks for: no other call takes the route away
\* between the check and the write.
WritesAreRouted ==
    \A p \in Outs : Next1(p, "write") => cm.current[hal[p].hw] # {}
=============================================================================
