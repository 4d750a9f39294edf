---------------------------- MODULE AudioConfigs ----------------------------
(***************************************************************************)
(* Configurations of the audio HAL for TLC: what an audio.<device>.xml     *)
(* holds, in the form of the constants of AudioRoute.                      *)
(***************************************************************************)
EXTENDS Integers, Sequences

InBit == 31        \* AUDIO_DEVICE_BIT_IN

Setting(ctl, val) == [ctl |-> ctl, val |-> val]
Path(id, ctls) == [id |-> id, ctls |-> ctls]
Switch(id, ctl, val) == Path(id, <<Setting(ctl, val)>>)

SPEAKER == {1}
HEADPHONE == {3}
HEADSET == {2}
MIC == {2, InBit}
HEADSET_IN == {4, InBit}
AllRoutes == {{}, SPEAKER, HEADPHONE}
MicRoutes == {{}, MIC}
DefaultMic == {{}}

\* Two output streams that share two devices, a recorder and a compressed
\* voice recognition stream that share the microphone, and a global device.
\* Every device has "on" and "off" paths; the
\* card lacks the control "eq" of a use case, which ends that use case there.
FullDevices == <<
    [type |-> {}, paths |-> <<Switch("on_out", "amp", 1), Switch("off_out", "amp", 0)>>],
    [type |-> SPEAKER, paths |-> <<Switch("on", "spk", 1), Switch("off", "spk", 0),
        Switch("on_out", "spk_out", 1), Switch("off_out", "spk_out", 0),
        Switch("on_fast", "spk_fast", 1), Switch("off_fast", "spk_fast", 0)>>],
    [type |-> HEADPHONE, paths |-> <<Switch("off", "hp", 0),
        Switch("on_out", "hp_out", 1), Switch("off_out", "hp_out", 0), Switch("on", "hp", 1)>>],
    [type |-> MIC, paths |-> <<Switch("on", "mic", 1), Switch("on_rec", "mic_rec", 1),
        Switch("off_rec", "mic_rec", 0), Switch("off", "mic", 0),
        Switch("on_voice", "mic_dsp", 1), Switch("off_voice", "mic_dsp", 0)>>]>>

FullStreams == <<
    [type |-> "hw", name |-> "global", enable |-> "none", disable |-> "none", max |-> 9,
     cases |-> <<>>],
    [type |-> "in_compress", name |-> "voice recognition", enable |-> "on_voice",
     disable |-> "off_voice", max |-> 9, cases |-> <<>>],
    [type |-> "in_pcm", name |-> "-", enable |-> "on_rec", disable |-> "off_rec", max |-> 1,
     cases |-> <<>>],
    [type |-> "out_pcm", name |-> "-", enable |-> "on_fast", disable |-> "off_fast", max |-> 1,
     cases |-> <<>>],
    [type |-> "out_pcm", name |-> "-", enable |-> "on_out", disable |-> "off_out", max |-> 1,
     cases |-> <<[setting |-> "boost",
                  ctls |-> <<Setting("amp", 1), Setting("eq", 1), Setting("amp", 0)>>]>>]>>

FullCtls == {"amp", "spk", "spk_out", "spk_fast", "hp", "hp_out", "mic", "mic_rec", "mic_dsp", "eq"}

\* audio/audio.mocha.xml, one control for each kind of setting: its devices in
\* file order, of which none has an "off" path, and its two streams, which have
\* no "instances" attribute.  "RxDP SRC Switch" is 1 for "Normal", 2 for
\* "Divided by 3"; "DSP Function Switch" is 1 for BuiltinMic, 2 for HeadsetMic.
MochaDevices == <<
    [type |-> SPEAKER, paths |-> <<Switch("on", "RxDP SRC Switch", 1),
        Switch("on_pcm", "Int Left Spk Switch", 1), Switch("off_pcm", "Int Left Spk Switch", 0)>>],
    [type |-> HEADPHONE, paths |-> <<Switch("on", "RxDP SRC Switch", 2),
        Switch("on_pcm", "Headphone Jack Switch", 1),
        Switch("off_pcm", "Headphone Jack Switch", 0)>>],
    [type |-> HEADSET, paths |-> <<Switch("on", "DRC Pre Boost", 14),
        Switch("on_pcm", "Headphone Jack Switch", 1),
        Switch("off_pcm", "Headphone Jack Switch", 0)>>],
    [type |-> HEADSET_IN, paths |-> <<
        Path("on_pcm_rec", <<Setting("DSP Function Switch", 2), Setting("Mic Jack Switch", 1)>>),
        Switch("off_pcm_rec", "Mic Jack Switch", 0)>>],
    [type |-> MIC, paths |-> <<
        Path("on", <<Setting("DSP Function Switch", 1), Setting("DRC Pre Boost", 14)>>),
        Switch("on_pcm_rec", "Int Mic Switch", 1), Switch("off_pcm_rec", "Int Mic Switch", 0)>>]>>

MochaStreams == <<
    [type |-> "out_pcm", name |-> "-", enable |-> "on_pcm", disable |-> "off_pcm", max |-> 9,
     cases |-> <<>>],
    [type |-> "in_pcm", name |-> "-", enable |-> "on_pcm_rec", disable |-> "off_pcm_rec",
     max |-> 9, cases |-> <<>>]>>

MochaCtls == {"RxDP SRC Switch", "Int Left Spk Switch", "Headphone Jack Switch", "DRC Pre Boost",
              "DSP Function Switch", "Mic Jack Switch", "Int Mic Switch"}
MochaOutRoutes == {SPEAKER, HEADPHONE}
MochaInRoutes == {MIC, HEADSET_IN}
=============================================================================
