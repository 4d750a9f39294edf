----------------------------- MODULE ConfigParser -----------------------------
(***************************************************************************)
(* Loading the audio configuration (configmgr/audio_config.c): the expat   *)
(* call-backs that turn <audiohal> into the devices, streams, paths and    *)
(* use cases AudioRoute works on, and the redirection of <codec_probe> to  *)
(* another file.                                                           *)
(*                                                                         *)
(* The document is the environment: at every point it may hold any element *)
(* or end the open one (expat, external, delivers well-nested events and   *)
(* reports malformed XML as an error).  An element that is not allowed     *)
(* here, a bad attribute, or a handler that returns an error all stop the  *)
(* parse in the same way, so one action, ParseError, stands for them and a *)
(* handler's early returns are the guards of its action.                   *)
(*                                                                         *)
(* parse_state.current is a record of references, not a stack; a reference *)
(* is the path of indices to the object (<<d, p>> is path p of device d).  *)
(* malloc() succeeds.                                                      *)
(***************************************************************************)
EXTENDS Integers, Sequences, TLC
LOCAL INSTANCE SequencesExt

CONSTANTS
    Files,           \* the XML files under /system/etc
    FirstFile,       \* "audio.<ro.product.device>.xml"
    Codecs,          \* codec names a <case> may list
    Codec,           \* the name the probe file holds
    DeviceNames,     \* of device_table; "global" is the dummy device
    StreamNames,     \* names a <stream> may have
    StreamKinds,     \* <<type, dir>> pairs a <stream> may give
    CtlKinds,        \* mixer control types, "missing" for an unknown control
    PathNames,       \* names of paths ("off" and "on" are predefined)
    VolumeFunctions, \* "leftvol", "rightvol"
    MaxElements,     \* bound: elements in one file
    Granule, MaxCount  \* DYN_ARRAY_GRANULE and 0xFFFF, scaled down

VARIABLES
    status,   \* "opening", "parsing", "probing", "loaded", "failed", "freed"
    file,     \* cur_xml_file
    left,     \* how many elements the current file may still hold
    stack,    \* the open elements; stack[1] is the document itself
    cur,      \* parse_state.current
    probe,    \* init_probe: file (seen), codec_case_array, new_xml_file
    cfg,      \* config_mgr, path_name_array and init_path
    ready     \* the probe file exists

vars == <<status, file, left, stack, cur, probe, cfg, ready>>

None == "none"
NULL == <<>>
InitPath == <<"init">>      \* &state->init_path
MAX_PARSE_DEPTH == 6
NO_PATH_ID == -1

\* A table that lets a case hold a use case.
SubElems_Nested == [e \in {"device", "stream", "path", "case", "usecase", "init", "mixer",
                       "audiohal", "codec_probe", "ctl", "enable", "disable", "stream_ctl",
                       "codec_case"} |->
    CASE e = "device" -> {"path"} [] e = "path" -> {"ctl"} [] e = "case" -> {"ctl", "usecase"}
      [] e = "stream" -> {"stream_ctl", "enable", "disable", "usecase"}
      [] e = "usecase" -> {"case"} [] e = "init" -> {"ctl"} [] e = "mixer" -> {"init"}
      [] e = "audiohal" -> {"mixer", "codec_probe"} [] e = "codec_probe" -> {"codec_case"}
      [] OTHER -> {}]

\* A table that lets controls hold controls.
SubElems_Controls == [SubElems_Nested EXCEPT !.case = {"ctl"}, !.ctl = {"ctl"}]

\* elem_table[].valid_subelem
SubElems ==
    [device |-> {"path"}, path |-> {"ctl"}, init |-> {"ctl"}, case |-> {"ctl"},
     stream |-> {"stream_ctl", "enable", "disable", "usecase"}, usecase |-> {"case"},
     mixer |-> {"init"}, audiohal |-> {"mixer", "codec_probe"},
     codec_probe |-> {"codec_case"},
     ctl |-> {}, stream_ctl |-> {}, enable |-> {}, disable |-> {}, codec_case |-> {}]

Document == [elem |-> None, valid |-> {"audiohal"}, obj |-> NULL]

NoCurrent == [device |-> NULL, stream |-> NULL, path |-> NULL, usecase |-> NULL, case |-> NULL,
              codec_probe |-> NULL]
NoProbe == [seen |-> FALSE, cases |-> <<>>, max |-> 0, new |-> None]
NoConfig == [mixer |-> FALSE, devices |-> <<>>, streams |-> <<>>, init |-> <<>>,
             names |-> <<"off", "on">>]

\* new_config_mgr(), init_state() and the calloc() of parse_config_file().
Init ==
    /\ status = "opening"
    /\ file = FirstFile
    /\ left = MaxElements
    /\ stack = <<Document>>
    /\ cur = NoCurrent
    /\ probe = NoProbe
    /\ cfg = NoConfig
    /\ ready \in BOOLEAN

\* cleanup_parser() frees parse_state; init_audio_config() frees the manager of
\* a load that failed.
CleanupParser ==
    /\ file' = None
    /\ left' = 0
    /\ stack' = <<Document>>
    /\ cur' = NoCurrent
    /\ probe' = NoProbe

Fail ==
    /\ status' = "failed"
    /\ CleanupParser
    /\ cfg' = NoConfig

-----------------------------------------------------------------------------
(* Dynamic arrays, names and control values. *)

\* dyn_array_extend(): the room an array of n elements has after one more, or
\* 0 when the 16-bit count of its room would wrap.
DynArrayExtend(n, max) ==
    IF n + 1 <= max THEN max ELSE IF max > MaxCount - Granule THEN 0 ELSE max + Granule

\* find_path_name(): the id of a name (ids count from 0), or NO_PATH_ID.
FindPathName(name) == LET i == SelectLastInSeq(cfg.names, LAMBDA x : x = name) IN i - 1

\* add_path_name() appends a name that is not there yet.
AddPathName(name) == IF FindPathName(name) # NO_PATH_ID THEN cfg.names ELSE Append(cfg.names, name)

\* ctl_open() on a control of the given kind: which type it records and what
\* the value union holds afterwards.  A control the card does not have keeps
\* its string for a later attempt.
CtlOpen(kind) ==
    [type |-> IF kind = "missing" THEN "UNKNOWN" ELSE kind,
     val |-> CASE kind \in {"BOOL", "INT"} -> "uinteger"
               [] kind = "BYTE" -> "data"        \* make_byte_array()
               [] OTHER -> "string"]

-----------------------------------------------------------------------------
(* parse_section_start(), parse_section_end() *)

Top == stack[Len(stack)]
Index == Len(stack) - 1          \* parse_state.stack.index

\* The start of an element: it is looked up among the ones valid here and
\* pushed; obj is the object its handler creates.
StartIn(st, e, obj) ==
    /\ status = "parsing" /\ left > 0
    /\ e \in Top.valid /\ Index < MAX_PARSE_DEPTH
    /\ left' = left - 1
    /\ stack' = Append(st, [elem |-> e, valid |-> SubElems[e], obj |-> obj])
    /\ UNCHANGED <<status, file, ready>>

Start(e, obj) == StartIn(stack, e, obj)

ParseAudiohalStart ==
    /\ Start("audiohal", NULL)
    /\ UNCHANGED <<cur, probe, cfg>>

\* parse_mixer_start() also replaces what <audiohal> may hold from now on.
ParseMixerStart ==
    /\ StartIn([stack EXCEPT ![Len(stack)].valid = {"device", "stream"}], "mixer", NULL)
    /\ cfg' = [cfg EXCEPT !.mixer = TRUE]
    /\ UNCHANGED <<cur, probe>>

\* parse_init_start(): <init> is a path that has no end handler.
ParseInitStart ==
    /\ Start("init", InitPath)
    /\ cur' = [cur EXCEPT !.path = InitPath]
    /\ UNCHANGED <<probe, cfg>>

\* parse_ctl_start(): into the current path if there is one, else into the
\* current case.  A control remembers the element it was written in.
ParseCtlStart(kind) ==
    LET ctl == CtlOpen(kind) @@ [owner |-> Top.obj]
        p == cur.path  c == cur.case
    IN  /\ Start("ctl", NULL)
        /\ cfg' = CASE p = InitPath -> [cfg EXCEPT !.init = Append(@, ctl)]
                    [] p \notin {NULL, InitPath} ->
                          [cfg EXCEPT !.devices[p[1]].paths[p[2]].ctls = Append(@, ctl)]
                    [] p = NULL -> [cfg EXCEPT !.streams[c[1]].usecases[c[2]][c[3]] =
                                                   Append(@, ctl)]
        /\ UNCHANGED <<cur, probe>>

\* parse_device_start(): a device other than the global one is defined once.
ParseDeviceStart(name) ==
    LET d == <<Len(cfg.devices) + 1>>
    IN  /\ name = "global" \/ \A i \in DOMAIN cfg.devices : cfg.devices[i].name # name
        /\ Start("device", d)
        /\ cfg' = [cfg EXCEPT !.devices = Append(@, [name |-> name, paths |-> <<>>])]
        /\ cur' = [cur EXCEPT !.device = d]
        /\ UNCHANGED probe

ParsePathStart(name) ==
    LET d == cur.device
        names == AddPathName(name)
        id == SelectLastInSeq(names, LAMBDA x : x = name) - 1
        p == Append(d, Len(cfg.devices[d[1]].paths) + 1)
    IN  /\ Start("path", p)
        /\ cfg' = [cfg EXCEPT !.names = names,
                              !.devices[d[1]].paths = Append(@, [id |-> id, ctls |-> <<>>])]
        /\ cur' = [cur EXCEPT !.path = p]
        /\ UNCHANGED probe

\* parse_stream_start(): a name is used once, only the global stream may leave
\* out its direction and an anonymous stream is not of type hw.  The card and
\* device numbers of a hw or global stream that gives none stay uninitialized.
ParseStreamStart(name, type, dir) ==
    LET s == <<Len(cfg.streams) + 1>>
        streamType == IF name = "global" THEN <<name>> ELSE <<type, dir>>
    IN  /\ name = None \/ \A i \in DOMAIN cfg.streams : cfg.streams[i].name # name
        /\ dir = None => name = "global"
        /\ type = "hw" => name # None
        /\ Start("stream", s)
        /\ cfg' = [cfg EXCEPT !.streams = Append(@,
                     [name |-> name, type |-> streamType, enable |-> NO_PATH_ID,
                      disable |-> NO_PATH_ID, volume |-> {}, usecases |-> <<>>])]
        /\ cur' = [cur EXCEPT !.stream = s]
        /\ UNCHANGED probe

\* An unknown path gets an id of its own, as in parse_path_start().
ParseEnableDisableStart_Adds(e, name) ==
    /\ Start(e, NULL)
    /\ cfg' = [cfg EXCEPT !.names = AddPathName(name),
                          !.streams[cur.stream[1]][e] = Len(AddPathName(name)) - 1]
    /\ UNCHANGED <<cur, probe>>

\* parse_enable_disable_start(), e being "enable" or "disable".
ParseEnableDisableStart(e, name) ==
    /\ FindPathName(name) # NO_PATH_ID
    /\ Start(e, NULL)
    /\ cfg' = [cfg EXCEPT !.streams[cur.stream[1]][e] = FindPathName(name)]
    /\ UNCHANGED <<cur, probe>>

\* parse_stream_ctl_start(): a volume control of the stream.
ParseStreamCtlStart(function) ==
    /\ Start("stream_ctl", NULL)
    /\ cfg' = [cfg EXCEPT !.streams[cur.stream[1]].volume = @ \cup {function}]
    /\ UNCHANGED <<cur, probe>>

ParseUsecaseStart ==
    LET s == cur.stream  u == Append(s, Len(cfg.streams[s[1]].usecases) + 1)
    IN  /\ Start("usecase", u)
        /\ cfg' = [cfg EXCEPT !.streams[s[1]].usecases = Append(@, <<>>)]
        /\ cur' = [cur EXCEPT !.usecase = u]
        /\ UNCHANGED probe

ParseCaseStart ==
    LET u == cur.usecase  c == Append(u, Len(cfg.streams[u[1]].usecases[u[2]]) + 1)
    IN  /\ Start("case", c)
        /\ cfg' = [cfg EXCEPT !.streams[u[1]].usecases[u[2]] = Append(@, <<>>)]
        /\ cur' = [cur EXCEPT !.case = c]
        /\ UNCHANGED probe

ParseCodecProbeStart ==
    /\ ~probe.seen
    /\ Start("codec_probe", <<"probe">>)
    /\ probe' = [probe EXCEPT !.seen = TRUE]
    /\ cur' = [cur EXCEPT !.codec_probe = <<"probe">>]
    /\ UNCHANGED cfg

ParseCodecCaseStart(codec, target) ==
    LET room == DynArrayExtend(Len(probe.cases), probe.max)
    IN  /\ room > 0
        /\ Start("codec_case", NULL)
        /\ probe' = [probe EXCEPT !.cases = Append(@, [codec |-> codec, file |-> target]),
                                  !.max = room]
        /\ UNCHANGED <<cur, cfg>>

\* parse_section_end(): only paths and cases clear their reference.
SectionEnd ==
    /\ status = "parsing" /\ Top.elem \notin {None, "codec_probe"}
    /\ stack' = Front(stack)
    /\ cur' = IF Top.elem \in {"path", "case"} THEN [cur EXCEPT ![Top.elem] = NULL] ELSE cur
    /\ UNCHANGED <<status, file, left, probe, cfg, ready>>

\* parse_codec_probe_end(): the case array is cut to size, then
\* probe_config_file() waits for the probe file.
CodecProbeEnd ==
    /\ status = "parsing" /\ Top.elem = "codec_probe"
    /\ stack' = Front(stack)
    /\ cur' = [cur EXCEPT !.codec_probe = NULL]
    /\ probe' = [probe EXCEPT !.max = Len(probe.cases)]
    /\ status' = "probing"
    /\ UNCHANGED <<file, left, cfg, ready>>

ProbeFileAppears ==
    /\ ~ready
    /\ ready' = TRUE
    /\ UNCHANGED <<status, file, left, stack, cur, probe, cfg>>

-----------------------------------------------------------------------------
(* probe_config_file() and the loop of parse_config_file() *)

\* The first case that names the codec wins; without one (or when the probe
\* file cannot be read) the current file goes on.  A file cannot redirect to
\* itself.  The cases of earlier files are still in the array.
ProbeConfigFile ==
    LET i == SelectInSeq(probe.cases, LAMBDA c : c.codec = Codec)
        new == IF i = 0 THEN None ELSE probe.cases[i].file
    IN  /\ status = "probing" /\ ready
        /\ \/ new = file /\ Fail
           \/ /\ new # file
              /\ status' = IF new = None THEN "parsing" ELSE "opening"
              /\ probe' = [probe EXCEPT !.new = new]
              /\ UNCHANGED <<file, left, stack, cur, cfg>>
        /\ UNCHANGED ready

ProbeReadFails ==
    /\ status = "probing" /\ ready
    /\ status' = "parsing"
    /\ UNCHANGED <<file, left, stack, cur, probe, cfg, ready>>

\* A file that starts with the parser's state cleared.
OpenConfigFile_Afresh ==
    /\ status = "opening"
    /\ status' = "parsing"
    /\ file' = IF probe.new = None THEN file ELSE probe.new
    /\ left' = MaxElements
    /\ stack' = <<Document>>
    /\ probe' = [seen |-> FALSE, cases |-> <<>>, max |-> 0, new |-> None]
    /\ UNCHANGED <<cur, cfg, ready>>

\* open_config_file() and the head of do_parse(): a new file starts with an
\* empty stack, but the rest of parse_state is kept.
OpenConfigFile ==
    /\ status = "opening"
    /\ \/ /\ status' = "parsing"
          /\ file' = IF probe.new = None THEN file ELSE probe.new
          /\ left' = MaxElements
          /\ stack' = <<Document>>
          /\ probe' = [probe EXCEPT !.seen = FALSE, !.new = None]
          /\ UNCHANGED <<cur, cfg>>
       \/ Fail
    /\ UNCHANGED ready

ParseError ==
    /\ status = "parsing"
    /\ Fail
    /\ UNCHANGED ready

\* The document is complete: the init path is applied and dropped with the
\* rest of the parser, the arrays are cut to size.
ParseDone ==
    /\ status = "parsing" /\ Index = 0 /\ left < MaxElements
    /\ status' = "loaded"
    /\ CleanupParser
    /\ cfg' = [cfg EXCEPT !.init = <<>>, !.names = NoConfig.names]
    /\ UNCHANGED ready

FreeAudioConfig ==
    /\ status = "loaded"
    /\ status' = "freed"
    /\ cfg' = NoConfig
    /\ UNCHANGED <<file, left, stack, cur, probe, ready>>

-----------------------------------------------------------------------------
SectionStart ==
    \/ ParseAudiohalStart
    \/ ParseMixerStart
    \/ ParseInitStart
    \/ \E kind \in CtlKinds : ParseCtlStart(kind)
    \/ \E name \in DeviceNames : ParseDeviceStart(name)
    \/ \E name \in PathNames : ParsePathStart(name)
    \/ \E name \in StreamNames \cup {None}, kind \in StreamKinds :
          ParseStreamStart(name, kind[1], kind[2])
    \/ \E e \in {"enable", "disable"}, name \in PathNames :
          ParseEnableDisableStart(e, name)
    \/ \E function \in VolumeFunctions : ParseStreamCtlStart(function)
    \/ ParseUsecaseStart
    \/ ParseCaseStart
    \/ ParseCodecProbeStart
    \/ \E codec \in Codecs, target \in Files : ParseCodecCaseStart(codec, target)

Load ==
    \/ OpenConfigFile
    \/ SectionStart
    \/ SectionEnd
    \/ CodecProbeEnd
    \/ ProbeConfigFile
    \/ ProbeReadFails
    \/ ParseError
    \/ ParseDone

Next ==
    \/ Load
    \/ ProbeFileAppears
    \/ FreeAudioConfig

\* The loading thread runs on; nothing is assumed of the probe file, nor of the
\* HAL being closed again.
Fairness == WF_vars(Load)
Spec == Init /\ [][Next]_vars /\ Fairness

-----------------------------------------------------------------------------
(* Properties *)

\* The push of parse_section_start() stays inside stack.entry[MAX_PARSE_DEPTH],
\* although its guard would let the index reach MAX_PARSE_DEPTH: elem_table
\* nests five deep at most, also after <mixer> has replaced what its parent
\* may hold.
StackInBounds == Index < MAX_PARSE_DEPTH

\* The comment on parse_state.current: one reference per type is enough, since
\* no object is nested below one of its type.  Whatever element is open, the
\* reference its children's handlers will dereference is the object of that
\* very element, though the references of ended elements are left behind.
CurrentIsEnclosing ==
    \A i \in DOMAIN stack :
        LET open == stack[i]
        IN  /\ open.elem \in DOMAIN cur => cur[open.elem] = open.obj
            /\ open.elem = "init" => cur.path = InitPath

\* "Paths must be defined before they can be referred to": each enable and
\* disable path of a stream is the id of a predefined name or of a path some
\* device of the same configuration defines, also after a redirection.
PathsResolve ==
    \A s \in DOMAIN cfg.streams : \A e \in {"enable", "disable"} :
        cfg.streams[s][e] > 1 =>
            \E d \in DOMAIN cfg.devices : \E p \in DOMAIN cfg.devices[d].paths :
                cfg.devices[d].paths[p].id = cfg.streams[s][e]

\* Once the probe file exists, loading ends: redirections from file to file
\* cannot go round for ever, because the first file's cases stay in front.
LoadingEnds == ready ~> status \in {"loaded", "failed", "freed"}
=============================================================================
