------------------------------- MODULE Camera3 -------------------------------
(***************************************************************************)
(* The Camera class of camera/Camera3Wrapper.cpp: a HAL 3.2 device on top  *)
(* of the stock HAL 3.0 device.                                            *)
(*                                                                         *)
(* initialize(), configure(), defaultRequest(), capture(), flush() and     *)
(* close() run one at a time under requestMutex; pc is the point that call *)
(* has reached.  result() and notify() run one at a time on threads of the *)
(* stock HAL under callbackMutex; cb is the point that callback has        *)
(* reached.  The two sides meet under stateMutex, whose critical sections  *)
(* are single actions; drain() gives it up while it waits.  A call that is *)
(* refused before it changes anything is no step.                          *)
(*                                                                         *)
(* The stock HAL is external: it keeps pointers to what it was given,      *)
(* answers what it accepted in any order, may fail any call, and its       *)
(* close() returns once no callback is running.                            *)
(***************************************************************************)
EXTENDS Naturals, FiniteSets

CONSTANTS
  Streams,      \* the client's camera3_stream_t objects
  Jpeg,         \* those of format BLOB; the others are processed
  Encoder,      \* those with GRALLOC_USAGE_HW_VIDEO_ENCODER
  Size,         \* [Streams -> width and height]
  Handles,      \* buffer_handle_t values of the client
  Templates,    \* request template types
  MaxConfigs,   \* bound: configure() calls that reach the stock HAL
  MaxFrames,    \* bound: capture() calls
  NoCallback    \* no callback holds callbackMutex

Numbers == 1 .. MaxFrames

ASSUME CameraAssumption ==
  /\ MaxConfigs \in Nat /\ MaxFrames \in Nat
  /\ Jpeg \subseteq Streams /\ Encoder \subseteq Streams
  /\ NoCallback \notin [step : {"deliver", "retire"}, number : 0 .. MaxFrames,
                        buffers : SUBSET Streams, metadata : BOOLEAN,
                        noMetadata : BOOLEAN, shutter : BOOLEAN]

VARIABLES
  \* fields of Camera.  A Stream object is named by the configure() call that made it:
  \* streams holds those of call number config, buffers the handles they pin.
  vendor, clientCallbacks, streams, config, buffers, failedStreams, frames, frame,
  templates, lastSettings, fatal, closing,
  \* the call that holds requestMutex: its point and its arguments
  pc, next, request,
  \* the callback that holds callbackMutex
  cb,
  \* the stock HAL: the configure() calls whose Stream objects it points to, the
  \* <<stream, handle>> pairs registered with it, what it still owes for each frame
  stockStreams, stockBuffers, owed,
  \* history: calls so far, streams of each accepted request, what the client was told
  configs, captures, accepted, got

requestVars == <<next, request, configs, captures>>
streamVars  == <<streams, config, buffers, failedStreams>>
frameVars   == <<frames, frame>>
stockVars   == <<vendor, stockStreams, stockBuffers>>
clientVars  == <<accepted, got>>
settingVars == <<clientCallbacks, templates, lastSettings, closing>>
vars == <<requestVars, streamVars, frameVars, stockVars, clientVars, settingVars,
          fatal, pc, cb, owed>>

NoBuffers == [s \in Streams |-> {}]
Nothing   == [buffers |-> {}, metadata |-> FALSE, shutter |-> FALSE]

\* camera3_device_open() has opened the stock device.
Init ==
  /\ vendor = TRUE /\ clientCallbacks = FALSE
  /\ streams = {} /\ config = 0 /\ buffers = NoBuffers /\ failedStreams = {}
  /\ frames = {}
  /\ frame = [n \in Numbers |-> [remaining |-> {}, metadataDone |-> FALSE, shutterDone |-> FALSE]]
  /\ templates = {} /\ lastSettings = FALSE /\ fatal = FALSE /\ closing = FALSE
  /\ pc = "idle" /\ next = {} /\ request = [buffers |-> <<>>, settings |-> FALSE]
  /\ cb = NoCallback
  /\ stockStreams = {} /\ stockBuffers = {} /\ owed = [n \in Numbers |-> Nothing]
  /\ configs = 0 /\ captures = 0
  /\ accepted = [n \in Numbers |-> {}] /\ got = [n \in Numbers |-> Nothing]

\* The state check of configure() and capture().
Usable == ~fatal /\ ~closing /\ clientCallbacks

\* drained.notify_all()
Notified(p) == CASE p = "drainWait" -> "drain" [] p = "flushWait" -> "flush" [] OTHER -> p

-----------------------------------------------------------------------------
(* initialize() and defaultRequest() *)

Initialize ==
  /\ pc = "idle" /\ ~clientCallbacks
  /\ clientCallbacks' = TRUE
  /\ UNCHANGED <<requestVars, streamVars, frameVars, stockVars, clientVars, templates,
                 lastSettings, closing, fatal, pc, cb, owed>>

\* The first call for a template clones and normalises the stock one.
DefaultRequest(t) ==
  /\ pc = "idle" /\ vendor /\ t \notin templates
  /\ templates' = templates \cup {t}
  /\ UNCHANGED <<requestVars, streamVars, frameVars, stockVars, clientVars,
                 clientCallbacks, lastSettings, closing, fatal, pc, cb, owed>>

-----------------------------------------------------------------------------
(* configure() *)

ValidConfiguration(S) ==
  /\ S # {}
  /\ Cardinality(S \ Jpeg) <= 3 /\ Cardinality(S \cap Jpeg) <= 1

processedGeometry(S) == {Size[s] : s \in S \ (Jpeg \cup Encoder)}

\* The checks, the new Stream objects, and whether the stock device must be restarted.
Configure(S) ==
  /\ pc = "idle" /\ Usable /\ frames = {}
  /\ ValidConfiguration(S) /\ configs < MaxConfigs
  /\ next' = S /\ configs' = configs + 1
  /\ pc' = IF streams # {} /\ processedGeometry(streams) # processedGeometry(S)
             THEN "reopen" ELSE "configure"
  /\ UNCHANGED <<request, captures, streamVars, frameVars, stockVars, clientVars,
                 settingVars, fatal, cb, owed>>

\* reopenVendor() closes the stock device.
ReopenCloses ==
  /\ pc = "reopen" /\ cb = NoCallback
  /\ vendor' = FALSE /\ stockStreams' = {} /\ stockBuffers' = {}
  /\ owed' = [n \in Numbers |-> Nothing]
  /\ pc' = "reopening"
  /\ UNCHANGED <<requestVars, streamVars, frameVars, clientVars, settingVars, fatal, cb>>

ReopenClearsTemplates ==
  /\ pc = "reopening"
  /\ vendor' = TRUE /\ templates' = {}
  /\ pc' = "configure"
  /\ UNCHANGED <<requestVars, streamVars, frameVars, clientVars, clientCallbacks, lastSettings,
                 closing, fatal, cb, owed, stockStreams, stockBuffers>>

ReopenSucceeds ==
  /\ pc = "reopening"
  /\ vendor' = TRUE
  /\ pc' = "configure"
  /\ UNCHANGED <<requestVars, streamVars, frameVars, clientVars, settingVars, fatal, cb, owed,
                 stockStreams, stockBuffers>>

ReopenFailsQuietly ==
  /\ pc = "reopening"
  /\ failedStreams' = failedStreams \cup {configs}
  /\ pc' = "idle"
  /\ UNCHANGED <<requestVars, streams, config, buffers, frameVars, stockVars, clientVars,
                 settingVars, fatal, cb, owed>>

\* open() or initialize() of the stock HAL fails, or it lacks an operation.
ReopenFails ==
  /\ pc = "reopening"
  /\ failedStreams' = failedStreams \cup {configs}
  /\ fatal' = TRUE
  /\ pc' = "idle"
  /\ UNCHANGED <<requestVars, streams, config, buffers, frameVars, stockVars, clientVars,
                 settingVars, cb, owed>>

\* The stock HAL takes the new streams and unlinks the old ones.
StockConfigures ==
  /\ pc = "configure"
  /\ stockStreams' = {configs} /\ stockBuffers' = {}
  /\ pc' = "swap"
  /\ UNCHANGED <<requestVars, streamVars, frameVars, vendor, clientVars, settingVars, fatal,
                 cb, owed>>

RejectedStreamsReleased == UNCHANGED failedStreams
RejectedStreams == failedStreams' = failedStreams \cup {configs}

\* The stock HAL rejects the streams, but may have adopted some of them.
StockRejects ==
  /\ pc = "configure"
  /\ stockStreams' \in {stockStreams, stockStreams \cup {configs}, {configs}}
  /\ RejectedStreams
  /\ fatal' = TRUE
  /\ pc' = "idle"
  /\ UNCHANGED <<requestVars, streams, config, buffers, frameVars, vendor, stockBuffers,
                 clientVars, settingVars, cb, owed>>

\* streams.swap(next), which releases the old Stream objects and their handles.
Swap ==
  /\ pc = "swap"
  /\ streams' = next /\ config' = configs /\ buffers' = NoBuffers
  /\ lastSettings' = FALSE
  /\ pc' = "idle"
  /\ UNCHANGED <<requestVars, failedStreams, frameVars, stockVars, clientVars,
                 clientCallbacks, templates, closing, fatal, cb, owed>>

-----------------------------------------------------------------------------
(* capture(), flush() and drain() *)

\* Requests name streams of the current configuration, a buffer for each.
Requests == UNION {[S -> Handles] : S \in (SUBSET streams) \ {{}}}

\* Streams of the request whose buffer the stock HAL has not seen.
NewBuffers == {s \in DOMAIN request.buffers : request.buffers[s] \notin buffers[s]}

Capture(r, settings) ==
  /\ pc = "idle" /\ Usable /\ captures < MaxFrames
  /\ captures' = captures + 1
  /\ request' = [buffers |-> r, settings |-> settings]
  /\ pc' = IF \E s \in DOMAIN r : r[s] \notin buffers[s] THEN "drain" ELSE "submit"
  /\ UNCHANGED <<next, configs, streamVars, frameVars, stockVars, clientVars, settingVars,
                 fatal, cb, owed>>

FlushCall ==
  /\ pc = "idle"
  /\ pc' = "flush"
  /\ UNCHANGED <<requestVars, streamVars, frameVars, stockVars, clientVars, settingVars, fatal,
                 cb, owed>>

\* drain() tests its predicate, before it waits and after each wakeup.
DrainReady == frames = {} \/ fatal
DrainTests ==
  /\ pc \in {"drain", "flush"}
  /\ pc' = CASE ~DrainReady -> IF pc = "drain" THEN "drainWait" ELSE "flushWait"
             [] frames = {} /\ ~fatal /\ pc = "drain" -> "register"
             [] OTHER -> "idle"
  /\ UNCHANGED <<requestVars, streamVars, frameVars, stockVars, clientVars, settingVars, fatal,
                 cb, owed>>

DrainSpuriousWakeup ==
  /\ pc # Notified(pc)
  /\ pc' = Notified(pc)
  /\ UNCHANGED <<requestVars, streamVars, frameVars, stockVars, clientVars, settingVars, fatal,
                 cb, owed>>

\* Three seconds have passed and the predicate does not hold: -ETIMEDOUT.
DrainTimesOut ==
  /\ pc \in {"drainWait", "flushWait"} /\ ~DrainReady
  /\ pc' = "idle"
  /\ UNCHANGED <<requestVars, streamVars, frameVars, stockVars, clientVars, settingVars, fatal,
                 cb, owed>>

\* One new buffer is pinned; the stock HAL is given the whole set of its stream.
Register(s) ==
  /\ pc = "register" /\ s \in NewBuffers
  /\ buffers' = [buffers EXCEPT ![s] = @ \cup {request.buffers[s]}]
  /\ stockBuffers' = {b \in stockBuffers : b[1] # s} \cup ({s} \X buffers'[s])
  /\ pc' = IF NewBuffers = {s} THEN "submit" ELSE "register"
  /\ UNCHANGED <<requestVars, streams, config, failedStreams, frameVars, vendor, stockStreams,
                 clientVars, settingVars, fatal, cb, owed>>

\* gralloc refuses the buffer.
RegisterFails ==
  /\ pc = "register"
  /\ pc' = "idle"
  /\ UNCHANGED <<requestVars, streamVars, frameVars, stockVars, clientVars, settingVars, fatal,
                 cb, owed>>

\* The stock HAL refuses the set: it has dropped the old one and may hold the new one.
StockRegisterFails(s) ==
  /\ pc = "register" /\ s \in NewBuffers
  /\ buffers' = [buffers EXCEPT ![s] = @ \cup {request.buffers[s]}]
  /\ LET others == {b \in stockBuffers : b[1] # s}
     IN  stockBuffers' \in {others, others \cup ({s} \X buffers'[s])}
  /\ fatal' = TRUE
  /\ pc' = "idle"
  /\ UNCHANGED <<requestVars, streams, config, failedStreams, frameVars, vendor, stockStreams,
                 clientVars, settingVars, cb, owed>>

\* The settings are normalised and remembered, and the frame is entered in frames.
Submit ==
  /\ pc = "submit" /\ (request.settings \/ lastSettings)
  /\ lastSettings' = TRUE
  /\ frames' = frames \cup {captures}
  /\ frame' = [frame EXCEPT ![captures] = [remaining    |-> DOMAIN request.buffers,
                                           metadataDone |-> FALSE, shutterDone |-> FALSE]]
  /\ pc' = "process"
  /\ UNCHANGED <<requestVars, streamVars, stockVars, clientVars, clientCallbacks, templates,
                 closing, fatal, cb, owed>>

\* No settings yet, or settings that cannot be normalised: -EINVAL.
SubmitRefused ==
  /\ pc = "submit" /\ (request.settings \/ ~lastSettings)
  /\ pc' = "idle"
  /\ UNCHANGED <<requestVars, streamVars, frameVars, stockVars, clientVars, settingVars, fatal,
                 cb, owed>>

StockAccepts ==
  /\ pc = "process"
  /\ owed' = [owed EXCEPT ![captures] = [buffers |-> DOMAIN request.buffers,
                                         metadata |-> TRUE, shutter |-> TRUE]]
  /\ accepted' = [accepted EXCEPT ![captures] = DOMAIN request.buffers]
  /\ pc' = "idle"
  /\ UNCHANGED <<requestVars, streamVars, frameVars, stockVars, got, settingVars, fatal, cb>>

\* process_capture_request() fails: the frame is withdrawn.
StockRefuses ==
  /\ pc = "process"
  /\ frames' = frames \ {captures}
  /\ pc' = "idle"
  /\ UNCHANGED <<requestVars, streamVars, frame, stockVars, clientVars, settingVars, fatal, cb,
                 owed>>

-----------------------------------------------------------------------------
(* result() and notify(): the update under stateMutex, the call of the client, retire() *)

CallbackStarts == vendor /\ clientCallbacks /\ cb = NoCallback

DeliveryOnlyWithMetadata(n, B, metadata, noMetadata, shutter) ==
  [step |-> "deliver", number |-> n, buffers |-> IF metadata THEN B ELSE {},
   metadata |-> metadata, noMetadata |-> noMetadata, shutter |-> shutter]

\* A callback that tells the client about buffers B of frame n, its metadata, that there
\* will be none, and its shutter.
Delivery(n, B, metadata, noMetadata, shutter) ==
  [step |-> "deliver", number |-> n, buffers |-> B, metadata |-> metadata,
   noMetadata |-> noMetadata, shutter |-> shutter]

ReadsAnyMetadata(n, kind) == kind # "none"

\* Metadata that comes after the frame's metadata is done is ignored.
ReadsMetadata(n, kind) == kind # "none" /\ ~frame[n].metadataDone

\* result() with buffers B and metadata of the given kind, which merges or does not (merged),
\* and perhaps a buffer that the frame does not expect (stray), which is fatal.
Result(n, B, kind, merged, stray) ==
  /\ CallbackStarts /\ n \in frames
  /\ B \subseteq owed[n].buffers /\ (kind # "none" => owed[n].metadata)
  /\ ((B # {} \/ stray) /\ merged) \/ kind # "none"
  /\ fatal' = (fatal \/ stray)
  /\ pc' = IF stray THEN Notified(pc) ELSE pc
  /\ owed' = [owed EXCEPT ![n] = [owed[n] EXCEPT !.buffers = @ \ B,
                                                 !.metadata = @ /\ kind # "final"]]
  /\ LET read  == ReadsMetadata(n, kind)
         error == read /\ ~merged
         done  == read /\ (kind = "final" \/ error)
     IN  /\ frame' = [frame EXCEPT ![n] = [frame[n] EXCEPT !.remaining = @ \ B,
                                                           !.metadataDone = @ \/ done]]
         /\ cb' = Delivery(n, B, done /\ ~error, error, FALSE)
  /\ UNCHANGED <<requestVars, streamVars, frames, stockVars, clientVars, settingVars>>

\* result() for a frame that is not in frames any more: metadata that comes after a partial
\* result could not be merged.  It is dropped.
UnexpectedResult(n) ==
  /\ CallbackStarts /\ n \notin frames /\ owed[n].metadata
  /\ owed' = [owed EXCEPT ![n].metadata = FALSE]
  /\ UNCHANGED <<requestVars, streamVars, frameVars, stockVars, clientVars, settingVars, fatal,
                 pc, cb>>

ShutterWithoutRetire(n) ==
  /\ CallbackStarts /\ n \in frames /\ owed[n].shutter
  /\ owed' = [owed EXCEPT ![n].shutter = FALSE]
  /\ frame' = [frame EXCEPT ![n].shutterDone = TRUE]
  /\ cb' = Delivery(0, {}, FALSE, FALSE, TRUE)
  /\ UNCHANGED <<requestVars, streamVars, frames, stockVars, clientVars, settingVars, fatal, pc>>

Shutter(n) ==
  /\ CallbackStarts /\ n \in frames /\ owed[n].shutter
  /\ owed' = [owed EXCEPT ![n].shutter = FALSE]
  /\ frame' = [frame EXCEPT ![n].shutterDone = TRUE]
  /\ cb' = Delivery(n, {}, FALSE, FALSE, TRUE)
  /\ UNCHANGED <<requestVars, streamVars, frames, stockVars, clientVars, settingVars, fatal, pc>>

\* notify() of ERROR_RESULT (no metadata will come) or of ERROR_REQUEST (nor a shutter).
NoResult(n, request_error) ==
  /\ CallbackStarts /\ owed[n].metadata
  /\ owed' = [owed EXCEPT ![n] = [owed[n] EXCEPT !.metadata = FALSE,
                                                 !.shutter = @ /\ ~request_error]]
  /\ frame' = [frame EXCEPT ![n] =
       IF n \notin frames THEN frame[n]
       ELSE [frame[n] EXCEPT !.metadataDone = TRUE, !.shutterDone = @ \/ request_error]]
  /\ cb' = Delivery(n, {}, FALSE, TRUE, request_error)
  /\ UNCHANGED <<requestVars, streamVars, frames, stockVars, clientVars, settingVars, fatal, pc>>

\* notify() of ERROR_BUFFER: the buffer itself comes back with a result.
BufferError(n) ==
  /\ CallbackStarts /\ n \in frames /\ owed[n].buffers # {}
  /\ cb' = Delivery(n, {}, FALSE, FALSE, FALSE)
  /\ UNCHANGED <<requestVars, streamVars, frameVars, stockVars, clientVars, settingVars, fatal,
                 pc, owed>>

DeviceErrorUnnotified ==
  /\ CallbackStarts
  /\ fatal' = TRUE
  /\ cb' = Delivery(0, {}, FALSE, FALSE, FALSE)
  /\ UNCHANGED <<requestVars, streamVars, frameVars, stockVars, clientVars, settingVars, pc, owed>>

\* notify() of ERROR_DEVICE, at any time.
DeviceError ==
  /\ CallbackStarts
  /\ fatal' = TRUE
  /\ pc' = Notified(pc)
  /\ cb' = Delivery(0, {}, FALSE, FALSE, FALSE)
  /\ UNCHANGED <<requestVars, streamVars, frameVars, stockVars, clientVars, settingVars, owed>>

\* The client's process_capture_result() or notify() runs, without stateMutex.
Deliver ==
  /\ cb # NoCallback /\ cb.step = "deliver"
  /\ cb' = [Delivery(cb.number, {}, FALSE, FALSE, FALSE) EXCEPT !.step = "retire"]
  /\ got' = [n \in Numbers |-> IF n # cb.number THEN got[n]
               ELSE [buffers  |-> got[n].buffers \cup cb.buffers,
                     metadata |-> got[n].metadata \/ cb.metadata \/ cb.noMetadata,
                     shutter  |-> got[n].shutter \/ cb.shutter]]
  /\ UNCHANGED <<requestVars, streamVars, frameVars, stockVars, accepted, settingVars, fatal, pc,
                 owed>>

CompleteWithoutShutter(f) == f.remaining = {} /\ f.metadataDone
CompleteWithoutBuffers(f) == f.metadataDone /\ f.shutterDone
Complete(f) == f.remaining = {} /\ f.metadataDone /\ f.shutterDone

\* retire(), after which the callback returns.
Retire ==
  /\ cb # NoCallback /\ cb.step = "retire"
  /\ IF cb.number \in frames /\ Complete(frame[cb.number])
       THEN frames' = frames \ {cb.number} /\ pc' = Notified(pc)
       ELSE UNCHANGED <<frames, pc>>
  /\ cb' = NoCallback
  /\ UNCHANGED <<requestVars, streamVars, frame, stockVars, clientVars, settingVars, fatal, owed>>

-----------------------------------------------------------------------------
(* close() *)

CloseCall ==
  /\ pc = "idle"
  /\ closing' = TRUE
  /\ pc' = "close"
  /\ UNCHANGED <<requestVars, streamVars, frameVars, stockVars, clientVars, clientCallbacks,
                 templates, lastSettings, fatal, cb, owed>>

\* close() of the stock HAL returns; everything is released and the Camera deleted.
CloseReturns ==
  /\ pc = "close" /\ cb = NoCallback
  /\ vendor' = FALSE /\ stockStreams' = {} /\ stockBuffers' = {}
  /\ owed' = [n \in Numbers |-> Nothing]
  /\ frames' = {} /\ streams' = {} /\ buffers' = NoBuffers /\ failedStreams' = {}
  /\ pc' = "gone"
  /\ UNCHANGED <<requestVars, config, frame, clientVars, settingVars, fatal, cb>>

-----------------------------------------------------------------------------
RequestStep ==
  \/ ReopenCloses \/ ReopenSucceeds \/ ReopenFails
  \/ StockConfigures \/ StockRejects \/ Swap
  \/ DrainTests
  \/ \E s \in Streams : Register(s) \/ StockRegisterFails(s)
  \/ RegisterFails \/ Submit \/ SubmitRefused \/ StockAccepts \/ StockRefuses
  \/ CloseReturns

CallStep ==
  \/ Initialize \/ FlushCall \/ CloseCall
  \/ \E t \in Templates : DefaultRequest(t)
  \/ \E S \in SUBSET Streams : Configure(S)
  \/ \E r \in Requests, settings \in BOOLEAN : Capture(r, settings)

FrameCallback(n) ==
  \/ \E B \in SUBSET Streams, kind \in {"none", "partial", "final"},
        merged \in BOOLEAN, stray \in BOOLEAN : Result(n, B, kind, merged, stray)
  \/ Shutter(n) \/ UnexpectedResult(n) \/ BufferError(n)
  \/ \E request_error \in BOOLEAN : NoResult(n, request_error)

CallbackStep == Deliver \/ Retire

Next ==
  \/ CallStep \/ RequestStep \/ DrainSpuriousWakeup \/ DrainTimesOut
  \/ (\E n \in Numbers : FrameCallback(n)) \/ DeviceError \/ CallbackStep

Spec == Init /\ [][Next]_vars

\* A call and a callback go on until they wait, and the stock HAL answers what it has
\* accepted.  A timeout, an error and a further call need not happen.
Fairness ==
  /\ WF_vars(RequestStep) /\ WF_vars(CallbackStep) /\ SF_vars(ReopenCloses) /\ SF_vars(CloseReturns)
  /\ \A n \in Numbers :
       /\ SF_vars(Shutter(n))
       /\ SF_vars(\E merged \in BOOLEAN : Result(n, {}, "final", merged, FALSE))
       /\ \A s \in Streams :
            SF_vars(\E B \in SUBSET Streams : s \in B /\ Result(n, B, "none", TRUE, FALSE))

FairSpec == Spec /\ Fairness

-----------------------------------------------------------------------------
(* Properties *)

\* The callback in progress still has to tell the client something about frame n.
Undelivered(n) == cb # NoCallback /\ cb.step = "deliver" /\ cb.number = n

\* No buffer of an accepted request is lost or returned twice: until the device is closed
\* each is with the stock HAL, in the callback that is about to hand it over, or with the
\* client, and in one of these only.
BuffersConserved ==
  pc # "gone" => \A n \in Numbers :
    LET carried == IF Undelivered(n) THEN cb.buffers ELSE {}
    IN  /\ accepted[n] = owed[n].buffers \cup carried \cup got[n].buffers
        /\ owed[n].buffers \cap carried = {} /\ carried \cap got[n].buffers = {}
        /\ owed[n].buffers \cap got[n].buffers = {}

\* A frame leaves frames, which is what drain() waits for, only when the client has been
\* given all its buffers, its metadata (or been told there is none) and its shutter.
RetiredMeansDelivered ==
  pc # "gone" => \A n \in Numbers :
    accepted[n] # {} /\ n \notin frames =>
      got[n] = [buffers |-> accepted[n], metadata |-> TRUE, shutter |-> TRUE]

\* The client gets the metadata of a frame at most once, and none after it was told that
\* there would be none.
MetadataOnce ==
  \A n \in Numbers : Undelivered(n) /\ cb.metadata => ~got[n].metadata

\* The stock HAL never points to a released Stream object or buffer handle: what it was
\* given in configure_streams(), also in a failed one, and in register_stream_buffers()
\* stays allocated until the stock HAL has dropped it.
NoDanglingStockPointers ==
  /\ stockStreams \subseteq
       failedStreams \cup (IF streams = {} THEN {} ELSE {config})
                     \cup (IF pc \in {"configure", "swap"} THEN {configs} ELSE {})
  /\ \A b \in stockBuffers : b[2] \in buffers[b[1]]

Registering == pc \in {"register", "reopen", "reopening", "configure", "swap"}

\* Buffers are registered, and streams replaced, only while the stock HAL has no buffer and
\* owes no shutter, and the client is not being given a buffer or metadata.
QuietWhenRegistering ==
  Registering => \A n \in Numbers :
    /\ owed[n].buffers = {} /\ ~owed[n].shutter
    /\ Undelivered(n) => cb.buffers = {} /\ ~cb.metadata

\* Buffers are registered only when every earlier result has been delivered.
AllResultsBeforeRegistering == pc = "register" => \A n \in Numbers : owed[n] = Nothing

\* drain() does not wait for what has already happened.
NoSleepWhenDrained == pc \in {"drainWait", "flushWait"} => ~DrainReady

\* No call reaches the stock HAL while there is no stock device, after a failed restart too.
StockDevicePresent ==
  /\ pc \in {"configure", "register", "submit", "process"} => vendor
  /\ ~vendor => fatal \/ pc \in {"reopening", "gone"}

\* configure() never waits for a callback into the client.
ConfigureNeverWaits == pc = "reopen" => cb = NoCallback \/ cb.step # "deliver"

\* A template handed to the client stays valid until the device is closed, across restarts
\* of the stock device.
TemplatesStable == [][templates \subseteq templates']_templates

\* Every frame in flight is retired in the end, also if nobody closes the device and no
\* drain() times out.
FramesRetire == \A n \in Numbers : n \in frames ~> n \notin frames
=============================================================================
