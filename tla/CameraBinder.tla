---------------------------- MODULE CameraBinder ----------------------------
(***************************************************************************)
(* The binder interfaces of the camera client library: for each call what  *)
(* its proxy (the Bp class) writes and what it reads from the reply, and   *)
(* what the stub (onTransact() of the Bn class) reads and replies.         *)
(*                                                                         *)
(* One call at a time: the proxy sends, the stub answers or the process    *)
(* behind it has died, the proxy returns.  Most proxies ignore what        *)
(* transact() returns and read from an empty reply instead.                *)
(***************************************************************************)
EXTENDS Parcels, TLC

CONSTANT MaxEvents      \* most arguments of a system event, 512 in the code

VARIABLES
    phase,      \* "idle", "sent", "replied", "returned"
    call,       \* <<interface, code>>
    parcel,     \* the request, then the reply
    answer,     \* the status the stub replied with; "none" when it did not
    result,     \* the status the proxy returns to its caller
    reader      \* how the last read of a parcel went

vars == <<phase, call, parcel, answer, result, reader>>

\* A call of a proxy and its stub: what the proxy writes (send) and reads (get),
\* what the stub reads (take) and writes (put).
Proxy(send, get) == [send |-> send, get |-> get]
Stub(take, put) == [take |-> take, put |-> put]

-----------------------------------------------------------------------------
(* ICamera *)

BpCamera ==
    [ DISCONNECT |-> Proxy(<<>>, <<NoException>>),
      SET_PREVIEW_TARGET |-> Proxy(<<Binder("producer")>>, <<Status>>),
      SET_PREVIEW_CALLBACK_FLAG |-> Proxy(<<Int32("flag")>>, <<>>),
      SET_PREVIEW_CALLBACK_TARGET |-> Proxy(<<Binder("producer")>>, <<Status>>),
      START_PREVIEW |-> Proxy(<<>>, <<Status>>),
      START_RECORDING |-> Proxy(<<>>, <<Status>>),
      STOP_PREVIEW |-> Proxy(<<>>, <<>>),
      STOP_RECORDING |-> Proxy(<<>>, <<>>),
      RELEASE_RECORDING_FRAME |-> Proxy(<<Binder("mem")>>, <<>>),
      STORE_META_DATA_IN_BUFFERS |-> Proxy(<<Int32("enabled")>>, <<Status>>),
      PREVIEW_ENABLED |-> Proxy(<<>>, <<Int32("enabled")>>),
      RECORDING_ENABLED |-> Proxy(<<>>, <<Int32("enabled")>>),
      AUTO_FOCUS |-> Proxy(<<>>, <<Status>>),
      CANCEL_AUTO_FOCUS |-> Proxy(<<>>, <<Status>>) ]

BpCameraMore ==
    [ TAKE_PICTURE |-> Proxy(<<Int32("msgType")>>, <<Status>>),
      SET_PARAMETERS |-> Proxy(<<Str("params")>>, <<Status>>),
      GET_PARAMETERS |-> Proxy(<<>>, <<Str("params")>>),
      SEND_COMMAND |-> Proxy(<<Int32("cmd"), Int32("arg1"), Int32("arg2")>>, <<Status>>),
      CONNECT |-> Proxy(<<Binder("client")>>, <<Status>>),
      LOCK |-> Proxy(<<>>, <<Status>>),
      UNLOCK |-> Proxy(<<>>, <<Status>>) ]

BnCamera ==
    [ DISCONNECT |-> Stub(<<>>, <<NoException>>),
      SET_PREVIEW_TARGET |-> Stub(<<Binder("producer")>>, <<Status>>),
      SET_PREVIEW_CALLBACK_FLAG |-> Stub(<<Int32("flag")>>, <<>>),
      SET_PREVIEW_CALLBACK_TARGET |-> Stub(<<Binder("producer")>>, <<Status>>),
      START_PREVIEW |-> Stub(<<>>, <<Status>>),
      START_RECORDING |-> Stub(<<>>, <<Status>>),
      STOP_PREVIEW |-> Stub(<<>>, <<>>),
      STOP_RECORDING |-> Stub(<<>>, <<>>),
      RELEASE_RECORDING_FRAME |-> Stub(<<Binder("mem")>>, <<>>),
      STORE_META_DATA_IN_BUFFERS |-> Stub(<<Int32("enabled")>>, <<Status>>),
      PREVIEW_ENABLED |-> Stub(<<>>, <<Int32("enabled")>>),
      RECORDING_ENABLED |-> Stub(<<>>, <<Int32("enabled")>>),
      AUTO_FOCUS |-> Stub(<<>>, <<Status>>),
      CANCEL_AUTO_FOCUS |-> Stub(<<>>, <<Status>>),
      TAKE_PICTURE |-> Stub(<<Int32("msgType")>>, <<Status>>),
      SET_PARAMETERS |-> Stub(<<Str("params")>>, <<Status>>),
      GET_PARAMETERS |-> Stub(<<>>, <<Str("params")>>),
      SEND_COMMAND |-> Stub(<<Int32("cmd"), Int32("arg1"), Int32("arg2")>>, <<Status>>),
      CONNECT |-> Stub(<<Binder("client")>>, <<Status>>),
      LOCK |-> Stub(<<>>, <<Status>>),
      UNLOCK |-> Stub(<<>>, <<Status>>) ]

-----------------------------------------------------------------------------
(* ICameraService *)

ConnectArgs == <<Binder("client"), Int32("cameraId"), Str("package"), Int32("uid")>>
Device == <<NoException, Status, Opt(<<Binder("device")>>)>>

BpCameraService ==
    [ GET_NUMBER_OF_CAMERAS |-> Proxy(<<Int32("type")>>, <<NoException, Int32("number")>>),
      GET_CAMERA_INFO |-> Proxy(<<Int32("cameraId")>>,
            <<NoException, Status, Opt(<<Int32("facing"), Int32("orientation")>>)>>),
      GET_CAMERA_CHARACTERISTICS |-> Proxy(<<Int32("cameraId")>>, <<NoException, Status, Opt(MetadataRead)>>),
      GET_CAMERA_VENDOR_TAG_DESCRIPTOR |-> Proxy(<<>>, <<NoException, Status, Opt(DescriptorRead)>>),
      CONNECT |-> Proxy(ConnectArgs, Device),
      CONNECT_LEGACY |-> Proxy(<<Binder("client"), Int32("cameraId"), Int32("halVersion"),
                                 Str("package"), Int32("uid")>>, Device),
      SET_TORCH_MODE |-> Proxy(<<Str("cameraId"), Int32("enabled"), Binder("client")>>, <<NoException, Status>>) ]

\* The last two but one look for the answer in the request they have sent.
BpCameraServiceMore ==
    [ CONNECT_DEVICE |-> Proxy(ConnectArgs, Device),
      ADD_LISTENER |-> Proxy(<<Binder("listener")>>, <<NoException, Status>>),
      REMOVE_LISTENER |-> Proxy(<<Binder("listener")>>, <<NoException, Status>>),
      GET_LEGACY_PARAMETERS |-> Proxy(<<Int32("cameraId")>>, <<NoException, OwnStatus>>),
      SUPPORTS_CAMERA_API |-> Proxy(<<Int32("cameraId"), Int32("apiVersion")>>, <<NoException, OwnStatus>>),
      NOTIFY_SYSTEM_EVENT |-> Proxy(<<Int32("eventId"), Array("args", MaxEvents)>>, <<>>) ]

BnCameraService ==
    [ GET_NUMBER_OF_CAMERAS |-> Stub(<<Int32("type")>>, <<NoException, Int32("number")>>),
      GET_CAMERA_INFO |-> Stub(<<Int32("cameraId")>>,
            <<NoException, Status, Present(<<Int32("facing"), Int32("orientation")>>)>>),
      GET_CAMERA_CHARACTERISTICS |-> Stub(<<Int32("cameraId")>>, <<NoException, Status, Present(MetadataWrite)>>),
      GET_CAMERA_VENDOR_TAG_DESCRIPTOR |-> Stub(<<>>, <<NoException, Status, Opt(DescriptorWrite)>>),
      CONNECT |-> Stub(ConnectArgs, Device),
      CONNECT_DEVICE |-> Stub(ConnectArgs, Device),
      ADD_LISTENER |-> Stub(<<Binder("listener")>>, <<NoException, Status>>),
      REMOVE_LISTENER |-> Stub(<<Binder("listener")>>, <<NoException, Status>>) ]

BnCameraServiceMore ==
    [ GET_LEGACY_PARAMETERS |-> Stub(<<Int32("cameraId")>>, <<NoException, Status, Present(<<Str("parameters")>>)>>),
      SUPPORTS_CAMERA_API |-> Stub(<<Int32("cameraId"), Int32("apiVersion")>>, <<NoException, Status>>),
      CONNECT_LEGACY |-> Stub(<<Binder("client"), Int32("cameraId"), Int32("halVersion"),
                                Str("package"), Int32("uid")>>, Device),
      SET_TORCH_MODE |-> Stub(<<Str("cameraId"), Int32("enabled"), Binder("client")>>, <<NoException, Status>>),
      NOTIFY_SYSTEM_EVENT |-> Stub(<<Int32("eventId"), Array("args", MaxEvents)>>, <<>>) ]

-----------------------------------------------------------------------------
(* ICameraDeviceUser *)

Done == <<NoException, Status>>
FrameSent == <<NoException, Status, Present(<<Int64("lastFrameNumber")>>)>>
FrameGot == <<NoException, Status, Opt(<<Int64("lastFrameNumber")>>)>>
FrameSkipped == <<NoException, Status, Int32("present")>>

BpCameraDeviceUser ==
    [ DISCONNECT |-> Proxy(<<>>, <<NoException>>),
      SUBMIT_REQUEST |-> Proxy(<<Opt(RequestWrite), Int32("repeating")>>, FrameGot),
      SUBMIT_REQUEST_LIST |-> Proxy(<<List("requests", <<Opt(RequestWrite)>>), Int32("repeating")>>, FrameGot),
      CANCEL_REQUEST |-> Proxy(<<Int32("requestId")>>, FrameGot),
      BEGIN_CONFIGURE |-> Proxy(<<>>, Done),
      END_CONFIGURE |-> Proxy(<<Int32("isConstrainedHighSpeed")>>, Done),
      DELETE_STREAM |-> Proxy(<<Int32("streamId")>>, Done) ]

BpCameraDeviceUserMore ==
    [ CREATE_STREAM |-> Proxy(<<Opt(OutputWrite)>>, Done),
      CREATE_INPUT_STREAM |-> Proxy(<<Int32("width"), Int32("height"), Int32("format")>>, Done),
      GET_INPUT_SURFACE |-> Proxy(<<>>, <<NoException, Status, StopOnError,
                                          Opt(<<Str("name"), Binder("producer")>>)>>),
      CREATE_DEFAULT_REQUEST |-> Proxy(<<Int32("templateId")>>, <<NoException, Status, Opt(MetadataRead)>>),
      GET_CAMERA_INFO |-> Proxy(<<>>, <<NoException, Status, Opt(MetadataRead)>>),
      WAIT_UNTIL_IDLE |-> Proxy(<<>>, Done),
      FLUSH |-> Proxy(<<>>, FrameGot),
      PREPARE |-> Proxy(<<Int32("streamId")>>, Done),
      PREPARE2 |-> Proxy(<<Int32("maxCount"), Int32("streamId")>>, Done),
      TEAR_DOWN |-> Proxy(<<Int32("streamId")>>, Done) ]

BnCameraDeviceUser ==
    [ DISCONNECT |-> Stub(<<>>, <<NoException>>),
      SUBMIT_REQUEST |-> Stub(<<Opt(RequestRead(FALSE)), Int32("repeating")>>, FrameSent),
      SUBMIT_REQUEST_LIST |-> Stub(<<List("requests", <<Opt(RequestRead(TRUE))>>), Int32("repeating")>>, FrameSent),
      CANCEL_REQUEST |-> Stub(<<Int32("requestId")>>, FrameSent),
      DELETE_STREAM |-> Stub(<<Int32("streamId")>>, Done),
      CREATE_STREAM |-> Stub(<<Opt(OutputRead)>>, Done),
      CREATE_INPUT_STREAM |-> Stub(<<Int32("width"), Int32("height"), Int32("format")>>, Done),
      GET_INPUT_SURFACE |-> Stub(<<>>, <<NoException, Status, Present(<<Str("name"), Binder("producer")>>)>>) ]

BnCameraDeviceUserMore ==
    [ CREATE_DEFAULT_REQUEST |-> Stub(<<Int32("templateId")>>, <<NoException, Status, Present(MetadataWrite)>>),
      GET_CAMERA_INFO |-> Stub(<<>>, <<NoException, Status, Present(MetadataWrite)>>),
      WAIT_UNTIL_IDLE |-> Stub(<<>>, Done),
      FLUSH |-> Stub(<<>>, FrameSent),
      BEGIN_CONFIGURE |-> Stub(<<>>, Done),
      END_CONFIGURE |-> Stub(<<Int32("isConstrainedHighSpeed")>>, Done),
      PREPARE |-> Stub(<<Int32("streamId")>>, Done),
      TEAR_DOWN |-> Stub(<<Int32("streamId")>>, Done),
      PREPARE2 |-> Stub(<<Int32("maxCount"), Int32("streamId")>>, Done) ]

-----------------------------------------------------------------------------
(* The callbacks: all of them one way.  Those of the camera2 device write   *)
(* the exception after they have sent the parcel; the stub still reads one. *)

BpCameraDeviceCallbacks ==
    [ CAMERA_ERROR |-> Proxy(<<Int32("errorCode"), Present(ExtrasWrite)>>, <<>>),
      CAMERA_IDLE |-> Proxy(<<>>, <<>>),
      CAPTURE_STARTED |-> Proxy(<<Present(ExtrasWrite), Int64("timestamp")>>, <<>>),
      RESULT_RECEIVED |-> Proxy(<<Present(MetadataWrite), Present(ExtrasWrite)>>, <<>>),
      PREPARED |-> Proxy(<<Int32("streamId")>>, <<>>) ]

BnCameraDeviceCallbacks ==
    [ CAMERA_ERROR |-> Stub(<<Int32("errorCode"), Opt(ExtrasRead), NoException>>, <<>>),
      CAMERA_IDLE |-> Stub(<<NoException>>, <<>>),
      CAPTURE_STARTED |-> Stub(<<Opt(ExtrasRead), Int64("timestamp"), NoException>>, <<>>),
      RESULT_RECEIVED |-> Stub(<<Opt(MetadataRead), Opt(ExtrasRead), NoException>>, <<>>),
      PREPARED |-> Stub(<<Int32("streamId"), NoException>>, <<>>) ]

\* ext2 is a file descriptor for a preview frame that is one
BpCameraClient ==
    [ NOTIFY_CALLBACK |-> Proxy(<<Int32("msgType"), If("ext1", <<Fd("ext2")>>, <<Int32("ext2")>>)>>, <<>>),
      DATA_CALLBACK |-> Proxy(<<Int32("msgType"), Binder("imageData"), Rest(<<Int32("faces"), Blob("faces")>>)>>, <<>>),
      DATA_CALLBACK_TIMESTAMP |-> Proxy(<<Int64("timestamp"), Int32("msgType"), Binder("imageData")>>, <<>>) ]

BnCameraClient ==
    [ NOTIFY_CALLBACK |-> Stub(<<Int32("msgType"), If("ext1", <<Fd("ext2")>>, <<Int32("ext2")>>)>>, <<>>),
      DATA_CALLBACK |-> Stub(<<Int32("msgType"), Binder("imageData"), Rest(<<Int32("faces"), Blob("faces")>>)>>, <<>>),
      DATA_CALLBACK_TIMESTAMP |-> Stub(<<Int64("timestamp"), Int32("msgType"), Binder("imageData")>>, <<>>) ]

BpCameraRecordingProxy ==
    [ START_RECORDING |-> Proxy(<<Binder("listener")>>, <<Status>>),
      STOP_RECORDING |-> Proxy(<<>>, <<>>),
      RELEASE_RECORDING_FRAME |-> Proxy(<<Binder("mem")>>, <<>>) ]

BnCameraRecordingProxy ==
    [ START_RECORDING |-> Stub(<<Binder("listener")>>, <<Status>>),
      STOP_RECORDING |-> Stub(<<>>, <<>>),
      RELEASE_RECORDING_FRAME |-> Stub(<<Binder("mem")>>, <<>>) ]

BpCameraRecordingProxyListener ==
    [ DATA_CALLBACK_TIMESTAMP |-> Proxy(<<Int64("timestamp"), Int32("msgType"), Binder("imageData")>>, <<>>) ]

BnCameraRecordingProxyListener ==
    [ DATA_CALLBACK_TIMESTAMP |-> Stub(<<Int64("timestamp"), Int32("msgType"), Binder("imageData")>>, <<>>) ]

BpCameraServiceListener ==
    [ STATUS_CHANGED |-> Proxy(<<Int32("status"), Int32("cameraId")>>, <<>>),
      TORCH_STATUS_CHANGED |-> Proxy(<<Int32("status"), Str("cameraId")>>, <<>>) ]

BnCameraServiceListener ==
    [ STATUS_CHANGED |-> Stub(<<Int32("status"), Int32("cameraId")>>, <<>>),
      TORCH_STATUS_CHANGED |-> Stub(<<Int32("status"), Str("cameraId")>>, <<>>) ]

BpCameraServiceProxy ==
    [ PING_FOR_USER_UPDATE |-> Proxy(<<>>, <<>>),
      NOTIFY_CAMERA_STATE |-> Proxy(<<Str("cameraId"), Int32("newCameraState")>>, <<>>) ]

BnCameraServiceProxy ==
    [ PING_FOR_USER_UPDATE |-> Stub(<<>>, <<>>),
      NOTIFY_CAMERA_STATE |-> Stub(<<Str("cameraId"), Int32("newCameraState")>>, <<>>) ]

-----------------------------------------------------------------------------
(* A call *)

Proxies ==
    [ ICamera |-> BpCamera @@ BpCameraMore,
      ICameraService |-> BpCameraService @@ BpCameraServiceMore,
      ICameraDeviceUser |-> BpCameraDeviceUser @@ BpCameraDeviceUserMore,
      ICameraDeviceCallbacks |-> BpCameraDeviceCallbacks,
      ICameraClient |-> BpCameraClient,
      ICameraRecordingProxy |-> BpCameraRecordingProxy,
      ICameraRecordingProxyListener |-> BpCameraRecordingProxyListener,
      ICameraServiceListener |-> BpCameraServiceListener,
      ICameraServiceProxy |-> BpCameraServiceProxy ]

Stubs ==
    [ ICamera |-> BnCamera,
      ICameraService |-> BnCameraService @@ BnCameraServiceMore,
      ICameraDeviceUser |-> BnCameraDeviceUser @@ BnCameraDeviceUserMore,
      ICameraDeviceCallbacks |-> BnCameraDeviceCallbacks,
      ICameraClient |-> BnCameraClient,
      ICameraRecordingProxy |-> BnCameraRecordingProxy,
      ICameraRecordingProxyListener |-> BnCameraRecordingProxyListener,
      ICameraServiceListener |-> BnCameraServiceListener,
      ICameraServiceProxy |-> BnCameraServiceProxy ]

Interfaces == DOMAIN Proxies
FrameCalls == {<<"ICameraDeviceUser", c>> : c \in {"SUBMIT_REQUEST", "SUBMIT_REQUEST_LIST", "CANCEL_REQUEST", "FLUSH"}}
ConnectCalls == {<<"ICameraService", c>> : c \in {"CONNECT", "CONNECT_LEGACY", "CONNECT_DEVICE"}}
FAILED == -2       \* FAILED_TRANSACTION, or the error transact() returned

Init ==
    /\ phase = "idle" /\ call = <<>> /\ parcel = <<>>
    /\ answer = OK /\ result = OK /\ reader = Reader(<<>>)

Send(i, c) ==
    /\ phase = "idle"
    /\ phase' = "sent"
    /\ call' = <<i, c>>
    /\ parcel' \in Write(Proxies[i][c].send)
    /\ UNCHANGED <<answer, result, reader>>

StatusIn(p) == IF \E k \in DOMAIN p : p[k][2] = "status" THEN p[CHOOSE k \in DOMAIN p : p[k][2] = "status"][3] ELSE OK

\* onTransact(): a stub that cannot use the request returns an error, and the
\* reply stays empty.
OnTransact ==
    /\ phase = "sent"
    /\ LET stub == Stubs[call[1]][call[2]]
           r == Read(stub.take, Reader(parcel))
       IN  /\ reader' = r
           /\ \/ /\ ~r.failed
                 /\ parcel' \in Write(stub.put)
                 /\ answer' = StatusIn(parcel')
                 /\ phase' = "replied"
              \/ /\ r.failed
                 /\ parcel' = <<>> /\ answer' = FAILED
                 /\ phase' = "failed"
    /\ UNCHANGED <<call, result>>

\* The process behind the interface is gone.
ServiceDies ==
    /\ phase = "sent"
    /\ phase' = "failed"
    /\ parcel' = <<>> /\ answer' = FAILED
    /\ UNCHANGED <<call, result, reader>>

\* A status of the frame calls is good only with a frame number.
Result_Trusts(r, hasFrame) ==
    IF call \in ConnectCalls /\ phase = "failed" THEN FAILED
    ELSE IF call \in FrameCalls /\ r.status # OK THEN FAILED
    ELSE r.status

Result(r, hasFrame) ==
    IF call \in ConnectCalls /\ phase = "failed" THEN FAILED
    ELSE IF call \in FrameCalls /\ (r.status # OK \/ ~hasFrame) THEN FAILED
    ELSE r.status

\* What the proxy does after transact(); without lastFrameNumber to fill in it
\* leaves the frame number unread.
Return ==
    /\ phase \in {"replied", "failed"}
    /\ \E wanted \in IF call \in FrameCalls THEN BOOLEAN ELSE {TRUE} :
          LET r == Read(IF wanted THEN Proxies[call[1]][call[2]].get ELSE FrameSkipped, Reader(parcel))
              hasFrame == wanted /\ \E k \in DOMAIN parcel : parcel[k][1] = "int64"
          IN  /\ reader' = r
              /\ result' = Result(r, hasFrame)
              /\ phase' = "returned"
    /\ parcel' = <<>>
    /\ UNCHANGED <<call, answer>>

Forget ==
    /\ phase = "returned"
    /\ phase' = "idle" /\ call' = <<>> /\ answer' = OK /\ result' = OK
    /\ reader' = Reader(<<>>)
    /\ UNCHANGED parcel

Next ==
    \/ \E i \in Interfaces : \E c \in DOMAIN Proxies[i] : Send(i, c)
    \/ OnTransact \/ ServiceDies \/ Return \/ Forget

Spec == Init /\ [][Next]_vars

-----------------------------------------------------------------------------
(* Properties *)

OwnRead == {<<"ICameraService", "GET_LEGACY_PARAMETERS">>, <<"ICameraService", "SUPPORTS_CAMERA_API">>}

\* A stub that runs its handler has read every argument as what the proxy wrote,
\* and all of them; a request with invalid metadata is the exception, because
\* SUBMIT_REQUEST ignores that the rest of it was not read.  The proxy takes
\* the reply apart in the same way, except for the two calls that do not look
\* at it.
ParcelsInStep ==
    /\ phase = "replied" /\ ~reader.invalid => reader.ok /\ reader.left = <<>>
    /\ phase = "returned" /\ answer # FAILED /\ call \notin OwnRead =>
          reader.ok /\ (reader.left = <<>> \/ result # OK)

\* A caller that is told that its request was submitted, cancelled or flushed,
\* or that it is connected, has been served: when the camera service died or
\* refused the parcel these proxies report it, though most others return OK.
SuccessIsReal ==
    phase = "returned" /\ call \in FrameCalls \cup ConnectCalls /\ result = OK => answer = OK

\* supportsCameraApi() returns what the service answered.
SupportsApiAnswered ==
    phase = "returned" /\ call = <<"ICameraService", "SUPPORTS_CAMERA_API">> /\ answer # FAILED => result = answer
=============================================================================
