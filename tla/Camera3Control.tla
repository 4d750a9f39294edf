--------------------------- MODULE Camera3Control ---------------------------
(***************************************************************************)
(* Proofs about the calls of Camera3, for any streams, handles, templates  *)
(* and numbers of calls: the stock device is there when it is called,      *)
(* drain() misses no wakeup, and the stock HAL holds no stale pointer.     *)
(***************************************************************************)
EXTENDS Camera3, TLAPS

\* The points of a call that will use the stock device.
UsesDevice == pc \in {"reopen", "configure", "swap", "drain", "drainWait", "register",
                      "submit", "process"}

\* StockDevicePresent, and the device of a call that has not reached it yet.
DevicePresent ==
  /\ UsesDevice => vendor
  /\ ~vendor => fatal \/ pc \in {"reopening", "gone"}

\* The new streams of a configure() that has not returned.
Configuring ==
  /\ pc \in {"reopen", "reopening", "configure", "swap"} => next # {}
  /\ pc = "swap" => stockStreams = {configs} /\ stockBuffers = {}

\* Buffers are kept for each stream of the client.
BufferTable ==
  /\ buffers = [s \in Streams |-> buffers[s]]
  /\ \A b \in stockBuffers : b[1] \in Streams

CInv == DevicePresent /\ NoSleepWhenDrained /\ Configuring /\ BufferTable /\ NoDanglingStockPointers

\* The state in which the stock device has just been opened.
LEMMA InitControl == Init => CInv
BY DEF Init, CInv, DevicePresent, UsesDevice, NoSleepWhenDrained, Configuring, BufferTable,
       NoDanglingStockPointers, NoBuffers

USE DEF requestVars, streamVars, frameVars, stockVars, clientVars, settingVars,
        CInv, DevicePresent, UsesDevice, NoSleepWhenDrained, DrainReady, Configuring, BufferTable,
        NoDanglingStockPointers

\* The calls begin.
LEMMA CallControl ==
  ASSUME CInv, CallStep
  PROVE  CInv'
<1>1. CASE Initialize
  BY <1>1 DEF Initialize
<1>2. CASE FlushCall
  BY <1>2 DEF FlushCall
<1>3. CASE CloseCall
  BY <1>3 DEF CloseCall
<1>4. ASSUME NEW t \in Templates, DefaultRequest(t) PROVE CInv'
  BY <1>4 DEF DefaultRequest
<1>5. ASSUME NEW S \in SUBSET Streams, Configure(S) PROVE CInv'
  <2>1. /\ pc = "idle" /\ ~fatal /\ S # {} /\ next' = S
        /\ pc' \in {"reopen", "configure"}
        /\ UNCHANGED <<streamVars, frames, stockVars, fatal>>
    BY <1>5 DEF Configure, Usable, ValidConfiguration
  <2> QED BY <2>1
<1>6. ASSUME NEW r \in Requests, NEW settings \in BOOLEAN, Capture(r, settings) PROVE CInv'
  <2>1. /\ pc = "idle" /\ ~fatal /\ pc' \in {"drain", "submit"}
        /\ UNCHANGED <<next, configs, streamVars, frames, stockVars, fatal>>
    BY <1>6 DEF Capture, Usable
  <2> QED BY <2>1
<1> QED BY <1>1, <1>2, <1>3, <1>4, <1>5, <1>6 DEF CallStep

\* configure() goes on.
LEMMA ConfigureControl ==
  ASSUME CInv, ReopenCloses \/ ReopenSucceeds \/ ReopenFails \/ StockConfigures \/ StockRejects \/ Swap
  PROVE  CInv'
<1>1. CASE ReopenCloses
  BY <1>1 DEF ReopenCloses
<1>2. CASE ReopenSucceeds
  BY <1>2 DEF ReopenSucceeds
<1>3. CASE ReopenFails
  BY <1>3 DEF ReopenFails
<1>4. CASE StockConfigures
  BY <1>4 DEF StockConfigures
<1>5. CASE StockRejects
  BY <1>5 DEF StockRejects, RejectedStreams
<1>6. CASE Swap
  BY <1>6 DEF Swap, NoBuffers
<1> QED BY <1>1, <1>2, <1>3, <1>4, <1>5, <1>6

\* A buffer is pinned before the stock HAL gets it, and stays.
LEMMA RegisterControl ==
  ASSUME CInv, NEW s \in Streams, Register(s) \/ StockRegisterFails(s)
  PROVE  CInv'
<1>1. /\ pc = "register" /\ pc' \in {"submit", "register", "idle"} /\ vendor' = vendor
      /\ fatal => fatal'
      /\ UNCHANGED <<next, configs, streams, config, failedStreams, frames, stockStreams>>
  BY DEF Register, StockRegisterFails
<1>2. buffers' = [buffers EXCEPT ![s] = @ \cup {request.buffers[s]}]
  BY DEF Register, StockRegisterFails
<1>3. stockBuffers' \subseteq {b \in stockBuffers : b[1] # s} \cup ({s} \X buffers'[s])
  BY DEF Register, StockRegisterFails
<1>4. buffers' = [x \in Streams |-> buffers'[x]]
  BY <1>2
<1>5. \A x \in Streams : x # s => buffers'[x] = buffers[x]
  BY <1>2
<1>6. \A b \in stockBuffers' : b[1] \in Streams /\ b[2] \in buffers'[b[1]]
  BY <1>3, <1>5
<1>7. DevicePresent' /\ NoSleepWhenDrained' /\ Configuring'
  BY <1>1
<1>8. BufferTable' /\ NoDanglingStockPointers'
  BY <1>1, <1>4, <1>6
<1> QED BY <1>7, <1>8

\* capture(), flush(), drain() and close() go on.
LEMMA CaptureControl ==
  ASSUME CInv,
         \/ DrainTests \/ DrainSpuriousWakeup \/ DrainTimesOut
         \/ RegisterFails \/ Submit \/ SubmitRefused \/ StockAccepts \/ StockRefuses \/ CloseReturns
  PROVE  CInv'
<1>1. CASE DrainTests
  BY <1>1 DEF DrainTests
<1>2. CASE DrainSpuriousWakeup
  BY <1>2 DEF DrainSpuriousWakeup, Notified
<1>3. CASE DrainTimesOut
  BY <1>3 DEF DrainTimesOut
<1>4. CASE RegisterFails
  BY <1>4 DEF RegisterFails
<1>5. CASE Submit
  BY <1>5 DEF Submit
<1>6. CASE SubmitRefused
  BY <1>6 DEF SubmitRefused
<1>7. CASE StockAccepts
  BY <1>7 DEF StockAccepts
<1>8. CASE StockRefuses
  BY <1>8 DEF StockRefuses
<1>9. CASE CloseReturns
  BY <1>9 DEF CloseReturns, NoBuffers
<1> QED BY <1>1, <1>2, <1>3, <1>4, <1>5, <1>6, <1>7, <1>8, <1>9

\* notify_all() ends every wait and moves no other call.
LEMMA NotifiedWakes ==
  ASSUME NEW p
  PROVE  /\ p \notin {"drainWait", "flushWait"} => Notified(p) = p
         /\ p = "drainWait" => Notified(p) = "drain"
         /\ p = "flushWait" => Notified(p) = "flush"
BY DEF Notified

\* What a callback may do to a call: change nothing it sees, or wake it.
Wakes == /\ UNCHANGED <<requestVars, streamVars, stockVars>>
         /\ fatal => fatal'
         /\ pc' = Notified(pc) \/ (pc' = pc /\ frames' = frames /\ (fatal' => fatal))

\* result() wakes drain() when it finds a buffer that the frame does not expect.
LEMMA ResultWakes ==
  ASSUME NEW n, NEW B, NEW kind, NEW merged, NEW stray, Result(n, B, kind, merged, stray)
  PROVE  Wakes
<1>1. /\ UNCHANGED <<requestVars, streamVars, frames, stockVars>>
      /\ fatal' = (fatal \/ stray)
      /\ pc' = IF stray THEN Notified(pc) ELSE pc
  BY Zenon DEF Result
<1>2. fatal => fatal'
  BY <1>1, Zenon
<1>3. pc' = Notified(pc) \/ (pc' = pc /\ frames' = frames /\ (fatal' => fatal))
  BY <1>1, Zenon
<1> QED BY <1>1, <1>2, <1>3 DEF Wakes

\* The callbacks: whoever makes drain()'s predicate true wakes it.
LEMMA CallbackControl ==
  ASSUME CInv, (\E n \in Numbers : FrameCallback(n)) \/ DeviceError \/ CallbackStep
  PROVE  CInv'
<1>1. ASSUME NEW n \in Numbers, FrameCallback(n)
      PROVE  Wakes
  <2>1. CASE Shutter(n)
    BY <2>1 DEF Shutter, Wakes
  <2>2. CASE UnexpectedResult(n)
    BY <2>2 DEF UnexpectedResult, Wakes
  <2>3. CASE BufferError(n)
    BY <2>3 DEF BufferError, Wakes
  <2>4. ASSUME NEW request_error, NoResult(n, request_error) PROVE Wakes
    BY <2>4 DEF NoResult, Wakes
  <2> QED BY <1>1, <2>1, <2>2, <2>3, <2>4, ResultWakes, Zenon DEF FrameCallback
<1>2. DeviceError => Wakes
  BY DEF DeviceError, Wakes
<1>3. Deliver => Wakes
  <2>1. Deliver => UNCHANGED <<requestVars, streamVars, frameVars, stockVars, fatal, pc>>
    BY Zenon DEF Deliver
  <2> QED BY <2>1 DEF Wakes
<1>4. Retire => Wakes
  BY DEF Retire, Wakes
<1>5. Wakes
  BY <1>1, <1>2, <1>3, <1>4 DEF CallbackStep
<1> QED BY <1>5, NotifiedWakes DEF Wakes

\* The conjunction is inductive.
LEMMA ControlInvariant == Spec => []CInv
<1>1. CInv /\ [Next]_vars => CInv'
  <2>1. ASSUME CInv, Next PROVE CInv'
    BY <2>1, CallControl, ConfigureControl, RegisterControl, CaptureControl, CallbackControl
       DEF Next, RequestStep
  <2>2. ASSUME CInv, UNCHANGED vars PROVE CInv'
    BY <2>2 DEF vars
  <2> QED BY <2>1, <2>2
<1> QED BY InitControl, <1>1, PTL DEF Spec

\* After a failed restart too, no call is made to a stock device that is not there.
THEOREM DeviceThere == Spec => []StockDevicePresent
<1>1. CInv => StockDevicePresent
  BY DEF StockDevicePresent
<1> QED BY ControlInvariant, <1>1, PTL

\* drain() never sleeps through the retirement of the last frame or a fatal error.
THEOREM DrainWakes == Spec => []NoSleepWhenDrained
<1>1. CInv => NoSleepWhenDrained
  OBVIOUS
<1> QED BY ControlInvariant, <1>1, PTL

\* What the stock HAL points to is allocated.
THEOREM PointersValid == Spec => []NoDanglingStockPointers
<1>1. CInv => NoDanglingStockPointers
  OBVIOUS
<1> QED BY ControlInvariant, <1>1, PTL
=============================================================================
