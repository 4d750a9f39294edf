------------------------------- MODULE TinyPcm -------------------------------
(***************************************************************************)
(* tinyalsa's PCM handle (tinyalsa/pcm.c): opening and closing, the        *)
(* read/write calls with their restart after an underrun, and the mmap     *)
(* transfer with its two free-running ring pointers.                       *)
(*                                                                         *)
(* The kernel (external) is dev: a state, the hardware pointer and the     *)
(* number of frames between the two pointers.  It moves the hardware       *)
(* pointer while RUNNING and wraps it at the boundary, as the code wraps   *)
(* the application pointer, and it stops with XRUN when the ring runs      *)
(* empty (playback) or overflows by the stop threshold (capture).  The     *)
(* status and control pages are mapped, so pcm_sync_ptr() does nothing.    *)
(* No signal interrupts its poll().                                        *)
(*                                                                         *)
(* Frames are counted; what they hold is not represented.                  *)
(***************************************************************************)
EXTENDS Integers

CONSTANTS
    N,               \* buffer_size = period_count * period_size, in frames
    IntMax,          \* INT_MAX, scaled down
    StartThreshold,  \* config.start_threshold
    StopThreshold,   \* config.stop_threshold for capture
    MaxCount         \* bound: frames of one mmap transfer

\* The loop of pcm_open(): N doubled while twice that stays below the limit.
Boundary ==
    CHOOSE b \in N..IntMax : /\ \E k \in 0..15 : b = N * 2^k
                             /\ b = N \/ b <= IntMax - N
                             /\ b * 2 > IntMax - N

ASSUME PcmAssumption ==
    /\ N \in Nat \ {0} /\ IntMax \in Nat /\ IntMax >= 3 * N
    /\ StartThreshold \in Nat \ {0} /\ StopThreshold \in Nat /\ MaxCount \in Nat
    /\ Boundary \in Nat /\ Boundary >= 2 * N
    /\ StopThreshold < Boundary /\ N + MaxCount < Boundary

VARIABLES
    pcm,    \* [st, input, mmap, option, running, prepared, appl]: option is the flag
            \* PCM_NOIRQ of an mmap stream, PCM_NORESTART of another one
    dev,    \* [state, hw, fill, synced]: synced is false from the moment the
            \* code overwrites the application pointer until the next PREPARE
    call    \* what the thread in tinyalsa does: [op, left, avail]

vars == <<pcm, dev, call>>

Idle == [op |-> "none", left |-> 0, avail |-> 0]
NoPcm == [st |-> "none", input |-> FALSE, mmap |-> FALSE, option |-> FALSE,
          running |-> FALSE, prepared |-> FALSE, appl |-> 0]
NoDev == [state |-> "OPEN", hw |-> 0, fill |-> 0, synced |-> TRUE]

Init == pcm = NoPcm /\ dev = NoDev /\ call = Idle

Ready == pcm.st = "ready" /\ call.op = "none"     \* pcm_is_ready()
Return(p) == call' = Idle /\ pcm' = p

-----------------------------------------------------------------------------
(* pcm_open(), pcm_close() *)

\* Any of its ioctls and maps may fail: the handle is returned all the same,
\* with fd = -1.  PCM_NOIRQ without PCM_MMAP is refused in the same way.
PcmOpen(input, mmap, option) ==
    /\ pcm.st = "none"
    /\ \/ /\ pcm' = [NoPcm EXCEPT !.st = "ready", !.input = input, !.mmap = mmap,
                                  !.option = option]
          /\ dev' = [NoDev EXCEPT !.state = "SETUP"]
       \/ /\ pcm' = [NoPcm EXCEPT !.st = "failed", !.mmap = mmap]
          /\ UNCHANGED dev
    /\ UNCHANGED call

PcmClose ==
    /\ Ready \/ pcm.st = "failed"
    /\ pcm' = NoPcm /\ dev' = NoDev
    /\ UNCHANGED call

-----------------------------------------------------------------------------
(* The kernel's side of the ioctls (external). *)

\* SNDRV_PCM_IOCTL_PREPARE moves the application pointer to the hardware's.
Prepared(d) == [d EXCEPT !.state = "PREPARED", !.fill = 0, !.synced = TRUE]

\* SNDRV_PCM_IOCTL_START refuses a stream that is not prepared, and a playback
\* stream without data.
CanStart(d) == d.state = "PREPARED" /\ (pcm.input \/ d.fill > 0)

\* Outcomes of a transfer ioctl: the states the device may be left in when it
\* accepts the frames, and the errors.
XferAccepts == dev.state \in {"PREPARED", "RUNNING"}
XferError == CASE dev.state = "SUSPENDED" -> "ESTRPIPE"
               [] dev.state = "SETUP" -> "EBADFD" [] OTHER -> "EPIPE"

HwAdvance ==
    /\ pcm.st = "ready" /\ dev.state = "RUNNING" /\ dev.synced
    /\ LET fill == IF pcm.input THEN dev.fill + 1 ELSE dev.fill - 1
           xrun == IF pcm.input THEN fill >= StopThreshold ELSE fill <= 0
       IN  dev' = [dev EXCEPT !.hw = IF @ + 1 = Boundary THEN 0 ELSE @ + 1,
                              !.fill = fill,
                              !.state = IF xrun THEN "XRUN" ELSE @]
    /\ UNCHANGED <<pcm, call>>

Suspend ==
    /\ pcm.st = "ready" /\ dev.state \in {"PREPARED", "RUNNING"}
    /\ dev' = [dev EXCEPT !.state = "SUSPENDED"]
    /\ UNCHANGED <<pcm, call>>

-----------------------------------------------------------------------------
(* pcm_prepare(), pcm_start(), pcm_stop() *)

AfterPrepare == IF pcm.prepared THEN dev ELSE Prepared(dev)
ApplAfterPrepare == IF pcm.prepared THEN pcm.appl ELSE dev.hw

PcmPrepare ==
    /\ Ready
    /\ pcm' = [pcm EXCEPT !.prepared = TRUE, !.appl = ApplAfterPrepare]
    /\ dev' = AfterPrepare
    /\ UNCHANGED call

PcmStart ==
    /\ Ready
    /\ pcm' = [pcm EXCEPT !.prepared = TRUE, !.appl = ApplAfterPrepare,
                          !.running = @ \/ CanStart(AfterPrepare)]
    /\ dev' = [AfterPrepare EXCEPT !.state = IF CanStart(AfterPrepare) THEN "RUNNING" ELSE @]
    /\ UNCHANGED call

PcmStop ==
    /\ Ready
    /\ \/ /\ pcm' = [pcm EXCEPT !.prepared = FALSE, !.running = FALSE]
          /\ dev' = [dev EXCEPT !.state = "SETUP"]
       \/ UNCHANGED <<pcm, dev>>      \* the DROP ioctl fails
    /\ UNCHANGED call

\* pcm_mmap_transfer() starts the stream at the threshold.  N - avail is
\* unsigned: an avail above the buffer size counts as reaching it.
ReachesThreshold == ~pcm.running /\ (call.avail > N \/ N - call.avail >= StartThreshold)

-----------------------------------------------------------------------------
(* pcm_write() and pcm_read(): one step per round of their loop. *)

PcmWrite == Ready /\ ~pcm.mmap /\ ~pcm.input
            /\ call' = [Idle EXCEPT !.op = "write"] /\ UNCHANGED <<pcm, dev>>
PcmRead == Ready /\ ~pcm.mmap /\ pcm.input
           /\ call' = [Idle EXCEPT !.op = "read"] /\ UNCHANGED <<pcm, dev>>

\* The first write of a stream prepares it; its failure leaves it prepared.
WriteInitial ==
    /\ call.op = "write" /\ ~pcm.running
    /\ LET d == AfterPrepare
           ok == d.state \in {"PREPARED", "RUNNING"}
       IN  \E st \in IF ok THEN {"PREPARED", "RUNNING", "XRUN"} ELSE {d.state} :
              /\ dev' = [d EXCEPT !.state = st, !.fill = IF st = "RUNNING" THEN N ELSE @]
              /\ Return([pcm EXCEPT !.prepared = TRUE, !.running = ok /\ st # "XRUN"])

\* Later writes: an error drops both flags, and an underrun is retried from
\* the top unless the caller asked for PCM_NORESTART.
WriteRunning ==
    /\ call.op = "write" /\ pcm.running
    /\ \/ /\ XferAccepts
          /\ dev' = [dev EXCEPT !.state = "RUNNING", !.fill = N]
          /\ Return(pcm)
       \/ /\ ~XferAccepts
          /\ pcm' = [pcm EXCEPT !.prepared = FALSE, !.running = FALSE]
          /\ call' = IF XferError = "EPIPE" /\ ~pcm.option THEN call ELSE Idle
          /\ UNCHANGED dev

\* A round of pcm_read() starts the stream when it does not run.
ReadRound ==
    /\ call.op = "read"
    /\ LET d == IF pcm.running THEN dev ELSE AfterPrepare
           started == pcm.running \/ CanStart(d)
           ok == started /\ d.state \in {"PREPARED", "RUNNING"}
       IN  \/ /\ ~started                       \* pcm_start() failed
              /\ dev' = d
              /\ Return([pcm EXCEPT !.prepared = TRUE])
           \/ /\ ok
              /\ dev' = [d EXCEPT !.state = "RUNNING", !.fill = 0]
              /\ Return([pcm EXCEPT !.prepared = TRUE, !.running = TRUE])
           \/ /\ started                        \* an overrun meanwhile, or a suspend
              /\ dev' = IF ok THEN [d EXCEPT !.state = "XRUN"] ELSE d
              /\ pcm' = [pcm EXCEPT !.prepared = FALSE, !.running = FALSE]
              /\ call' = IF ok \/ XferError = "EPIPE" THEN call ELSE Idle

\* The PREPARE ioctl may be refused, which ends the call.
PrepareFails ==
    /\ ~pcm.prepared /\ ~pcm.running
    /\ \/ call.op \in {"write", "read"}
       \/ call.op = "decide" /\ ReachesThreshold
    /\ call' = Idle
    /\ UNCHANGED <<pcm, dev>>

-----------------------------------------------------------------------------
(* The mmap ring *)

\* pcm_mmap_playback_avail(), pcm_mmap_capture_avail()
PlaybackAvail ==
    LET a == dev.hw + N - pcm.appl
    IN  IF a < 0 THEN a + Boundary ELSE IF a > Boundary THEN a - Boundary ELSE a

CaptureAvail ==
    LET a == dev.hw - pcm.appl IN IF a < 0 THEN a + Boundary ELSE a

Avail == IF pcm.input THEN CaptureAvail ELSE PlaybackAvail

\* The check for the boundary is missing.
ApplForward_NoWrap(frames) == pcm.appl + frames

\* pcm_mmap_appl_forward()
ApplForward(frames) ==
    LET a == pcm.appl + frames IN IF a > Boundary THEN a - Boundary ELSE a

\* pcm_mmap_begin(): how much of size frames can be copied in one piece.
AtMost(a, b) == IF a > b THEN b ELSE a
Begin(size) ==
    AtMost(AtMost(size, AtMost(Avail, N)), N - (pcm.appl % N))

\* pcm_mmap_transfer().  Bound: no new transfer into a ring that already holds
\* more than it has room for.
PcmMmapTransfer(count) ==
    /\ Ready /\ pcm.mmap
    /\ pcm.input \/ dev.fill <= N
    /\ call' = [op |-> "update", left |-> count, avail |-> 0]
    /\ UNCHANGED <<pcm, dev>>

TransferUpdate ==
    /\ call.op = "update"
    /\ call' = [call EXCEPT !.op = "decide", !.avail = Avail]
    /\ UNCHANGED <<pcm, dev>>

\* The rest of the loop's body, up to the copy or the sleep.
Decided(p, d) ==
    /\ pcm' = p /\ dev' = d
    /\ call' = IF p.running /\ call.avail < 1 THEN [call EXCEPT !.op = "wait"]
               ELSE IF call.avail = 0 THEN Idle
               ELSE [call EXCEPT !.op = "copy", !.avail = AtMost(call.left, call.avail)]

\* Sleeping also when the stream has not been started.
TransferDecide_Sleeps ==
    /\ call.op = "decide"
    /\ UNCHANGED <<pcm, dev>>
    /\ call' = IF call.avail < 1 THEN [call EXCEPT !.op = "wait"]
               ELSE [call EXCEPT !.op = "copy", !.avail = AtMost(call.left, call.avail)]

TransferDecide ==
    /\ call.op = "decide"
    /\ \/ /\ ~ReachesThreshold
          /\ Decided(pcm, dev)
       \/ /\ ReachesThreshold /\ CanStart(AfterPrepare)
          /\ Decided([pcm EXCEPT !.prepared = TRUE, !.running = TRUE, !.appl = ApplAfterPrepare],
                     [AfterPrepare EXCEPT !.state = "RUNNING"])
       \/ /\ ReachesThreshold /\ ~CanStart(AfterPrepare)
          /\ dev' = AfterPrepare
          /\ Return([pcm EXCEPT !.prepared = TRUE, !.appl = ApplAfterPrepare])

\* pcm_wait(): poll() asks for POLLOUT only, so that frames end it for playback
\* and a capture stays until the stream stops with an error.  With PCM_NOIRQ it
\* also ends by its timeout.  The error path zeroes the application pointer.
TransferWait ==
    /\ call.op = "wait"
    /\ \/ /\ dev.state \in {"RUNNING", "PREPARED"}
          /\ (Avail >= 1 /\ ~pcm.input) \/ pcm.option
          /\ call' = [call EXCEPT !.op = "update"]
          /\ UNCHANGED <<pcm, dev>>
       \/ /\ dev.state \notin {"RUNNING", "PREPARED"}
          /\ dev' = [dev EXCEPT !.synced = FALSE, !.fill = 0]
          /\ Return([pcm EXCEPT !.prepared = FALSE, !.running = FALSE, !.appl = 0])

\* One round of pcm_mmap_transfer_areas(): begin, copy, commit.  call.avail is
\* what is left of the area.
TransferCopy ==
    /\ call.op = "copy"
    /\ LET frames == Begin(call.avail)
           left == call.left - frames
           area == call.avail - frames
       IN  /\ pcm' = [pcm EXCEPT !.appl = ApplForward(frames)]
           /\ dev' = [dev EXCEPT !.fill = IF ~dev.synced THEN 0
                                          ELSE IF pcm.input THEN @ - frames ELSE @ + frames]
           /\ call' = IF area > 0 THEN [call EXCEPT !.left = left, !.avail = area]
                      ELSE IF left > 0 THEN [op |-> "update", left |-> left, avail |-> 0]
                      ELSE Idle

-----------------------------------------------------------------------------
Transfer == TransferUpdate \/ TransferDecide \/ TransferWait \/ TransferCopy

Next ==
    \/ \E input, mmap, option \in BOOLEAN : PcmOpen(input, mmap, option)
    \/ PcmClose
    \/ PcmPrepare
    \/ PcmStart
    \/ PcmStop
    \/ PcmWrite
    \/ PcmRead
    \/ WriteInitial
    \/ WriteRunning
    \/ ReadRound
    \/ PrepareFails
    \/ \E count \in 1..MaxCount : PcmMmapTransfer(count)
    \/ Transfer
    \/ HwAdvance
    \/ Suspend

\* The calling thread goes on, and a running device moves its pointer.
Fairness == WF_vars(Transfer) /\ WF_vars(HwAdvance)
Spec == Init /\ [][Next]_vars /\ Fairness

-----------------------------------------------------------------------------
(* Properties *)

\* What pcm_mmap_avail() computes from the two wrapped pointers is the room
\* (playback) or the data (capture) the ring really has, over any number of
\* wraps of either pointer; for playback, as long as the ring is not exactly
\* full.  The pointers wrap by different rules: the application's may rest on
\* the boundary itself, the hardware's is 0 there.
AvailExact ==
    (pcm.st = "ready" /\ pcm.mmap /\ dev.synced) =>
        IF pcm.input THEN Avail = dev.fill
        ELSE dev.fill < N => Avail = N - dev.fill

\* Every mmap capture returns: what it sleeps for comes, be it the overrun that
\* ends poll(), though the arrival of frames does not.
\* The exception is a device suspended in the middle of one: when the start in
\* the loop dropped what avail had counted, pcm_mmap_transfer_areas() spins on
\* areas of no frames until the device moves.
CaptureReturns ==
    (call.op = "update" /\ pcm.input) ~> (call.op = "none" \/ dev.state = "SUSPENDED")
=============================================================================
