---------------------------- MODULE TinyPcmProofs ----------------------------
(***************************************************************************)
(* The proof that the mmap ring of TinyPcm counts its frames exactly, for  *)
(* every buffer size, boundary, threshold and length of a transfer.        *)
(*                                                                         *)
(* The two pointers wrap by different rules, so their difference is the    *)
(* number of frames only up to one boundary.  The invariant says by how    *)
(* much it may be off (Ring), which needs bounds on the frames (Bounded),  *)
(* and these need that the call under way belongs to the stream (Calls).   *)
(***************************************************************************)
EXTENDS TinyPcm, TLAPS

PcmType == [st : {"none", "ready", "failed"}, input : BOOLEAN, mmap : BOOLEAN, option : BOOLEAN,
            running : BOOLEAN, prepared : BOOLEAN, appl : 0..Boundary]
DevType == [state : {"OPEN", "SETUP", "PREPARED", "RUNNING", "XRUN", "SUSPENDED"},
            hw : 0..(Boundary - 1), fill : Int, synced : BOOLEAN]
CallType == [op : {"none", "write", "read", "update", "decide", "wait", "copy"},
             left : Nat, avail : Nat]

Types == pcm \in PcmType /\ dev \in DevType /\ call \in CallType

\* The thread is in a call of a stream that is open and of the right kind, and
\* copies no more than is left of its transfer.
Calls ==
    /\ pcm.st # "ready" => call.op = "none"
    /\ call.op = "none" => call.left = 0
    /\ call.op \in {"write", "read"} => ~pcm.mmap
    /\ call.op \in {"update", "decide", "wait", "copy"} => pcm.mmap
    /\ call.op = "copy" => call.avail <= call.left

Active(d) == d.state \in {"PREPARED", "RUNNING"}

\* How many frames an mmap ring can hold.
BoundedAt(p, d, c) ==
    p.st = "ready" /\ p.mmap =>
        /\ d.fill >= 0
        /\ Active(d) => d.synced
        /\ p.input => /\ d.fill < Boundary
                      /\ Active(d) => d.fill = 0 \/ d.fill < StopThreshold
        /\ ~p.input => /\ d.fill + c.left <= N + MaxCount
                       /\ d.state = "RUNNING" => d.fill > 0

\* How the pointers stand to the frames between them.
RingAt(p, d) ==
    p.st = "ready" /\ p.mmap /\ d.synced =>
        IF p.input THEN d.hw - p.appl \in {d.fill, d.fill - Boundary}
        ELSE p.appl - d.hw \in {d.fill, d.fill - Boundary, d.fill + Boundary}

Bounded == BoundedAt(pcm, dev, call)
Ring == RingAt(pcm, dev)
IInv == Types /\ Calls /\ Bounded /\ Ring

\* Initially there is no stream.
LEMMA InitInvariant == Init => IInv
BY PcmAssumption DEF Init, IInv, Types, Calls, Bounded, BoundedAt, Ring, RingAt, Idle, NoPcm, NoDev,
   PcmType, DevType, CallType

\* What pcm_mmap_avail() computes is never negative.
LEMMA AvailNatural ==
    ASSUME Types
    PROVE  Avail \in Nat
<1>1. dev.hw \in 0..(Boundary - 1) /\ pcm.appl \in 0..Boundary
  BY DEF Types, DevType, PcmType
<1>2. CaptureAvail \in Nat
  BY <1>1, PcmAssumption DEF CaptureAvail
<1>3. PlaybackAvail \in Nat
  BY <1>1, PcmAssumption DEF PlaybackAvail
<1> QED BY <1>2, <1>3 DEF Avail

\* The invariant is strong enough: the free or filled frames are exact.
LEMMA InvariantGivesExact ==
    ASSUME IInv
    PROVE  AvailExact
<1> SUFFICES ASSUME pcm.st = "ready", pcm.mmap, dev.synced
             PROVE  IF pcm.input THEN Avail = dev.fill ELSE dev.fill < N => Avail = N - dev.fill
  BY DEF AvailExact
<1>1. dev.hw \in 0..(Boundary - 1) /\ pcm.appl \in 0..Boundary /\ dev.fill \in Int
  BY DEF IInv, Types, DevType, PcmType
<1>2. dev.fill >= 0
  BY DEF IInv, Bounded, BoundedAt
<1>3. ASSUME pcm.input PROVE Avail = dev.fill
  <2>1. dev.fill < Boundary /\ dev.hw - pcm.appl \in {dev.fill, dev.fill - Boundary}
    BY <1>3 DEF IInv, Bounded, BoundedAt, Ring, RingAt
  <2> QED BY <1>1, <1>2, <1>3, <2>1, PcmAssumption DEF Avail, CaptureAvail
<1>4. ASSUME ~pcm.input, dev.fill < N PROVE Avail = N - dev.fill
  <2>1. pcm.appl - dev.hw \in {dev.fill, dev.fill - Boundary, dev.fill + Boundary}
    BY <1>4 DEF IInv, Ring, RingAt
  <2> QED BY <1>1, <1>2, <1>4, <2>1, PcmAssumption DEF Avail, PlaybackAvail
<1> QED BY <1>3, <1>4

\* What the PREPARE ioctl makes of the device.
LEMMA PreparedType ==
    ASSUME NEW d \in DevType
    PROVE  /\ Prepared(d) \in DevType /\ Prepared(d).state = "PREPARED" /\ Prepared(d).fill = 0
           /\ Prepared(d).synced /\ Prepared(d).hw = d.hw
<1> DEFINE d1 == [d EXCEPT !.state = "PREPARED"]
           d2 == [d1 EXCEPT !.fill = 0]
           d3 == [d2 EXCEPT !.synced = TRUE]
<1>1. d1 \in DevType /\ d1.state = "PREPARED" /\ d1.hw = d.hw
  BY DEF DevType
<1> HIDE DEF d1
<1>2. d2 \in DevType /\ d2.state = "PREPARED" /\ d2.hw = d.hw /\ d2.fill = 0
  BY <1>1 DEF DevType
<1> HIDE DEF d2
<1>3. d3 \in DevType /\ d3.state = "PREPARED" /\ d3.hw = d.hw /\ d3.fill = 0 /\ d3.synced
  BY <1>2 DEF DevType
<1>4. Prepared(d) = d3
  BY DEF Prepared, d1, d2
<1> QED BY <1>3, <1>4

\* pcm_prepare() empties the ring and puts the pointers together, or leaves both.
LEMMA PrepareFacts ==
    ASSUME IInv
    PROVE  /\ AfterPrepare \in DevType /\ ApplAfterPrepare \in 0..Boundary
           /\ AfterPrepare.hw = dev.hw
           /\ \/ AfterPrepare = dev /\ ApplAfterPrepare = pcm.appl
              \/ /\ AfterPrepare.state = "PREPARED" /\ AfterPrepare.fill = 0
                 /\ AfterPrepare.synced /\ ApplAfterPrepare = dev.hw
<1>1. pcm \in PcmType /\ dev \in DevType
  BY DEF IInv, Types
<1>2. CASE pcm.prepared
  BY <1>1, <1>2 DEF AfterPrepare, ApplAfterPrepare, PcmType, DevType
<1>3. CASE ~pcm.prepared
  <2>1. AfterPrepare = Prepared(dev) /\ ApplAfterPrepare = dev.hw
    BY <1>3 DEF AfterPrepare, ApplAfterPrepare
  <2>2. dev.hw \in 0..Boundary
    BY <1>1, PcmAssumption DEF DevType
  <2> QED BY <1>1, <2>1, <2>2, PreparedType
<1> QED BY <1>2, <1>3

\* pcm_prepare(), and pcm_start() where the kernel accepts it, keep the ring.
LEMMA PrepareKeepsRing ==
    ASSUME IInv, NEW p \in PcmType, NEW d \in DevType, NEW c \in CallType,
           p.st = pcm.st, p.input = pcm.input, p.mmap = pcm.mmap, p.appl = ApplAfterPrepare,
           d.hw = dev.hw, d.fill = AfterPrepare.fill, d.synced = AfterPrepare.synced,
           d.state = AfterPrepare.state \/ (CanStart(AfterPrepare) /\ d.state = "RUNNING"),
           c.left <= call.left
    PROVE  BoundedAt(p, d, c) /\ RingAt(p, d)
<1>1. pcm \in PcmType /\ dev \in DevType /\ call \in CallType
  BY DEF IInv, Types
<1> SUFFICES ASSUME p.st = "ready", p.mmap
             PROVE  BoundedAt(p, d, c) /\ RingAt(p, d)
  BY DEF BoundedAt, RingAt
<1>2. /\ dev.fill >= 0
      /\ Active(dev) => dev.synced
      /\ pcm.input => /\ dev.fill < Boundary
                      /\ Active(dev) => dev.fill = 0 \/ dev.fill < StopThreshold
      /\ ~pcm.input => /\ dev.fill + call.left <= N + MaxCount
                       /\ dev.state = "RUNNING" => dev.fill > 0
  BY DEF IInv, Bounded, BoundedAt
<1>3. CanStart(AfterPrepare) => AfterPrepare.state = "PREPARED" /\ (pcm.input \/ AfterPrepare.fill > 0)
  BY DEF CanStart
<1>4. c.left \in Nat /\ call.left \in Nat /\ dev.fill \in Int /\ dev.hw \in 0..(Boundary - 1)
  BY <1>1 DEF CallType, DevType
<1>5. CASE AfterPrepare = dev /\ ApplAfterPrepare = pcm.appl
  <2>1. BoundedAt(p, d, c)
    BY <1>2, <1>3, <1>4, <1>5, PcmAssumption DEF BoundedAt, Active
  <2>2. RingAt(p, d)
    BY <1>5 DEF IInv, Ring, RingAt
  <2> QED BY <2>1, <2>2
<1>6. CASE /\ AfterPrepare.state = "PREPARED" /\ AfterPrepare.fill = 0
           /\ AfterPrepare.synced /\ ApplAfterPrepare = dev.hw
  <2>1. BoundedAt(p, d, c)
    <3>1. call.left <= N + MaxCount \/ pcm.input
      BY <1>2, <1>4, PcmAssumption
    <3> QED BY <1>3, <1>4, <1>6, <3>1, PcmAssumption DEF BoundedAt, Active
  <2>2. RingAt(p, d)
    BY <1>4, <1>6 DEF RingAt
  <2> QED BY <2>1, <2>2
<1> QED BY <1>5, <1>6, PrepareFacts

\* The handle and the device before a stream is opened.
LEMMA EmptyTypes ==
    /\ NoPcm \in PcmType /\ NoPcm.appl = 0
    /\ NoDev \in DevType /\ NoDev.hw = 0 /\ NoDev.fill = 0 /\ NoDev.synced
BY PcmAssumption DEF NoPcm, NoDev, PcmType, DevType

\* Opening, closing and stopping.
LEMMA OpenCloseStop ==
    ASSUME IInv,
           \/ \E input, mmap, option \in BOOLEAN : PcmOpen(input, mmap, option)
           \/ PcmClose \/ PcmStop \/ Suspend
    PROVE  IInv'
<1>1. pcm \in PcmType /\ dev \in DevType /\ call \in CallType
  BY DEF IInv, Types
<1>2. ASSUME NEW input \in BOOLEAN, NEW mmap \in BOOLEAN, NEW option \in BOOLEAN,
             PcmOpen(input, mmap, option)
      PROVE  IInv'
  <2>1. call' = call /\ call.op = "none" /\ call.left = 0
    BY <1>2 DEF PcmOpen, IInv, Calls
  <2>2. CASE /\ pcm' = [NoPcm EXCEPT !.st = "ready", !.input = input, !.mmap = mmap, !.option = option]
             /\ dev' = [NoDev EXCEPT !.state = "SETUP"]
    <3>1. /\ pcm' \in PcmType /\ dev' \in DevType /\ pcm'.appl = 0
          /\ dev'.hw = 0 /\ dev'.fill = 0 /\ dev'.state = "SETUP" /\ dev'.synced
      BY <2>2, EmptyTypes DEF PcmType, DevType
    <3>2. BoundedAt(pcm', dev', call') /\ RingAt(pcm', dev')
      BY <2>1, <3>1, PcmAssumption DEF BoundedAt, RingAt, Active
    <3> QED BY <1>1, <2>1, <3>1, <3>2 DEF IInv, Types, Calls, Bounded, Ring
  <2>3. CASE pcm' = [NoPcm EXCEPT !.st = "failed", !.mmap = mmap] /\ UNCHANGED dev
    <3>1. pcm' \in PcmType /\ pcm'.st = "failed"
      BY <2>3, EmptyTypes DEF PcmType
    <3> QED BY <1>1, <2>1, <2>3, <3>1 DEF IInv, Types, Calls, Bounded, BoundedAt, Ring, RingAt
  <2> QED BY <1>2, <2>2, <2>3 DEF PcmOpen
<1>3. CASE PcmClose
  <2>1. call' = call /\ call.op = "none" /\ call.left = 0
    BY <1>3 DEF PcmClose, Ready, IInv, Calls
  <2>2. pcm' \in PcmType /\ dev' \in DevType /\ pcm'.st = "none"
    BY <1>3, PcmAssumption DEF PcmClose, NoPcm, NoDev, PcmType, DevType
  <2> QED BY <1>1, <2>1, <2>2 DEF IInv, Types, Calls, Bounded, BoundedAt, Ring, RingAt
<1>4. CASE PcmStop \/ Suspend
  <2>1. call' = call
    BY <1>4 DEF PcmStop, Suspend
  <2>2. /\ pcm' \in PcmType /\ pcm'.st = pcm.st /\ pcm'.input = pcm.input
        /\ pcm'.mmap = pcm.mmap /\ pcm'.appl = pcm.appl
    BY <1>1, <1>4 DEF PcmStop, Suspend, PcmType
  <2>3. /\ dev' \in DevType /\ dev'.hw = dev.hw /\ dev'.fill = dev.fill /\ dev'.synced = dev.synced
        /\ dev' = dev \/ dev'.state \in {"SETUP", "SUSPENDED"}
    BY <1>1, <1>4 DEF PcmStop, Suspend, DevType
  <2>4. Bounded'
    BY <2>1, <2>2, <2>3 DEF IInv, Bounded, BoundedAt, Active
  <2>5. Ring' /\ Calls' /\ Types'
    BY <1>1, <2>1, <2>2, <2>3 DEF IInv, Types, Calls, Ring, RingAt
  <2> QED BY <2>4, <2>5 DEF IInv
<1> QED BY <1>2, <1>3, <1>4

\* Of the fields of struct pcm only prepared, running and the pointer change
\* in its life.
SameStream(p, q) == q \in PcmType /\ q.st = p.st /\ q.input = p.input /\ q.mmap = p.mmap

\* An assignment to pcm->prepared or pcm->running.
LEMMA SetFlags ==
    ASSUME NEW p \in PcmType, NEW v \in BOOLEAN
    PROVE  /\ SameStream(p, [p EXCEPT !.prepared = v]) /\ [p EXCEPT !.prepared = v].appl = p.appl
           /\ SameStream(p, [p EXCEPT !.running = v]) /\ [p EXCEPT !.running = v].appl = p.appl
BY DEF SameStream, PcmType

\* An assignment to the application pointer.
LEMMA SetAppl ==
    ASSUME NEW p \in PcmType, NEW a \in 0..Boundary
    PROVE  SameStream(p, [p EXCEPT !.appl = a]) /\ [p EXCEPT !.appl = a].appl = a
BY DEF SameStream, PcmType

\* Assignments to pcm->prepared and pcm->running.
LEMMA SetBothFlags ==
    ASSUME NEW p \in PcmType, NEW u \in BOOLEAN, NEW v \in BOOLEAN
    PROVE  /\ SameStream(p, [p EXCEPT !.prepared = u, !.running = v])
           /\ [p EXCEPT !.prepared = u, !.running = v].appl = p.appl
<1> DEFINE q == [p EXCEPT !.prepared = u]
           r == [q EXCEPT !.running = v]
<1>1. SameStream(p, q) /\ q.appl = p.appl
  BY SetFlags
<1> HIDE DEF q
<1>2. q \in PcmType
  BY <1>1 DEF SameStream
<1>3. SameStream(q, r) /\ r.appl = q.appl
  BY <1>2, SetFlags
<1>4. [p EXCEPT !.prepared = u, !.running = v] = r
  BY DEF q
<1> QED BY <1>1, <1>3, <1>4 DEF SameStream

\* Assignments to the device's state.
LEMMA SetState ==
    ASSUME NEW d \in DevType,
           NEW s \in {"OPEN", "SETUP", "PREPARED", "RUNNING", "XRUN", "SUSPENDED"}
    PROVE  /\ [d EXCEPT !.state = s] \in DevType /\ [d EXCEPT !.state = s].state = s
           /\ [d EXCEPT !.state = s].hw = d.hw /\ [d EXCEPT !.state = s].fill = d.fill
           /\ [d EXCEPT !.state = s].synced = d.synced
BY DEF DevType

\* A transfer ioctl changes the state and the frames.
LEMMA SetStateFill ==
    ASSUME NEW d \in DevType, NEW f \in Int,
           NEW s \in {"OPEN", "SETUP", "PREPARED", "RUNNING", "XRUN", "SUSPENDED"}
    PROVE  [d EXCEPT !.state = s, !.fill = f] \in DevType
<1> DEFINE e == [d EXCEPT !.state = s]
<1>1. e \in DevType
  BY SetState
<1> HIDE DEF e
<1>2. [e EXCEPT !.fill = f] \in DevType
  BY <1>1 DEF DevType
<1> QED BY <1>2 DEF e

\* pcm_prepare() and pcm_start().
LEMMA PrepareStart ==
    ASSUME IInv, PcmPrepare \/ PcmStart
    PROVE  IInv'
<1>1. pcm \in PcmType /\ dev \in DevType /\ call \in CallType /\ call' = call /\ call.left \in Nat
  BY DEF IInv, Types, CallType, PcmPrepare, PcmStart
<1> DEFINE p1 == [pcm EXCEPT !.prepared = TRUE]
           p2 == [p1 EXCEPT !.appl = ApplAfterPrepare]
<1>2. SameStream(pcm, p1)
  BY <1>1, SetFlags
<1>3. p1 \in PcmType
  BY <1>2 DEF SameStream
<1> HIDE DEF p1
<1>4. SameStream(p1, p2) /\ p2.appl = ApplAfterPrepare
  BY <1>3, PrepareFacts, SetAppl
<1>5. SameStream(pcm, p2) /\ p2 \in PcmType
  BY <1>2, <1>4 DEF SameStream
<1>6. SameStream(pcm, pcm') /\ pcm'.appl = ApplAfterPrepare
  <2>1. CASE PcmPrepare
    <3>1. pcm' = p2
      BY <2>1 DEF PcmPrepare, p1
    <3> QED BY <1>4, <1>5, <3>1
  <2>2. CASE PcmStart
    <3> DEFINE r == pcm.running \/ CanStart(AfterPrepare)
    <3>1. pcm' = [p2 EXCEPT !.running = r] /\ r \in BOOLEAN
      <4>1. p2.running = pcm.running
        BY <1>1, <1>3 DEF p1, PcmType
      <4>2. r \in BOOLEAN
        OBVIOUS
      <4>3. pcm' = [p2 EXCEPT !.running = p2.running \/ CanStart(AfterPrepare)]
        BY <2>2 DEF PcmStart, p1
      <4> QED BY <4>1, <4>2, <4>3
    <3> HIDE DEF p2, r
    <3>2. SameStream(p2, pcm') /\ pcm'.appl = p2.appl
      BY <1>5, <3>1, SetFlags
    <3> QED BY <1>4, <1>5, <3>2 DEF SameStream
  <2> QED BY <2>1, <2>2
<1>7. /\ dev' \in DevType /\ dev'.hw = dev.hw /\ dev'.fill = AfterPrepare.fill
      /\ dev'.synced = AfterPrepare.synced
      /\ dev'.state = AfterPrepare.state \/ (CanStart(AfterPrepare) /\ dev'.state = "RUNNING")
  <2>1. AfterPrepare \in DevType /\ AfterPrepare.hw = dev.hw
    BY PrepareFacts
  <2>2. CASE dev' = AfterPrepare
    BY <2>1, <2>2
  <2>3. CASE CanStart(AfterPrepare) /\ dev' = [AfterPrepare EXCEPT !.state = "RUNNING"]
    BY <2>1, <2>3, SetState
  <2>4. CASE dev' = [AfterPrepare EXCEPT !.state = @]
    BY <2>1, <2>4 DEF DevType
  <2> QED BY <2>2, <2>3, <2>4 DEF PcmPrepare, PcmStart
<1>8. BoundedAt(pcm', dev', call') /\ RingAt(pcm', dev')
  BY <1>1, <1>6, <1>7, PrepareKeepsRing DEF SameStream
<1> QED BY <1>1, <1>6, <1>7, <1>8 DEF IInv, Types, Calls, Bounded, Ring, SameStream

\* A step on a stream that is not mapped: the ring is not in use.
LEMMA NotMapped ==
    ASSUME IInv, ~pcm.mmap, SameStream(pcm, pcm'), dev' \in DevType,
           call' = call \/ call' = Idle, call.op \in {"none", "write", "read"}
    PROVE  IInv'
<1>1. pcm' \in PcmType /\ pcm'.st = pcm.st /\ ~pcm'.mmap
  BY DEF SameStream, IInv, Types, PcmType
<1>2. call' \in CallType /\ (call' = call \/ (call'.op = "none" /\ call'.left = 0))
  BY DEF IInv, Types, Idle, CallType
<1>3. Types' /\ Calls'
  BY <1>1, <1>2 DEF IInv, Types, Calls
<1> QED BY <1>1, <1>3 DEF IInv, Bounded, BoundedAt, Ring, RingAt

\* pcm_write() and pcm_read().
LEMMA WriteRead ==
    ASSUME IInv, WriteInitial \/ WriteRunning \/ ReadRound
    PROVE  IInv'
<1>1. pcm \in PcmType /\ dev \in DevType /\ call \in CallType
  BY DEF IInv, Types
<1>2. call.op \in {"write", "read"} /\ ~pcm.mmap
  BY DEF IInv, Calls, WriteInitial, WriteRunning, ReadRound
<1>3. AfterPrepare \in DevType
  BY PrepareFacts
<1>4. call' = call \/ call' = Idle
  BY DEF WriteInitial, WriteRunning, ReadRound, Return
<1>5. SameStream(pcm, pcm')
  <2>1. \/ pcm' = pcm
        \/ pcm' = [pcm EXCEPT !.prepared = TRUE]
        \/ \E u, v \in BOOLEAN : pcm' = [pcm EXCEPT !.prepared = u, !.running = v]
    <3>1. CASE WriteInitial
      <4>1. PICK d, st : pcm' = [pcm EXCEPT !.prepared = TRUE, !.running = d /\ st # "XRUN"]
        BY <3>1, Zenon DEF WriteInitial, Return
      <4>2. (d /\ st # "XRUN") \in BOOLEAN
        OBVIOUS
      <4> QED BY <4>1, <4>2
    <3>2. CASE WriteRunning
      BY <3>2 DEF WriteRunning, Return
    <3>3. CASE ReadRound
      BY <3>3, Zenon DEF ReadRound, Return
    <3> QED BY <3>1, <3>2, <3>3
  <2>2. SameStream(pcm, pcm)
    BY <1>1 DEF SameStream
  <2>3. ASSUME NEW u \in BOOLEAN, NEW v \in BOOLEAN,
               pcm' = [pcm EXCEPT !.prepared = u, !.running = v]
        PROVE  SameStream(pcm, pcm')
    <3>1. SameStream(pcm, [pcm EXCEPT !.prepared = u, !.running = v])
      BY <1>1, SetBothFlags
    <3> QED BY <2>3, <3>1, Zenon
  <2>4. CASE pcm' = [pcm EXCEPT !.prepared = TRUE]
    <3>1. SameStream(pcm, [pcm EXCEPT !.prepared = TRUE])
      BY <1>1, SetFlags
    <3> QED BY <2>4, <3>1, Zenon
  <2> QED BY <2>1, <2>2, <2>3, <2>4, Zenon
<1>6. dev' \in DevType
  <2> DEFINE States == {"OPEN", "SETUP", "PREPARED", "RUNNING", "XRUN", "SUSPENDED"}
  <2>1. CASE WriteInitial
    <3>1. PICK st \in States : dev' = [AfterPrepare EXCEPT !.state = st,
                                                          !.fill = IF st = "RUNNING" THEN N ELSE @]
      BY <1>3, <2>1 DEF WriteInitial, DevType
    <3>2. AfterPrepare.fill \in Int /\ N \in Int
      BY <1>3, PcmAssumption DEF DevType
    <3>3. PICK f \in Int : dev' = [AfterPrepare EXCEPT !.state = st, !.fill = f]
      <4>1. (IF st = "RUNNING" THEN N ELSE AfterPrepare.fill) \in Int
        BY <3>2
      <4>2. [AfterPrepare EXCEPT !.state = st].fill = AfterPrepare.fill
        BY <1>3, SetState
      <4> QED BY <3>1, <4>1, <4>2
    <3> QED BY <1>3, <3>3, SetStateFill
  <2>2. CASE WriteRunning
    <3>1. N \in Int
      BY PcmAssumption
    <3>2. dev' = dev \/ dev' = [dev EXCEPT !.state = "RUNNING", !.fill = N]
      BY <2>2 DEF WriteRunning
    <3> QED BY <1>1, <3>1, <3>2, SetStateFill
  <2>3. CASE ReadRound
    <3>1. \E d \in {dev, AfterPrepare} :
             \/ dev' = d
             \/ dev' = [d EXCEPT !.state = "RUNNING", !.fill = 0]
             \/ dev' = [d EXCEPT !.state = "XRUN"]
      BY <2>3 DEF ReadRound
    <3>2. ASSUME NEW d \in DevType
          PROVE  [d EXCEPT !.state = "RUNNING", !.fill = 0] \in DevType /\ [d EXCEPT !.state = "XRUN"] \in DevType
      <4>1. "RUNNING" \in States /\ "XRUN" \in States /\ 0 \in Int
        OBVIOUS
      <4>2. [d EXCEPT !.state = "RUNNING", !.fill = 0] \in DevType
        BY <4>1, SetStateFill
      <4>3. [d EXCEPT !.state = "XRUN"] \in DevType
        BY <4>1, SetState
      <4> QED BY <4>2, <4>3
    <3> QED BY <1>1, <1>3, <3>1, <3>2, Zenon
  <2> QED BY <2>1, <2>2, <2>3
<1> QED BY <1>2, <1>4, <1>5, <1>6, NotMapped

\* The calls begin, and an ioctl refused ends one.
LEMMA CallsBegin ==
    ASSUME IInv,
           \/ PcmWrite \/ PcmRead \/ PrepareFails
           \/ \E count \in 1..MaxCount : PcmMmapTransfer(count)
    PROVE  IInv'
<1>1. pcm \in PcmType /\ dev \in DevType /\ call \in CallType /\ pcm' = pcm /\ dev' = dev
  BY DEF IInv, Types, PcmWrite, PcmRead, PrepareFails, PcmMmapTransfer
<1>2. CASE PcmWrite \/ PcmRead
  <2>1. ~pcm.mmap /\ pcm.st = "ready"
    BY <1>2 DEF PcmWrite, PcmRead, Ready
  <2>2. call' \in CallType /\ call'.op \in {"write", "read"}
    BY <1>2 DEF PcmWrite, PcmRead, Idle, CallType
  <2> QED BY <1>1, <2>1, <2>2 DEF IInv, Types, Calls, Bounded, BoundedAt, Ring, RingAt
<1>3. CASE PrepareFails
  <2>1. call' \in CallType /\ call'.op = "none" /\ call'.left = 0
    BY <1>3 DEF PrepareFails, Idle, CallType
  <2>2. Types' /\ Calls' /\ Ring'
    BY <1>1, <2>1 DEF IInv, Types, Calls, Ring, RingAt
  <2>3. call.left \in Nat /\ dev.fill \in Int
    BY <1>1 DEF CallType, DevType
  <2>4. Bounded'
    BY <1>1, <2>1, <2>3, PcmAssumption DEF IInv, Bounded, BoundedAt
  <2> QED BY <2>2, <2>4 DEF IInv
<1>4. ASSUME NEW count \in 1..MaxCount, PcmMmapTransfer(count)
      PROVE  IInv'
  <2>1. call' \in CallType /\ call'.op = "update" /\ call'.left = count
    BY <1>4, PcmAssumption DEF PcmMmapTransfer, CallType
  <2>2. pcm.st = "ready" /\ pcm.mmap /\ (pcm.input \/ dev.fill <= N)
    BY <1>4 DEF PcmMmapTransfer, Ready
  <2>3. Types' /\ Calls' /\ Ring'
    BY <1>1, <2>1, <2>2 DEF IInv, Types, Calls, Ring, RingAt
  <2>4. dev.fill \in Int
    BY <1>1 DEF DevType
  <2>5. Bounded'
    BY <1>1, <2>1, <2>2, <2>4, PcmAssumption DEF IInv, Bounded, BoundedAt
  <2> QED BY <2>3, <2>5 DEF IInv
<1> QED BY <1>2, <1>3, <1>4

\* The device takes or delivers a frame.
LEMMA HardwareMoves ==
    ASSUME IInv, HwAdvance
    PROVE  IInv'
<1>1. pcm \in PcmType /\ dev \in DevType /\ call \in CallType /\ pcm' = pcm /\ call' = call
  BY DEF IInv, Types, HwAdvance
<1>2. /\ dev.hw \in 0..(Boundary - 1) /\ dev.fill \in Int /\ pcm.appl \in 0..Boundary /\ call.left \in Nat
      /\ dev.state = "RUNNING" /\ dev.synced /\ pcm.st = "ready"
  BY <1>1 DEF DevType, PcmType, CallType, HwAdvance
<1> DEFINE hw == IF dev.hw + 1 = Boundary THEN 0 ELSE dev.hw + 1
           fill == IF pcm.input THEN dev.fill + 1 ELSE dev.fill - 1
           xrun == IF pcm.input THEN fill >= StopThreshold ELSE fill <= 0
           st == IF xrun THEN "XRUN" ELSE dev.state
           d1 == [dev EXCEPT !.hw = hw]
           d2 == [d1 EXCEPT !.fill = fill]
           d3 == [d2 EXCEPT !.state = st]
<1>3. hw \in 0..(Boundary - 1) /\ fill \in Int
  BY <1>2, PcmAssumption
<1>4. st \in {"OPEN", "SETUP", "PREPARED", "RUNNING", "XRUN", "SUSPENDED"}
  BY <1>2
<1>5. d3 \in DevType /\ d3.hw = hw /\ d3.fill = fill /\ d3.synced = dev.synced /\ d3.state = st
  <2> HIDE DEF hw, fill, st
  <2>1. d1 \in DevType /\ d1.hw = hw /\ d1.synced = dev.synced
    BY <1>1, <1>3 DEF DevType
  <2> HIDE DEF d1
  <2>2. d2 \in DevType /\ d2.hw = hw /\ d2.synced = dev.synced /\ d2.fill = fill
    BY <1>3, <2>1 DEF DevType
  <2> HIDE DEF d2
  <2> QED BY <1>4, <2>2 DEF DevType
<1>6. dev' = d3
  <2>1. d1.fill = dev.fill /\ d2.state = dev.state
    BY <1>1 DEF DevType
  <2>2. dev' = [d2 EXCEPT !.state = IF xrun THEN "XRUN" ELSE d2.state]
    BY Zenon DEF HwAdvance
  <2> HIDE DEF d2, xrun
  <2> QED BY <2>1, <2>2
<1> HIDE DEF d3
<1>7. Types' /\ Calls'
  BY <1>1, <1>5, <1>6 DEF IInv, Types, Calls
<1>8. ASSUME pcm.mmap, pcm.input
      PROVE  Bounded' /\ Ring'
  <2>1. /\ dev.fill >= 0 /\ dev.fill < Boundary /\ (dev.fill = 0 \/ dev.fill < StopThreshold)
        /\ dev.hw - pcm.appl \in {dev.fill, dev.fill - Boundary}
    BY <1>2, <1>8 DEF IInv, Bounded, BoundedAt, Ring, RingAt, Active
  <2>2. fill = dev.fill + 1 /\ fill < Boundary /\ fill >= 0
    BY <1>2, <1>8, <2>1, PcmAssumption
  <2>3. st = "RUNNING" => fill < StopThreshold
    BY <1>2, <1>8, <2>2, PcmAssumption
  <2>4. st # "PREPARED"
    BY <1>2
  <2>5. hw - pcm.appl \in {fill, fill - Boundary}
    BY <1>2, <2>1, <2>2, PcmAssumption
  <2> HIDE DEF hw, fill, st
  <2>6. BoundedAt(pcm', dev', call')
    BY <1>1, <1>2, <1>5, <1>6, <1>8, <2>2, <2>3, <2>4 DEF BoundedAt, Active
  <2>7. RingAt(pcm', dev')
    BY <1>1, <1>5, <1>6, <1>8, <2>5 DEF RingAt
  <2> QED BY <2>6, <2>7 DEF Bounded, Ring
<1>9. ASSUME pcm.mmap, ~pcm.input
      PROVE  Bounded' /\ Ring'
  <2>1. /\ dev.fill > 0 /\ dev.fill + call.left <= N + MaxCount
        /\ pcm.appl - dev.hw \in {dev.fill, dev.fill - Boundary, dev.fill + Boundary}
    BY <1>2, <1>9 DEF IInv, Bounded, BoundedAt, Ring, RingAt
  <2>2. fill = dev.fill - 1 /\ fill >= 0 /\ fill + call.left <= N + MaxCount
    BY <1>2, <1>9, <2>1, PcmAssumption
  <2>3. st = "RUNNING" => fill > 0
    BY <1>2, <1>9, <2>2
  <2>4. hw - pcm.appl \in Int /\ pcm.appl - hw \in {fill, fill - Boundary, fill + Boundary}
    BY <1>2, <2>1, <2>2, PcmAssumption
  <2> HIDE DEF hw, fill, st
  <2>6. BoundedAt(pcm', dev', call')
    BY <1>1, <1>2, <1>5, <1>6, <1>9, <2>2, <2>3 DEF BoundedAt, Active
  <2>7. RingAt(pcm', dev')
    BY <1>1, <1>5, <1>6, <1>9, <2>4 DEF RingAt
  <2> QED BY <2>6, <2>7 DEF Bounded, Ring
<1>10. CASE ~pcm.mmap
  <2>1. ~pcm'.mmap
    BY <1>1, <1>10
  <2>2. Bounded' /\ Ring'
    BY <2>1, Zenon DEF Bounded, BoundedAt, Ring, RingAt
  <2> QED BY <1>7, <2>2 DEF IInv
<1> QED BY <1>7, <1>8, <1>9, <1>10 DEF IInv

\* A step of a transfer that leaves the ring, and starts no more than it had.
LEMMA RingUntouched ==
    ASSUME IInv, pcm' = pcm, dev' = dev, call' \in CallType, call'.left <= call.left
    PROVE  Bounded' /\ Ring' /\ pcm' \in PcmType /\ dev' \in DevType
<1>1. call.left \in Nat /\ call'.left \in Nat /\ dev.fill \in Int
  BY DEF IInv, Types, CallType, DevType
<1>2. Bounded'
  BY <1>1, PcmAssumption DEF IInv, Bounded, BoundedAt
<1> QED BY <1>2 DEF IInv, Types, Ring, RingAt

\* pcm_mmap_avail() is read, and the loop decides what to do with it.
LEMMA UpdateDecide ==
    ASSUME IInv, TransferUpdate \/ TransferDecide
    PROVE  IInv'
<1>1. pcm \in PcmType /\ dev \in DevType /\ call \in CallType /\ pcm.st = "ready" /\ pcm.mmap
  BY DEF IInv, Types, Calls, TransferUpdate, TransferDecide
<1>2. call.left \in Nat /\ call.avail \in Nat /\ Idle \in CallType /\ Idle.left = 0 /\ Idle.op = "none"
  BY <1>1 DEF CallType, Idle
<1>3. CASE TransferUpdate
  <2> DEFINE c1 == [call EXCEPT !.op = "decide"]
  <2>1. c1 \in CallType /\ c1.op = "decide" /\ c1.left = call.left
    BY <1>1 DEF CallType
  <2>2. pcm' = pcm /\ dev' = dev /\ call' = [c1 EXCEPT !.avail = Avail]
    BY <1>3 DEF TransferUpdate
  <2> HIDE DEF c1
  <2>3. call' \in CallType /\ call'.op = "decide" /\ call'.left = call.left
    BY <2>1, <2>2, AvailNatural DEF CallType, IInv
  <2>4. Bounded' /\ Ring'
    BY <1>2, <2>2, <2>3, RingUntouched
  <2> QED BY <1>1, <2>2, <2>3, <2>4 DEF IInv, Types, Calls
<1>4. ASSUME call.op = "decide", NEW p, NEW d, Decided(p, d)
      PROVE  /\ call' \in CallType /\ call'.left <= call.left
             /\ call'.op \in {"none", "wait", "copy"}
             /\ call'.op = "none" => call'.left = 0
             /\ call'.op = "copy" => call'.avail <= call'.left
  <2>1. CASE call' = [call EXCEPT !.op = "wait"]
    BY <1>1, <1>2, <2>1 DEF CallType
  <2>2. CASE call' = Idle
    BY <1>2, <2>2
  <2>3. CASE call' = [call EXCEPT !.op = "copy", !.avail = AtMost(call.left, call.avail)]
    <3> DEFINE c1 == [call EXCEPT !.op = "copy"]
               a == AtMost(call.left, call.avail)
    <3>1. c1 \in CallType /\ c1.op = "copy" /\ c1.left = call.left
      BY <1>1 DEF CallType
    <3>2. a \in Nat /\ a <= call.left
      BY <1>2 DEF AtMost
    <3>3. call' = [c1 EXCEPT !.avail = a]
      BY <2>3
    <3> HIDE DEF c1, a
    <3> QED BY <1>2, <3>1, <3>2, <3>3 DEF CallType
  <2> QED BY <1>4, <2>1, <2>2, <2>3 DEF Decided
<1>5. CASE TransferDecide
  <2>1. CASE Decided(pcm, dev)
    <3>1. pcm' = pcm /\ dev' = dev /\ call.op = "decide"
      BY <1>5, <2>1 DEF Decided, TransferDecide
    <3>2. Bounded' /\ Ring'
      BY <1>4, <2>1, <3>1, RingUntouched
    <3> QED BY <1>1, <1>4, <2>1, <3>1, <3>2 DEF IInv, Types, Calls
  <2> DEFINE p1 == [pcm EXCEPT !.prepared = TRUE]
             p2 == [p1 EXCEPT !.running = TRUE]
             p3 == [p1 EXCEPT !.appl = ApplAfterPrepare]
             p4 == [p2 EXCEPT !.appl = ApplAfterPrepare]
  <2>2. ApplAfterPrepare \in 0..Boundary /\ AfterPrepare \in DevType /\ AfterPrepare.hw = dev.hw
    BY PrepareFacts
  <2>3. SameStream(pcm, p1) /\ p1 \in PcmType
    BY <1>1, SetFlags DEF SameStream
  <2>4. SameStream(pcm, p2) /\ p2 \in PcmType
    <3> HIDE DEF p1
    <3> QED BY <2>3, SetFlags DEF SameStream
  <2>5. SameStream(pcm, p3) /\ p3.appl = ApplAfterPrepare
    <3> HIDE DEF p1
    <3> QED BY <2>2, <2>3, SetAppl DEF SameStream
  <2>6. SameStream(pcm, p4) /\ p4.appl = ApplAfterPrepare
    <3> HIDE DEF p2
    <3> QED BY <2>2, <2>4, SetAppl DEF SameStream
  <2>7. CASE /\ CanStart(AfterPrepare)
             /\ Decided([pcm EXCEPT !.prepared = TRUE, !.running = TRUE, !.appl = ApplAfterPrepare],
                        [AfterPrepare EXCEPT !.state = "RUNNING"])
    <3>1. pcm' = p4 /\ dev' = [AfterPrepare EXCEPT !.state = "RUNNING"] /\ call.op = "decide"
      BY <1>5, <2>7 DEF Decided, TransferDecide
    <3>2. /\ call' \in CallType /\ call'.left <= call.left
          /\ call'.op \in {"none", "wait", "copy"}
          /\ call'.op = "none" => call'.left = 0
          /\ call'.op = "copy" => call'.avail <= call'.left
      BY <1>4, <2>7, <3>1
    <3>3. /\ dev' \in DevType /\ dev'.hw = dev.hw /\ dev'.fill = AfterPrepare.fill
          /\ dev'.synced = AfterPrepare.synced /\ dev'.state = "RUNNING"
      BY <2>2, <3>1, SetState
    <3>4. SameStream(pcm, pcm') /\ pcm'.appl = ApplAfterPrepare
      BY <2>6, <3>1, Zenon
    <3>5. BoundedAt(pcm', dev', call') /\ RingAt(pcm', dev')
      BY <2>7, <3>2, <3>3, <3>4, PrepareKeepsRing DEF SameStream
    <3> QED BY <1>1, <3>2, <3>3, <3>4, <3>5 DEF IInv, Types, Calls, Bounded, Ring, SameStream
  <2>8. CASE /\ dev' = AfterPrepare
             /\ Return([pcm EXCEPT !.prepared = TRUE, !.appl = ApplAfterPrepare])
    <3>1. pcm' = p3 /\ call' = Idle
      BY <2>8 DEF Return
    <3>2. SameStream(pcm, pcm') /\ pcm'.appl = ApplAfterPrepare
      BY <2>5, <3>1, Zenon
    <3>3. call' \in CallType /\ call'.left <= call.left /\ call'.op = "none" /\ call'.left = 0
      BY <1>2, <3>1
    <3>4. BoundedAt(pcm', dev', call') /\ RingAt(pcm', dev')
      BY <2>2, <2>8, <3>2, <3>3, PrepareKeepsRing DEF SameStream
    <3> QED BY <1>1, <2>2, <2>8, <3>2, <3>3, <3>4 DEF IInv, Types, Calls, Bounded, Ring, SameStream
  <2> QED BY <1>5, <2>1, <2>7, <2>8 DEF TransferDecide
<1> QED BY <1>3, <1>5

\* pcm_wait() returns; on an error the ring is given up until the next PREPARE.
LEMMA WaitReturns ==
    ASSUME IInv, TransferWait
    PROVE  IInv'
<1>1. pcm \in PcmType /\ dev \in DevType /\ call \in CallType /\ pcm.st = "ready" /\ pcm.mmap
  BY DEF IInv, Types, Calls, TransferWait
<1>2. CASE call' = [call EXCEPT !.op = "update"] /\ UNCHANGED <<pcm, dev>>
  <2>1. call' \in CallType /\ call'.op = "update" /\ call'.left = call.left /\ call.left \in Nat
    BY <1>1, <1>2 DEF CallType
  <2>2. Bounded' /\ Ring'
    BY <1>2, <2>1, RingUntouched
  <2> QED BY <1>1, <1>2, <2>1, <2>2 DEF IInv, Types, Calls
<1>3. CASE /\ dev.state \notin {"RUNNING", "PREPARED"}
           /\ dev' = [dev EXCEPT !.synced = FALSE, !.fill = 0]
           /\ Return([pcm EXCEPT !.prepared = FALSE, !.running = FALSE, !.appl = 0])
  <2> DEFINE d1 == [dev EXCEPT !.synced = FALSE]
             p1 == [pcm EXCEPT !.prepared = FALSE, !.running = FALSE]
  <2>1. d1 \in DevType /\ d1.state = dev.state /\ d1.synced = FALSE
    BY <1>1 DEF DevType
  <2>2. dev' = [d1 EXCEPT !.fill = 0]
    BY <1>3
  <2>3. dev' \in DevType /\ ~Active(dev') /\ dev'.synced = FALSE /\ dev'.fill = 0
    <3> HIDE DEF d1
    <3> QED BY <1>3, <2>1, <2>2 DEF DevType, Active
  <2>4. SameStream(pcm, p1)
    BY <1>1, SetBothFlags
  <2>5. pcm' = [p1 EXCEPT !.appl = 0] /\ call' = Idle
    BY <1>3 DEF Return
  <2>6. SameStream(pcm, pcm')
    <3> HIDE DEF p1
    <3>1. 0 \in 0..Boundary
      BY PcmAssumption
    <3>2. p1 \in PcmType
      BY <2>4 DEF SameStream
    <3>3. SameStream(p1, pcm')
      BY <2>5, <3>1, <3>2, SetAppl
    <3> QED BY <2>4, <3>3 DEF SameStream
  <2>7. call' \in CallType /\ call'.op = "none" /\ call'.left = 0
    BY <2>5 DEF Idle, CallType
  <2>8. Types' /\ Calls' /\ Ring'
    BY <1>1, <2>3, <2>6, <2>7 DEF IInv, Types, Calls, Ring, RingAt, SameStream
  <2>9. Bounded'
    BY <2>3, <2>7, PcmAssumption DEF Bounded, BoundedAt, Active
  <2> QED BY <2>8, <2>9 DEF IInv
<1> QED BY <1>2, <1>3 DEF TransferWait

\* pcm_mmap_begin() offers no more than is wanted, nor than there is, and a
\* piece shorter than the boundary.
LEMMA BeginBounds ==
    ASSUME IInv, NEW size \in Nat
    PROVE  /\ Begin(size) \in Nat /\ Begin(size) <= size
           /\ Begin(size) <= Avail /\ Begin(size) <= N
<1>1. Avail \in Nat /\ N \in Nat /\ N > 0 /\ pcm.appl \in 0..Boundary /\ Boundary \in Nat
  BY AvailNatural, PcmAssumption DEF IInv, Types, PcmType
<1>2. pcm.appl % N \in 0..(N - 1)
  BY <1>1
<1> DEFINE r == N - (pcm.appl % N)
<1>3. r \in Nat
  BY <1>1, <1>2
<1> HIDE DEF r
<1>4. \A a, b \in Nat : AtMost(a, b) \in Nat /\ AtMost(a, b) <= a /\ AtMost(a, b) <= b
  BY DEF AtMost
<1> DEFINE m == AtMost(Avail, N)
           k == AtMost(size, m)
<1>5. m \in Nat /\ m <= Avail /\ m <= N
  BY <1>1, <1>4
<1> HIDE DEF m
<1>6. k \in Nat /\ k <= size /\ k <= m
  BY <1>4, <1>5
<1> HIDE DEF k
<1>7. Begin(size) = AtMost(k, r)
  BY DEF Begin, k, m, r
<1>8. AtMost(k, r) \in Nat /\ AtMost(k, r) <= k
  BY <1>3, <1>4, <1>6
<1> QED BY <1>1, <1>5, <1>6, <1>7, <1>8

\* One round of the copy loop.
LEMMA CopyRound ==
    ASSUME IInv, TransferCopy
    PROVE  IInv'
<1>1. /\ pcm \in PcmType /\ dev \in DevType /\ call \in CallType /\ pcm.st = "ready" /\ pcm.mmap
      /\ call.avail <= call.left
  BY DEF IInv, Types, Calls, TransferCopy
<1>2. /\ call.left \in Nat /\ call.avail \in Nat /\ dev.fill \in Int
      /\ dev.hw \in 0..(Boundary - 1) /\ pcm.appl \in 0..Boundary
  BY <1>1 DEF CallType, DevType, PcmType
<1> DEFINE f == Begin(call.avail)
<1>3. f \in Nat /\ f <= call.avail /\ f <= N /\ f <= Avail
  BY <1>2, BeginBounds
<1> DEFINE appl == ApplForward(f)
           fill == IF ~dev.synced THEN 0 ELSE IF pcm.input THEN dev.fill - f ELSE dev.fill + f
<1>4. /\ pcm' = [pcm EXCEPT !.appl = appl] /\ dev' = [dev EXCEPT !.fill = fill]
      /\ call' = IF call.avail - f > 0 THEN [call EXCEPT !.left = call.left - f, !.avail = call.avail - f]
                 ELSE IF call.left - f > 0 THEN [op |-> "update", left |-> call.left - f, avail |-> 0]
                 ELSE Idle
  BY DEF TransferCopy
<1> HIDE DEF f
<1>5. appl \in 0..Boundary /\ appl \in {pcm.appl + f, pcm.appl + f - Boundary}
  BY <1>2, <1>3, PcmAssumption DEF ApplForward
<1> HIDE DEF appl
<1>6. SameStream(pcm, pcm') /\ pcm'.appl = appl
  BY <1>1, <1>4, <1>5, SetAppl
<1>7. fill \in Int
  BY <1>2, <1>3
<1>8. /\ dev' \in DevType /\ dev'.fill = fill /\ dev'.hw = dev.hw
      /\ dev'.state = dev.state /\ dev'.synced = dev.synced
  <2> HIDE DEF fill
  <2> QED BY <1>1, <1>4, <1>7 DEF DevType
<1>9. /\ call' \in CallType /\ call'.left = call.left - f
      /\ call'.op \in {"copy", "update", "none"}
      /\ call'.op = "none" => call'.left = 0
      /\ call'.op = "copy" => call'.avail <= call'.left
  <2>1. CASE call.avail - f > 0
    <3> DEFINE c1 == [call EXCEPT !.left = call.left - f]
    <3>1. c1 \in CallType /\ c1.left = call.left - f /\ c1.op = "copy"
      BY <1>1, <1>2, <1>3 DEF CallType, TransferCopy
    <3>2. call' = [c1 EXCEPT !.avail = call.avail - f]
      BY <1>4, <2>1
    <3> HIDE DEF c1
    <3> QED BY <1>1, <1>2, <1>3, <2>1, <3>1, <3>2 DEF CallType
  <2>2. CASE ~(call.avail - f > 0) /\ call.left - f > 0
    BY <1>2, <1>3, <1>4, <2>2 DEF CallType
  <2>3. CASE ~(call.avail - f > 0) /\ ~(call.left - f > 0)
    <3>1. call' = Idle /\ call.left - f = 0
      BY <1>1, <1>2, <1>3, <1>4, <2>3
    <3> QED BY <3>1 DEF Idle, CallType
  <2> QED BY <2>1, <2>2, <2>3
<1>10. Types' /\ Calls'
  BY <1>1, <1>6, <1>8, <1>9 DEF IInv, Types, Calls, SameStream
<1>11. CASE ~dev.synced
  <2>1. fill = 0 /\ ~Active(dev)
    BY <1>1, <1>11 DEF IInv, Bounded, BoundedAt
  <2>2. dev'.fill = 0 /\ ~Active(dev') /\ ~dev'.synced
    BY <1>8, <1>11, <2>1 DEF Active
  <2>3. ~pcm.input => call.left <= N + MaxCount
    BY <1>1, <1>2, PcmAssumption DEF IInv, Bounded, BoundedAt
  <2>4. Bounded'
    BY <1>2, <1>3, <1>6, <1>9, <2>2, <2>3, PcmAssumption DEF Bounded, BoundedAt, Active, SameStream
  <2>5. Ring'
    BY <2>2 DEF Ring, RingAt
  <2> QED BY <1>10, <2>4, <2>5 DEF IInv
<1>12. CASE dev.synced /\ pcm.input
  <2>1. Avail = dev.fill
    BY <1>1, <1>12, InvariantGivesExact DEF AvailExact
  <2>2. /\ dev.fill >= 0 /\ dev.fill < Boundary
        /\ Active(dev) => dev.fill = 0 \/ dev.fill < StopThreshold
        /\ dev.hw - pcm.appl \in {dev.fill, dev.fill - Boundary}
    BY <1>1, <1>12 DEF IInv, Bounded, BoundedAt, Ring, RingAt
  <2>3. fill = dev.fill - f /\ fill >= 0 /\ fill < Boundary
    BY <1>2, <1>3, <1>12, <2>1, <2>2, PcmAssumption
  <2>4. Active(dev) => fill = 0 \/ fill < StopThreshold
    BY <1>2, <1>3, <2>2, <2>3, PcmAssumption
  <2>5. dev.hw - appl \in {fill, fill - Boundary}
    BY <1>2, <1>3, <1>5, <2>2, <2>3, PcmAssumption
  <2> HIDE DEF fill
  <2>6. BoundedAt(pcm', dev', call')
    BY <1>1, <1>6, <1>8, <1>12, <2>3, <2>4 DEF BoundedAt, Active, SameStream
  <2>7. RingAt(pcm', dev')
    BY <1>1, <1>6, <1>8, <1>12, <2>5 DEF RingAt, SameStream
  <2> QED BY <1>10, <2>6, <2>7 DEF IInv, Bounded, Ring
<1>13. CASE dev.synced /\ ~pcm.input
  <2>1. /\ dev.fill >= 0 /\ dev.fill + call.left <= N + MaxCount
        /\ dev.state = "RUNNING" => dev.fill > 0
        /\ pcm.appl - dev.hw \in {dev.fill, dev.fill - Boundary, dev.fill + Boundary}
    BY <1>1, <1>13 DEF IInv, Bounded, BoundedAt, Ring, RingAt
  <2>2. /\ fill = dev.fill + f /\ fill >= 0 /\ fill + (call.left - f) <= N + MaxCount
        /\ dev.state = "RUNNING" => fill > 0
    BY <1>2, <1>3, <1>13, <2>1, PcmAssumption
  <2> HIDE DEF fill
  <2>3. fill < Boundary
    BY <1>1, <1>2, <1>3, <2>1, <2>2, PcmAssumption
  <2>4. appl - dev.hw \in {fill, fill - Boundary, fill + Boundary}
    BY <1>2, <1>3, <1>5, <2>1, <2>2, <2>3, PcmAssumption
  <2>5. BoundedAt(pcm', dev', call')
    BY <1>6, <1>8, <1>9, <1>13, <2>2 DEF BoundedAt, Active, SameStream
  <2>6. RingAt(pcm', dev')
    BY <1>1, <1>6, <1>8, <1>13, <2>4 DEF RingAt, SameStream
  <2> QED BY <1>10, <2>5, <2>6 DEF IInv, Bounded, Ring
<1> QED BY <1>11, <1>12, <1>13

\* The frames that pcm_mmap_avail() reports are those the ring has, whatever the
\* size of the ring, the boundary and the thresholds, for ever.
THEOREM RingCountsExactly == Spec => []AvailExact
<1>1. IInv /\ [Next]_vars => IInv'
  <2>1. ASSUME IInv, Next PROVE IInv'
    BY <2>1, OpenCloseStop, PrepareStart, WriteRead, CallsBegin, HardwareMoves, UpdateDecide,
       WaitReturns, CopyRound DEF Next, Transfer
  <2>2. ASSUME IInv, UNCHANGED vars PROVE IInv'
    BY <2>2 DEF vars, IInv, Types, Calls, Bounded, BoundedAt, Ring, RingAt
  <2> QED BY <2>1, <2>2
<1>2. IInv => AvailExact
  BY InvariantGivesExact
<1> QED BY InitInvariant, <1>1, <1>2, PTL DEF Spec
=============================================================================
