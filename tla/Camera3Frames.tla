---------------------------- MODULE Camera3Frames ----------------------------
(***************************************************************************)
(* Proofs about the frames of Camera3, for any number of frames, streams,  *)
(* handles and configurations: what happens to the buffers, the metadata   *)
(* and the shutter of each accepted request.                               *)
(*                                                                         *)
(* FrameOK(n) is the account of one frame.  What a callback has taken from *)
(* the stock HAL and not yet given to the client is on its way; the Frame  *)
(* object knows exactly what is still owed, and the client has the rest.   *)
(***************************************************************************)
EXTENDS Camera3, TLAPS

FrameType == [remaining : SUBSET Streams, metadataDone : BOOLEAN, shutterDone : BOOLEAN]
PartsType == [buffers : SUBSET Streams, metadata : BOOLEAN, shutter : BOOLEAN]
CallbackType == [step : {"deliver", "retire"}, number : 0 .. MaxFrames,
                 buffers : SUBSET Streams, metadata : BOOLEAN,
                 noMetadata : BOOLEAN, shutter : BOOLEAN]

Types ==
  /\ frames \subseteq Numbers
  /\ frame \in [Numbers -> FrameType]
  /\ owed \in [Numbers -> PartsType] /\ got \in [Numbers -> PartsType]
  /\ accepted \in [Numbers -> SUBSET Streams]
  /\ cb \in CallbackType \cup {NoCallback}
  /\ captures \in 0 .. MaxFrames
  /\ streams \subseteq Streams /\ next \subseteq Streams

\* A capture() under way has a frame number of its own and names streams.
Capturing ==
  /\ pc \in {"drain", "drainWait", "register", "submit", "process"} =>
       /\ captures \in Numbers /\ accepted[captures] = {}
       /\ DOMAIN request.buffers \subseteq Streams /\ DOMAIN request.buffers # {}
  /\ pc = "process" => captures \in frames
  /\ \A n \in Numbers : n > captures => accepted[n] = {}

\* Streams and buffers change while no frame is in flight, and nothing happens
\* once the Camera is deleted.
Quiet ==
  /\ Registering => frames = {}
  /\ pc = "gone" => cb = NoCallback /\ ~vendor

\* What the callback under way has for the client, of frame n.
OnItsWay(n) == IF Undelivered(n) THEN cb.buffers ELSE {}
MetadataOnItsWay(n) == Undelivered(n) /\ cb.metadata
AnswerOnItsWay(n) == Undelivered(n) /\ (cb.metadata \/ cb.noMetadata)
ShutterOnItsWay(n) == Undelivered(n) /\ cb.shutter

\* A frame the stock HAL has not accepted, or not yet.
Untouched(n) ==
  /\ owed[n].buffers = {} /\ ~owed[n].metadata /\ ~owed[n].shutter
  /\ got[n].buffers = {} /\ ~got[n].metadata /\ ~got[n].shutter
  /\ OnItsWay(n) = {} /\ ~AnswerOnItsWay(n) /\ ~ShutterOnItsWay(n)
  /\ n \in frames => /\ pc = "process" /\ n = captures
                     /\ frame[n].remaining = DOMAIN request.buffers
                     /\ ~frame[n].metadataDone /\ ~frame[n].shutterDone

Shared(n) ==
  /\ accepted[n] = owed[n].buffers \cup OnItsWay(n) \cup got[n].buffers
  /\ owed[n].buffers \cap OnItsWay(n) = {} /\ OnItsWay(n) \cap got[n].buffers = {}
  /\ owed[n].buffers \cap got[n].buffers = {}
  /\ MetadataOnItsWay(n) => ~got[n].metadata

\* A frame in flight: its Frame object agrees with what is owed.
InFlight(n) ==
  /\ frame[n].remaining = owed[n].buffers
  /\ frame[n].metadataDone \/ owed[n].metadata
  /\ frame[n].metadataDone <=> (got[n].metadata \/ AnswerOnItsWay(n))
  /\ frame[n].shutterDone <=> ~owed[n].shutter
  /\ frame[n].shutterDone <=> (got[n].shutter \/ ShutterOnItsWay(n))

\* A retired frame: only metadata that nobody waits for may still come.
Retired(n) ==
  /\ owed[n].buffers = {} /\ ~owed[n].shutter
  /\ got[n].buffers = accepted[n] /\ got[n].metadata /\ got[n].shutter
  /\ OnItsWay(n) = {} /\ ~MetadataOnItsWay(n)

FrameOK(n) ==
  /\ accepted[n] = {} => Untouched(n)
  /\ accepted[n] # {} => /\ Shared(n)
                         /\ n \in frames => InFlight(n)
                         /\ n \notin frames => Retired(n)

Accounts == pc # "gone" => \A n \in Numbers : FrameOK(n)

FInv == Types /\ Capturing /\ Quiet /\ Accounts

\* A record is a callback or NoCallback.
LEMMA NoCallbackIsNone == NoCallback \notin CallbackType
BY CameraAssumption DEF CallbackType

\* Initially no frame has been asked for.
LEMMA InitFrames == Init => FInv
<1> SUFFICES ASSUME Init PROVE FInv
  OBVIOUS
<1> USE DEF Init
<1>1. Nothing \in PartsType /\ Nothing.buffers = {} /\ ~Nothing.metadata /\ ~Nothing.shutter
  BY DEF Nothing, PartsType
<1>2. [remaining |-> {}, metadataDone |-> FALSE, shutterDone |-> FALSE] \in FrameType
  BY DEF FrameType
<1>3. Types
  BY <1>1, <1>2, CameraAssumption DEF Types
<1>4. Capturing /\ Quiet
  BY DEF Capturing, Quiet, Registering
<1>5. \A n \in Numbers : accepted[n] = {} /\ owed[n] = Nothing /\ got[n] = Nothing /\ ~Undelivered(n)
  BY DEF Undelivered
<1>6. Accounts
  BY <1>1, <1>5 DEF Accounts, FrameOK, Untouched, OnItsWay, AnswerOnItsWay, ShutterOnItsWay
<1> QED BY <1>3, <1>4, <1>6 DEF FInv

\* The account of a frame that a step does not concern.
LEMMA SameAccount ==
  ASSUME NEW n \in Numbers, FrameOK(n),
         frame'[n] = frame[n], owed'[n] = owed[n], got'[n] = got[n], accepted'[n] = accepted[n],
         n \in frames' <=> n \in frames,
         OnItsWay(n)' = OnItsWay(n),
         MetadataOnItsWay(n)' <=> MetadataOnItsWay(n),
         AnswerOnItsWay(n)' <=> AnswerOnItsWay(n),
         ShutterOnItsWay(n)' <=> ShutterOnItsWay(n),
         pc = "process" => pc' = "process" /\ captures' = captures /\ request' = request
  PROVE  FrameOK(n)'
<1>1. CASE accepted[n] = {}
  <2>1. Untouched(n)
    BY <1>1 DEF FrameOK
  <2>2. Untouched(n)'
    BY <2>1 DEF Untouched
  <2> QED BY <1>1, <2>2 DEF FrameOK
<1>2. CASE accepted[n] # {}
  <2>1. Shared(n)'
    BY <1>2 DEF FrameOK, Shared
  <2>2. n \in frames => InFlight(n)'
    BY <1>2 DEF FrameOK, InFlight
  <2>3. n \notin frames => Retired(n)'
    BY <1>2 DEF FrameOK, Retired
  <2> QED BY <1>2, <2>1, <2>2, <2>3 DEF FrameOK
<1> QED BY <1>1, <1>2

\* A step of a call that concerns no frame.
LEMMA AccountsKept ==
  ASSUME FInv, pc # "gone", pc # "process", UNCHANGED <<frameVars, clientVars, cb, owed>>
  PROVE  Accounts'
<1>1. UNCHANGED <<frames, frame, accepted, got, cb, owed>>
  BY DEF frameVars, clientVars
<1>2. ASSUME NEW n \in Numbers PROVE FrameOK(n)'
  <2>1. FrameOK(n)
    BY DEF FInv, Accounts
  <2>2. Undelivered(n)' <=> Undelivered(n)
    BY <1>1 DEF Undelivered
  <2> QED BY <1>1, <2>1, <2>2, SameAccount
          DEF OnItsWay, MetadataOnItsWay, AnswerOnItsWay, ShutterOnItsWay
<1> QED BY <1>2 DEF Accounts

\* The invariant gives the properties of Camera3.
LEMMA InvariantConserves == FInv => BuffersConserved
<1> SUFFICES ASSUME FInv, pc # "gone", NEW n \in Numbers
             PROVE  /\ accepted[n] = owed[n].buffers \cup OnItsWay(n) \cup got[n].buffers
                    /\ owed[n].buffers \cap OnItsWay(n) = {} /\ OnItsWay(n) \cap got[n].buffers = {}
                    /\ owed[n].buffers \cap got[n].buffers = {}
  BY DEF BuffersConserved, OnItsWay
<1>1. FrameOK(n)
  BY DEF FInv, Accounts
<1>2. CASE accepted[n] = {}
  BY <1>1, <1>2 DEF FrameOK, Untouched
<1>3. CASE accepted[n] # {}
  BY <1>1, <1>3 DEF FrameOK, Shared
<1> QED BY <1>2, <1>3

\* A frame that has left frames is settled.
LEMMA InvariantRetires == FInv => RetiredMeansDelivered
<1> SUFFICES ASSUME FInv, pc # "gone", NEW n \in Numbers, accepted[n] # {}, n \notin frames
             PROVE  got[n] = [buffers |-> accepted[n], metadata |-> TRUE, shutter |-> TRUE]
  BY DEF RetiredMeansDelivered
<1>1. got[n].buffers = accepted[n] /\ got[n].metadata /\ got[n].shutter
  BY DEF FInv, Accounts, FrameOK, Retired
<1>2. got[n] \in PartsType
  BY DEF FInv, Types
<1> QED BY <1>1, <1>2 DEF PartsType

\* Metadata on its way is the first answer about it.
LEMMA InvariantOnce == FInv => MetadataOnce
<1> SUFFICES ASSUME FInv, NEW n \in Numbers, Undelivered(n), cb.metadata
             PROVE  ~got[n].metadata
  BY DEF MetadataOnce
<1>1. pc # "gone"
  BY DEF FInv, Quiet, Undelivered
<1>2. FrameOK(n)
  BY <1>1 DEF FInv, Accounts
<1>3. CASE accepted[n] = {}
  BY <1>2, <1>3 DEF FrameOK, Untouched
<1>4. CASE accepted[n] # {}
  BY <1>2, <1>4 DEF FrameOK, Shared, MetadataOnItsWay
<1> QED BY <1>3, <1>4

\* Without frames in flight nothing is owed but late metadata.
LEMMA InvariantQuiet == FInv => QuietWhenRegistering
<1> SUFFICES ASSUME FInv, Registering, NEW n \in Numbers
             PROVE  /\ owed[n].buffers = {} /\ ~owed[n].shutter
                    /\ Undelivered(n) => cb.buffers = {} /\ ~cb.metadata
  BY DEF QuietWhenRegistering
<1>1. pc # "gone" /\ n \notin frames
  BY DEF FInv, Quiet, Registering
<1>2. FrameOK(n)
  BY <1>1 DEF FInv, Accounts
<1>3. CASE accepted[n] = {}
  BY <1>2, <1>3 DEF FrameOK, Untouched, OnItsWay, AnswerOnItsWay
<1>4. CASE accepted[n] # {}
  BY <1>1, <1>2, <1>4 DEF FrameOK, Retired, OnItsWay, MetadataOnItsWay
<1> QED BY <1>3, <1>4

USE DEF requestVars, streamVars, frameVars, stockVars, clientVars, settingVars

\* initialize(), defaultRequest(), flush(), close(), and the steps of drain() and
\* configure() that end or go on: no frame, no number, no list of streams changes.
LEMMA CallGoesOn ==
  ASSUME FInv, pc \notin {"gone", "process"},
         UNCHANGED <<next, request, captures, streams, frameVars, clientVars, cb, owed>>,
         pc' \notin {"gone", "process"},
         pc' \in {"drain", "drainWait", "register", "submit"} => pc \in {"drain", "drainWait", "register", "submit"},
         Registering' => frames = {}
  PROVE  FInv'
<1>1. Types'
  BY DEF FInv, Types
<1>2. Capturing'
  BY DEF FInv, Capturing
<1>3. Quiet'
  BY DEF Quiet
<1>4. Accounts'
  BY AccountsKept
<1> QED BY <1>1, <1>2, <1>3, <1>4 DEF FInv

\* The calls begin.
LEMMA CallFrames ==
  ASSUME FInv, CallStep
  PROVE  FInv'
<1>1. CASE Initialize
  BY <1>1, CallGoesOn DEF Initialize, Registering
<1>2. CASE FlushCall
  BY <1>2, CallGoesOn DEF FlushCall, Registering
<1>3. CASE CloseCall
  BY <1>3, CallGoesOn DEF CloseCall, Registering
<1>4. ASSUME NEW t \in Templates, DefaultRequest(t) PROVE FInv'
  BY <1>4, CallGoesOn DEF DefaultRequest, Registering
<1>5. ASSUME NEW S \in SUBSET Streams, Configure(S) PROVE FInv'
  <2>1. /\ pc = "idle" /\ frames = {} /\ next' = S /\ pc' \in {"reopen", "configure"}
        /\ UNCHANGED <<request, captures, streams, frameVars, clientVars, cb, owed>>
    BY <1>5 DEF Configure
  <2>2. Types'
    BY <2>1 DEF FInv, Types
  <2>3. Capturing' /\ Quiet'
    BY <2>1 DEF FInv, Capturing, Quiet
  <2>4. Accounts'
    BY <2>1, AccountsKept
  <2> QED BY <2>2, <2>3, <2>4 DEF FInv
<1>6. ASSUME NEW r \in Requests, NEW settings \in BOOLEAN, Capture(r, settings) PROVE FInv'
  <2>1. /\ pc = "idle" /\ captures < MaxFrames /\ captures' = captures + 1
        /\ request' = [buffers |-> r, settings |-> settings] /\ pc' \in {"drain", "submit"}
        /\ UNCHANGED <<next, streams, frameVars, clientVars, cb, owed>>
    BY <1>6 DEF Capture
  <2>2. captures \in 0 .. MaxFrames /\ captures' \in Numbers /\ captures' > captures
    BY <2>1, CameraAssumption DEF FInv, Types, Numbers
  <2>3. Types'
    BY <2>1, <2>2, CameraAssumption DEF FInv, Types, Numbers
  <2>4. PICK S \in (SUBSET streams) \ {{}} : r \in [S -> Handles]
    BY DEF Requests
  <2>5. DOMAIN request'.buffers \subseteq Streams /\ DOMAIN request'.buffers # {}
    <3>1. request'.buffers = r
      BY <2>1
    <3>2. DOMAIN r = S /\ S \subseteq streams /\ S # {} /\ streams \subseteq Streams
      BY <2>4 DEF FInv, Types
    <3> QED BY <3>1, <3>2
  <2>6. accepted[captures'] = {}
    BY <2>2 DEF FInv, Capturing
  <2>7. \A n \in Numbers : n > captures' => n > captures
    BY <2>2, CameraAssumption DEF Numbers
  <2>8. Capturing'
    BY <2>1, <2>2, <2>5, <2>6, <2>7 DEF FInv, Capturing
  <2>9. Quiet'
    BY <2>1 DEF Quiet, Registering
  <2>10. Accounts'
    BY <2>1, AccountsKept
  <2> QED BY <2>3, <2>8, <2>9, <2>10 DEF FInv
<1> QED BY <1>1, <1>2, <1>3, <1>4, <1>5, <1>6 DEF CallStep

\* configure(), drain() and the registration go on; close() ends.
LEMMA RequestFrames ==
  ASSUME FInv,
         \/ ReopenSucceeds \/ ReopenFails \/ StockConfigures \/ StockRejects
         \/ DrainTests \/ DrainSpuriousWakeup \/ DrainTimesOut
         \/ (\E s \in Streams : Register(s) \/ StockRegisterFails(s))
         \/ RegisterFails \/ SubmitRefused
  PROVE  FInv'
<1> USE CallGoesOn DEF Registering, FInv, Quiet
<1>1. CASE ReopenSucceeds
  BY <1>1 DEF ReopenSucceeds
<1>2. CASE ReopenFails
  BY <1>2 DEF ReopenFails
<1>3. CASE StockConfigures
  BY <1>3 DEF StockConfigures
<1>4. CASE StockRejects
  BY <1>4 DEF StockRejects
<1>5. CASE DrainTests
  BY <1>5 DEF DrainTests, DrainReady
<1>6. CASE DrainSpuriousWakeup
  <2>1. (pc = "drainWait" /\ pc' = "drain") \/ (pc = "flushWait" /\ pc' = "flush")
    BY <1>6 DEF DrainSpuriousWakeup, Notified
  <2> QED BY <1>6, <2>1 DEF DrainSpuriousWakeup
<1>7. CASE DrainTimesOut
  BY <1>7 DEF DrainTimesOut
<1>8. ASSUME NEW s \in Streams, Register(s) \/ StockRegisterFails(s) PROVE FInv'
  <2>1. /\ pc = "register" /\ pc' \in {"submit", "register", "idle"}
        /\ UNCHANGED <<next, request, captures, streams, frameVars, clientVars, cb, owed>>
    BY <1>8 DEF Register, StockRegisterFails
  <2> QED BY <2>1
<1>9. CASE RegisterFails
  BY <1>9 DEF RegisterFails
<1>10. CASE SubmitRefused
  BY <1>10 DEF SubmitRefused
<1> QED BY <1>1, <1>2, <1>3, <1>4, <1>5, <1>6, <1>7, <1>8, <1>9, <1>10

\* The new streams replace the old ones.
LEMMA SwapFrames ==
  ASSUME FInv, Swap
  PROVE  FInv'
<1>1. /\ pc = "swap" /\ pc' = "idle" /\ streams' = next
      /\ UNCHANGED <<requestVars, frameVars, clientVars, cb, owed>>
  BY DEF Swap
<1>2. Types'
  BY <1>1 DEF FInv, Types
<1>3. Capturing' /\ Quiet'
  BY <1>1 DEF FInv, Capturing, Quiet, Registering
<1>4. Accounts'
  BY <1>1, AccountsKept
<1> QED BY <1>2, <1>3, <1>4 DEF FInv

\* Nothing, as the stock HAL owes it.
LEMMA NothingOwed ==
  Nothing \in PartsType /\ Nothing.buffers = {} /\ ~Nothing.metadata /\ ~Nothing.shutter
BY DEF Nothing, PartsType

\* Restarting the stock device drops late metadata at most, because no frame is
\* in flight.
LEMMA ReopenFrames ==
  ASSUME FInv, ReopenCloses
  PROVE  FInv'
<1>1. /\ pc = "reopen" /\ pc' = "reopening" /\ cb = NoCallback /\ frames = {}
      /\ owed' = [n \in Numbers |-> Nothing]
      /\ UNCHANGED <<requestVars, streams, frameVars, clientVars, cb>>
  BY DEF ReopenCloses, FInv, Quiet, Registering
<1>2. Types'
  BY <1>1, NothingOwed DEF FInv, Types
<1>3. Capturing' /\ Quiet'
  BY <1>1 DEF FInv, Capturing, Quiet
<1>4. ASSUME NEW n \in Numbers PROVE FrameOK(n)'
  <2>1. FrameOK(n) /\ ~Undelivered(n) /\ ~Undelivered(n)'
    BY <1>1 DEF FInv, Accounts, Undelivered
  <2>2. /\ owed'[n].buffers = {} /\ ~owed'[n].metadata /\ ~owed'[n].shutter
        /\ got'[n] = got[n] /\ accepted'[n] = accepted[n] /\ n \notin frames /\ n \notin frames'
    BY <1>1, NothingOwed
  <2>3. OnItsWay(n)' = {} /\ ~MetadataOnItsWay(n)' /\ ~AnswerOnItsWay(n)' /\ ~ShutterOnItsWay(n)'
    BY <2>1 DEF OnItsWay, MetadataOnItsWay, AnswerOnItsWay, ShutterOnItsWay
  <2>4. CASE accepted[n] = {}
    <3>1. got[n].buffers = {} /\ ~got[n].metadata /\ ~got[n].shutter
      BY <2>1, <2>4 DEF FrameOK, Untouched
    <3> QED BY <2>2, <2>3, <2>4, <3>1 DEF FrameOK, Untouched
  <2>5. CASE accepted[n] # {}
    <3>1. got[n].buffers = accepted[n] /\ got[n].metadata /\ got[n].shutter
      BY <2>1, <2>2, <2>5 DEF FrameOK, Retired
    <3>2. Shared(n)' /\ Retired(n)'
      BY <2>2, <2>3, <3>1 DEF Shared, Retired
    <3> QED BY <2>2, <2>5, <3>2 DEF FrameOK
  <2> QED BY <2>4, <2>5
<1>5. Accounts'
  BY <1>4 DEF Accounts
<1> QED BY <1>2, <1>3, <1>5 DEF FInv

\* close() settles nothing and ends everything.
LEMMA CloseFrames ==
  ASSUME FInv, CloseReturns
  PROVE  FInv'
<1>1. /\ pc = "close" /\ pc' = "gone" /\ cb = NoCallback /\ vendor' = FALSE
      /\ owed' = [n \in Numbers |-> Nothing] /\ frames' = {} /\ streams' = {}
      /\ UNCHANGED <<requestVars, frame, clientVars, cb>>
  BY DEF CloseReturns
<1>2. Types'
  BY <1>1, NothingOwed DEF FInv, Types
<1>3. Capturing' /\ Quiet' /\ Accounts'
  BY <1>1 DEF FInv, Capturing, Quiet, Accounts, Registering
<1> QED BY <1>2, <1>3 DEF FInv

\* The frame is entered before the stock HAL sees the request.
LEMMA SubmitFrames ==
  ASSUME FInv, Submit
  PROVE  FInv'
<1> DEFINE f == [remaining |-> DOMAIN request.buffers, metadataDone |-> FALSE, shutterDone |-> FALSE]
<1>1. /\ pc = "submit" /\ pc' = "process" /\ frames' = frames \cup {captures}
      /\ frame' = [frame EXCEPT ![captures] = f]
      /\ UNCHANGED <<requestVars, streamVars, clientVars, cb, owed>>
  BY DEF Submit
<1>2. /\ captures \in Numbers /\ accepted[captures] = {}
      /\ DOMAIN request.buffers \subseteq Streams /\ DOMAIN request.buffers # {}
  BY <1>1 DEF FInv, Capturing
<1>3. f \in FrameType
  BY <1>2 DEF FrameType
<1>4. f.remaining = DOMAIN request.buffers /\ ~f.metadataDone /\ ~f.shutterDone
  OBVIOUS
<1> HIDE DEF f
<1>5. Types'
  BY <1>1, <1>2, <1>3 DEF FInv, Types
<1>6. Capturing' /\ Quiet'
  BY <1>1, <1>2 DEF FInv, Capturing, Quiet, Registering
<1>7. ASSUME NEW n \in Numbers PROVE FrameOK(n)'
  <2>1. FrameOK(n) /\ frame \in [Numbers -> FrameType]
    BY <1>1 DEF FInv, Accounts, Types
  <2>2. /\ OnItsWay(n)' = OnItsWay(n) /\ (MetadataOnItsWay(n)' <=> MetadataOnItsWay(n))
        /\ (AnswerOnItsWay(n)' <=> AnswerOnItsWay(n)) /\ (ShutterOnItsWay(n)' <=> ShutterOnItsWay(n))
    BY <1>1 DEF OnItsWay, MetadataOnItsWay, AnswerOnItsWay, ShutterOnItsWay, Undelivered
  <2>3. CASE n = captures
    <3>1. Untouched(n)
      BY <1>2, <2>1, <2>3 DEF FrameOK
    <3>2. frame'[n] = f
      BY <1>1, <2>1, <2>3
    <3>3. Untouched(n)'
      BY <1>1, <1>4, <2>2, <2>3, <3>1, <3>2 DEF Untouched
    <3> QED BY <1>1, <1>2, <2>3, <3>3 DEF FrameOK
  <2>4. CASE n # captures
    <3>1. frame'[n] = frame[n] /\ (n \in frames' <=> n \in frames)
      BY <1>1, <2>1, <2>4
    <3> QED BY <1>1, <2>1, <2>2, <3>1, SameAccount
  <2> QED BY <2>3, <2>4
<1>8. Accounts'
  BY <1>7 DEF Accounts
<1> QED BY <1>5, <1>6, <1>8 DEF FInv

\* The stock HAL accepts the request or refuses it.
LEMMA ProcessFrames ==
  ASSUME FInv, StockAccepts \/ StockRefuses
  PROVE  FInv'
<1> DEFINE w == [buffers |-> DOMAIN request.buffers, metadata |-> TRUE, shutter |-> TRUE]
<1>1. /\ pc = "process" /\ pc' = "idle"
      /\ UNCHANGED <<requestVars, streamVars, frame, got, cb>>
  BY DEF StockAccepts, StockRefuses
<1>2. /\ captures \in Numbers /\ accepted[captures] = {} /\ captures \in frames
      /\ DOMAIN request.buffers \subseteq Streams /\ DOMAIN request.buffers # {}
  BY <1>1 DEF FInv, Capturing
<1>3. w \in PartsType
  BY <1>2 DEF PartsType
<1>4. w.buffers = DOMAIN request.buffers /\ w.metadata /\ w.shutter
  OBVIOUS
<1> HIDE DEF w
<1>5. ASSUME NEW n \in Numbers
      PROVE  /\ FrameOK(n)
             /\ OnItsWay(n)' = OnItsWay(n) /\ (MetadataOnItsWay(n)' <=> MetadataOnItsWay(n))
             /\ (AnswerOnItsWay(n)' <=> AnswerOnItsWay(n)) /\ (ShutterOnItsWay(n)' <=> ShutterOnItsWay(n))
  BY <1>1 DEF FInv, Accounts, OnItsWay, MetadataOnItsWay, AnswerOnItsWay, ShutterOnItsWay, Undelivered
<1>6. Untouched(captures)
  BY <1>2, <1>5 DEF FrameOK
<1>7. ASSUME NEW n \in Numbers, n # captures, frames' \ {captures} = frames \ {captures},
             accepted'[n] = accepted[n], owed'[n] = owed[n]
      PROVE  FrameOK(n)'
  <2>1. n \in frames' <=> n \in frames
    BY <1>7
  <2>2. CASE accepted[n] = {}
    <3>1. Untouched(n) /\ n \notin frames
      BY <1>5, <1>7, <2>2 DEF FrameOK, Untouched
    <3>2. Untouched(n)'
      BY <1>1, <1>5, <1>7, <2>1, <3>1 DEF Untouched
    <3> QED BY <1>7, <2>2, <3>2 DEF FrameOK
  <2>3. CASE accepted[n] # {}
    <3>1. Shared(n) /\ (n \in frames => InFlight(n)) /\ (n \notin frames => Retired(n))
      BY <1>5, <2>3 DEF FrameOK
    <3>2. Shared(n)' /\ (n \in frames => InFlight(n)') /\ (n \notin frames => Retired(n)')
      BY <1>1, <1>5, <1>7, <3>1 DEF Shared, InFlight, Retired
    <3> QED BY <1>7, <2>1, <2>3, <3>2 DEF FrameOK
  <2> QED BY <2>2, <2>3
<1>8. CASE StockAccepts
  <2>1. /\ owed' = [owed EXCEPT ![captures] = w] /\ frames' = frames
        /\ accepted' = [accepted EXCEPT ![captures] = DOMAIN request.buffers]
    BY <1>8 DEF StockAccepts, w
  <2>2. owed \in [Numbers -> PartsType] /\ accepted \in [Numbers -> SUBSET Streams]
    BY DEF FInv, Types
  <2>3. Types'
    BY <1>1, <1>2, <1>3, <2>1 DEF FInv, Types
  <2>4. captures \in Nat
    BY <1>2, CameraAssumption DEF Numbers
  <2>5. Capturing' /\ Quiet'
    BY <1>1, <2>1, <2>2, <2>4, CameraAssumption DEF FInv, Capturing, Quiet, Registering, Numbers
  <2>6. owed'[captures] = w /\ accepted'[captures] = DOMAIN request.buffers
    BY <1>2, <2>1, <2>2
  <2>7. Shared(captures)' /\ InFlight(captures)'
    <3>1. /\ frame'[captures] = frame[captures] /\ got'[captures] = got[captures] /\ captures' = captures
          /\ request' = request
      BY <1>1
    <3>2. MetadataOnItsWay(captures) => AnswerOnItsWay(captures)
      BY DEF MetadataOnItsWay, AnswerOnItsWay
    <3> QED BY <1>2, <1>4, <1>5, <1>6, <2>6, <3>1, <3>2 DEF Untouched, Shared, InFlight
  <2>8. FrameOK(captures)'
    BY <1>1, <1>2, <2>1, <2>6, <2>7 DEF FrameOK
  <2>9. ASSUME NEW n \in Numbers, n # captures PROVE FrameOK(n)'
    BY <1>7, <2>1, <2>2, <2>9
  <2>10. Accounts'
    BY <1>1, <2>8, <2>9 DEF Accounts
  <2> QED BY <2>3, <2>5, <2>10 DEF FInv
<1>9. CASE StockRefuses
  <2>1. frames' = frames \ {captures} /\ accepted' = accepted /\ owed' = owed
    BY <1>9 DEF StockRefuses
  <2>2. Types'
    BY <1>1, <2>1 DEF FInv, Types
  <2>3. Capturing' /\ Quiet'
    BY <1>1, <2>1 DEF FInv, Capturing, Quiet, Registering
  <2>4. Untouched(captures)'
    BY <1>1, <1>2, <1>5, <1>6, <2>1 DEF Untouched
  <2>5. FrameOK(captures)'
    BY <1>1, <1>2, <2>1, <2>4 DEF FrameOK
  <2>6. ASSUME NEW n \in Numbers, n # captures PROVE FrameOK(n)'
    BY <1>7, <2>1, <2>6
  <2>7. Accounts'
    BY <1>1, <2>5, <2>6 DEF Accounts
  <2> QED BY <2>2, <2>3, <2>7 DEF FInv
<1> QED BY <1>8, <1>9

\* drained.notify_all() moves a waiting call to its test and no other call.
LEMMA NotifiedCall ==
  ASSUME FInv, pc # "gone", pc' \in {pc, Notified(pc)},
         UNCHANGED <<requestVars, accepted>>, frames' \subseteq frames,
         pc = "process" => captures \in frames'
  PROVE  /\ Capturing' /\ Quiet' /\ pc' # "gone"
         /\ pc = "process" => pc' = "process"
<1>1. /\ pc' # "gone" /\ (pc' = "process" <=> pc = "process")
      /\ pc' \in {"drain", "drainWait", "register", "submit", "process"} =>
           pc \in {"drain", "drainWait", "register", "submit", "process"}
      /\ Registering' <=> Registering
  BY DEF Notified, Registering
<1>2. Capturing'
  BY <1>1 DEF FInv, Capturing
<1>3. Quiet'
  BY <1>1 DEF FInv, Quiet
<1> QED BY <1>1, <1>2, <1>3

\* When a callback starts, nothing is on its way.
LEMMA CallbackBegins ==
  ASSUME FInv, CallbackStarts
  PROVE  /\ pc # "gone"
         /\ \A n \in Numbers : /\ FrameOK(n) /\ OnItsWay(n) = {} /\ ~MetadataOnItsWay(n)
                               /\ ~AnswerOnItsWay(n) /\ ~ShutterOnItsWay(n)
<1>1. pc # "gone" /\ cb = NoCallback
  BY DEF FInv, Quiet, CallbackStarts
<1> QED BY <1>1 DEF FInv, Accounts, Undelivered, OnItsWay, MetadataOnItsWay, AnswerOnItsWay, ShutterOnItsWay

\* What a delivery carries.
LEMMA Carried ==
  ASSUME NEW m \in 0 .. MaxFrames, NEW B \in SUBSET Streams, NEW metadata \in BOOLEAN,
         NEW noMetadata \in BOOLEAN, NEW shutter \in BOOLEAN,
         cb' = Delivery(m, B, metadata, noMetadata, shutter)
  PROVE  /\ cb' \in CallbackType
         /\ \A n \in Numbers : n # m => /\ OnItsWay(n)' = {} /\ ~MetadataOnItsWay(n)'
                                        /\ ~AnswerOnItsWay(n)' /\ ~ShutterOnItsWay(n)'
         /\ OnItsWay(m)' = B /\ (MetadataOnItsWay(m)' <=> metadata)
         /\ AnswerOnItsWay(m)' <=> (metadata \/ noMetadata)
         /\ ShutterOnItsWay(m)' <=> shutter
<1>1. cb' \in CallbackType
  BY DEF Delivery, CallbackType
<1>2. cb' # NoCallback
  BY <1>1, NoCallbackIsNone
<1>3. /\ cb'.step = "deliver" /\ cb'.number = m /\ cb'.buffers = B
      /\ cb'.metadata = metadata /\ cb'.noMetadata = noMetadata /\ cb'.shutter = shutter
  BY DEF Delivery
<1>4. \A n : Undelivered(n)' <=> n = m
  BY <1>2, <1>3 DEF Undelivered
<1> QED BY <1>1, <1>3, <1>4 DEF OnItsWay, MetadataOnItsWay, AnswerOnItsWay, ShutterOnItsWay

\* A callback about frame m, or about none (m = 0), leaves the other frames alone.
LEMMA OneFrame ==
  ASSUME FInv, CallbackStarts, NEW m \in 0 .. MaxFrames, NEW B \in SUBSET Streams,
         NEW metadata \in BOOLEAN, NEW noMetadata \in BOOLEAN, NEW shutter \in BOOLEAN,
         cb' = Delivery(m, B, metadata, noMetadata, shutter),
         pc' \in {pc, Notified(pc)}, UNCHANGED <<requestVars, streamVars, frames, clientVars>>,
         owed' \in [Numbers -> PartsType], frame' \in [Numbers -> FrameType],
         \A n \in Numbers : n # m => owed'[n] = owed[n] /\ frame'[n] = frame[n],
         m \in Numbers => FrameOK(m)'
  PROVE  FInv'
<1>1. pc # "gone"
  BY CallbackBegins
<1>2. pc = "process" => captures \in frames
  BY DEF FInv, Capturing
<1>3. Capturing' /\ Quiet' /\ (pc = "process" => pc' = "process")
  BY <1>1, <1>2, NotifiedCall
<1>4. Types'
  BY Carried DEF FInv, Types
<1>5. ASSUME NEW n \in Numbers, n # m PROVE FrameOK(n)'
  <2>1. /\ FrameOK(n) /\ OnItsWay(n) = {} /\ ~MetadataOnItsWay(n)
        /\ ~AnswerOnItsWay(n) /\ ~ShutterOnItsWay(n)
    BY CallbackBegins
  <2>2. OnItsWay(n)' = {} /\ ~MetadataOnItsWay(n)' /\ ~AnswerOnItsWay(n)' /\ ~ShutterOnItsWay(n)'
    BY <1>5, Carried
  <2> QED BY <1>3, <1>5, <2>1, <2>2, SameAccount
<1>6. Accounts'
  BY <1>5 DEF Accounts
<1> QED BY <1>3, <1>4, <1>6 DEF FInv

\* Metadata of a retired frame is dropped.
LEMMA UnexpectedFrames ==
  ASSUME FInv, NEW m \in Numbers, UnexpectedResult(m)
  PROVE  FInv'
<1> DEFINE w == [owed[m] EXCEPT !.metadata = FALSE]
<1>1. /\ CallbackStarts /\ m \notin frames /\ owed[m].metadata /\ owed' = [owed EXCEPT ![m] = w]
      /\ UNCHANGED <<requestVars, streamVars, frameVars, clientVars, pc, cb>>
  BY DEF UnexpectedResult
<1>2. owed \in [Numbers -> PartsType] /\ owed[m] \in PartsType
  BY DEF FInv, Types
<1>3. w \in PartsType /\ w.buffers = owed[m].buffers /\ w.shutter = owed[m].shutter
  BY <1>2 DEF PartsType
<1> HIDE DEF w
<1>4. owed' \in [Numbers -> PartsType] /\ owed'[m] = w /\ (\A n \in Numbers : n # m => owed'[n] = owed[n])
  BY <1>1, <1>2, <1>3
<1>5. pc # "gone" /\ (pc = "process" => captures \in frames)
  BY <1>1, CallbackBegins DEF FInv, Capturing
<1>6. Capturing' /\ Quiet'
  BY <1>1, <1>5, NotifiedCall
<1>7. Types'
  BY <1>1, <1>4 DEF FInv, Types
<1>8. ASSUME NEW n \in Numbers
      PROVE  /\ FrameOK(n)
             /\ OnItsWay(n)' = OnItsWay(n) /\ (MetadataOnItsWay(n)' <=> MetadataOnItsWay(n))
             /\ (AnswerOnItsWay(n)' <=> AnswerOnItsWay(n)) /\ (ShutterOnItsWay(n)' <=> ShutterOnItsWay(n))
  BY <1>1, <1>5 DEF FInv, Accounts, OnItsWay, MetadataOnItsWay, AnswerOnItsWay, ShutterOnItsWay, Undelivered
<1>9. FrameOK(m)'
  <2>1. accepted[m] # {}
    BY <1>1, <1>8 DEF FrameOK, Untouched
  <2>2. Shared(m) /\ Retired(m)
    BY <1>1, <1>8, <2>1 DEF FrameOK
  <2>3. Shared(m)'
    BY <1>1, <1>3, <1>4, <1>8, <2>2 DEF Shared
  <2>4. Retired(m)'
    BY <1>1, <1>3, <1>4, <1>8, <2>2 DEF Retired
  <2> QED BY <1>1, <2>1, <2>3, <2>4 DEF FrameOK
<1>10. ASSUME NEW n \in Numbers, n # m PROVE FrameOK(n)'
  BY <1>1, <1>4, <1>8, <1>10, SameAccount
<1>11. Accounts'
  BY <1>9, <1>10 DEF Accounts
<1> QED BY <1>6, <1>7, <1>11 DEF FInv

\* result(): what it takes from the stock HAL, the Frame object crosses off.
LEMMA ResultFrames ==
  ASSUME FInv, NEW m \in Numbers, NEW B \in SUBSET Streams,
         NEW kind \in {"none", "partial", "final"}, NEW merged \in BOOLEAN, NEW stray \in BOOLEAN,
         Result(m, B, kind, merged, stray)
  PROVE  FInv'
<1> DEFINE read  == kind # "none" /\ ~frame[m].metadataDone
           error == read /\ ~merged
           done  == read /\ (kind = "final" \/ error)
           w0 == [owed[m] EXCEPT !.buffers = @ \ B, !.metadata = @ /\ kind # "final"]
           f0 == [frame[m] EXCEPT !.remaining = @ \ B, !.metadataDone = @ \/ done]
           w1 == [owed[m] EXCEPT !.buffers = @ \ B]
           w  == [w1 EXCEPT !.metadata = @ /\ kind # "final"]
           f1 == [frame[m] EXCEPT !.remaining = @ \ B]
           f  == [f1 EXCEPT !.metadataDone = @ \/ done]
<1>1. /\ CallbackStarts /\ m \in frames /\ B \subseteq owed[m].buffers
      /\ (kind # "none" => owed[m].metadata)
      /\ owed' = [owed EXCEPT ![m] = w0] /\ frame' = [frame EXCEPT ![m] = f0]
      /\ cb' = Delivery(m, B, done /\ ~error, error, FALSE)
      /\ pc' \in {pc, Notified(pc)} /\ UNCHANGED <<requestVars, streamVars, frames, clientVars>>
  BY DEF Result, ReadsMetadata
<1>2. /\ owed \in [Numbers -> PartsType] /\ owed[m] \in PartsType
      /\ frame \in [Numbers -> FrameType] /\ frame[m] \in FrameType
  BY DEF FInv, Types
<1>3. w1 \in PartsType /\ w1.buffers = owed[m].buffers \ B /\ w1.metadata = owed[m].metadata
      /\ w1.shutter = owed[m].shutter
  BY <1>2 DEF PartsType
<1>4. f1 \in FrameType /\ f1.remaining = frame[m].remaining \ B
      /\ f1.metadataDone = frame[m].metadataDone /\ f1.shutterDone = frame[m].shutterDone
  BY <1>2 DEF FrameType
<1>5. error \in BOOLEAN /\ done \in BOOLEAN /\ (done /\ ~error) \in BOOLEAN
  OBVIOUS
<1>6. /\ done => kind # "none" /\ ~frame[m].metadataDone
      /\ error => done
      /\ kind = "final" /\ ~frame[m].metadataDone => done
  OBVIOUS
<1>chained. w0 = w /\ f0 = f
  BY <1>2 DEF PartsType, FrameType
<1> HIDE DEF w0, f0, w1, f1, done, error, read
<1>7. w \in PartsType /\ w.buffers = owed[m].buffers \ B
      /\ (w.metadata <=> (owed[m].metadata /\ kind # "final")) /\ w.shutter = owed[m].shutter
  BY <1>3 DEF PartsType
<1>8. f \in FrameType /\ f.remaining = frame[m].remaining \ B
      /\ (f.metadataDone <=> (frame[m].metadataDone \/ done)) /\ f.shutterDone = frame[m].shutterDone
  BY <1>4, <1>5 DEF FrameType
<1> HIDE DEF w, f
<1>9. /\ owed' \in [Numbers -> PartsType] /\ frame' \in [Numbers -> FrameType]
      /\ owed'[m] = w /\ frame'[m] = f
      /\ \A n \in Numbers : n # m => owed'[n] = owed[n] /\ frame'[n] = frame[n]
  BY <1>1, <1>2, <1>7, <1>8, <1>chained
<1>10. m \in 0 .. MaxFrames
  BY CameraAssumption DEF Numbers
<1>11. /\ OnItsWay(m)' = B /\ (MetadataOnItsWay(m)' <=> done /\ ~error)
       /\ (AnswerOnItsWay(m)' <=> done) /\ ~ShutterOnItsWay(m)'
  BY <1>1, <1>5, <1>6, <1>10, Carried
<1>12. /\ pc # "gone" /\ FrameOK(m) /\ OnItsWay(m) = {} /\ ~AnswerOnItsWay(m) /\ ~ShutterOnItsWay(m)
  BY <1>1, CallbackBegins
<1>13. FrameOK(m)'
  <2>1. CASE accepted[m] = {}
    <3>1. Untouched(m)
      BY <1>12, <2>1 DEF FrameOK
    <3>2. B = {} /\ kind = "none" /\ ~done
      BY <1>1, <1>6, <3>1 DEF Untouched
    <3>3. pc' = "process"
      BY <1>1, <3>1 DEF Untouched, Notified
    <3>4. Untouched(m)'
      BY <1>1, <1>7, <1>8, <1>9, <1>11, <3>1, <3>2, <3>3 DEF Untouched
    <3> QED BY <1>1, <2>1, <3>4 DEF FrameOK
  <2>2. CASE accepted[m] # {}
    <3>1. Shared(m) /\ InFlight(m)
      BY <1>1, <1>12, <2>2 DEF FrameOK
    <3>2. Shared(m)'
      BY <1>1, <1>6, <1>7, <1>9, <1>11, <1>12, <3>1 DEF Shared, InFlight
    <3>3. InFlight(m)'
      BY <1>1, <1>6, <1>7, <1>8, <1>9, <1>11, <1>12, <3>1 DEF InFlight
    <3> QED BY <1>1, <2>2, <3>2, <3>3 DEF FrameOK
  <2> QED BY <2>1, <2>2
<1> QED BY <1>1, <1>5, <1>9, <1>10, <1>13, OneFrame

\* notify() of a shutter.
LEMMA ShutterFrames ==
  ASSUME FInv, NEW m \in Numbers, Shutter(m)
  PROVE  FInv'
<1> DEFINE w == [owed[m] EXCEPT !.shutter = FALSE]
           f == [frame[m] EXCEPT !.shutterDone = TRUE]
<1>1. /\ CallbackStarts /\ m \in frames /\ owed[m].shutter
      /\ owed' = [owed EXCEPT ![m] = w] /\ frame' = [frame EXCEPT ![m] = f]
      /\ cb' = Delivery(m, {}, FALSE, FALSE, TRUE)
      /\ pc' = pc /\ UNCHANGED <<requestVars, streamVars, frames, clientVars>>
  BY DEF Shutter
<1>2. /\ owed \in [Numbers -> PartsType] /\ owed[m] \in PartsType
      /\ frame \in [Numbers -> FrameType] /\ frame[m] \in FrameType
  BY DEF FInv, Types
<1>3. w \in PartsType /\ w.buffers = owed[m].buffers /\ w.metadata = owed[m].metadata /\ ~w.shutter
  BY <1>2 DEF PartsType
<1>4. f \in FrameType /\ f.remaining = frame[m].remaining
      /\ f.metadataDone = frame[m].metadataDone /\ f.shutterDone
  BY <1>2 DEF FrameType
<1> HIDE DEF w, f
<1>5. /\ owed' \in [Numbers -> PartsType] /\ frame' \in [Numbers -> FrameType]
      /\ owed'[m] = w /\ frame'[m] = f
      /\ \A n \in Numbers : n # m => owed'[n] = owed[n] /\ frame'[n] = frame[n]
  BY <1>1, <1>2, <1>3, <1>4
<1>6. m \in 0 .. MaxFrames
  BY CameraAssumption DEF Numbers
<1>7. OnItsWay(m)' = {} /\ ~MetadataOnItsWay(m)' /\ ~AnswerOnItsWay(m)' /\ ShutterOnItsWay(m)'
  BY <1>1, <1>6, Carried
<1>8. /\ FrameOK(m) /\ OnItsWay(m) = {} /\ ~MetadataOnItsWay(m) /\ ~AnswerOnItsWay(m) /\ ~ShutterOnItsWay(m)
  BY <1>1, CallbackBegins
<1>9. accepted[m] # {} /\ Shared(m) /\ InFlight(m)
  BY <1>1, <1>8 DEF FrameOK, Untouched
<1>10. Shared(m)'
  BY <1>1, <1>3, <1>5, <1>7, <1>8, <1>9 DEF Shared
<1>11. InFlight(m)'
  BY <1>1, <1>3, <1>4, <1>5, <1>7, <1>8, <1>9 DEF InFlight
<1>12. FrameOK(m)'
  BY <1>1, <1>9, <1>10, <1>11 DEF FrameOK
<1> QED BY <1>1, <1>5, <1>6, <1>12, OneFrame

\* notify() that there will be no metadata.
LEMMA NoResultFrames ==
  ASSUME FInv, NEW m \in Numbers, NEW request_error \in BOOLEAN, NoResult(m, request_error)
  PROVE  FInv'
<1> DEFINE w1 == [owed[m] EXCEPT !.metadata = FALSE]
           w0 == [owed[m] EXCEPT !.metadata = FALSE, !.shutter = @ /\ ~request_error]
           w  == [w1 EXCEPT !.shutter = @ /\ ~request_error]
           f1 == [frame[m] EXCEPT !.metadataDone = TRUE]
           f  == [f1 EXCEPT !.shutterDone = @ \/ request_error]
           f0 == [frame[m] EXCEPT !.metadataDone = TRUE, !.shutterDone = @ \/ request_error]
           g  == IF m \notin frames THEN frame[m] ELSE f0
<1>1. /\ CallbackStarts /\ owed[m].metadata
      /\ owed' = [owed EXCEPT ![m] = w0] /\ frame' = [frame EXCEPT ![m] = g]
      /\ cb' = Delivery(m, {}, FALSE, TRUE, request_error)
      /\ pc' = pc /\ UNCHANGED <<requestVars, streamVars, frames, clientVars>>
  BY DEF NoResult
<1>2. /\ owed \in [Numbers -> PartsType] /\ owed[m] \in PartsType
      /\ frame \in [Numbers -> FrameType] /\ frame[m] \in FrameType
  BY DEF FInv, Types
<1>3. w1 \in PartsType /\ w1.buffers = owed[m].buffers /\ ~w1.metadata /\ w1.shutter = owed[m].shutter
  BY <1>2 DEF PartsType
<1>4. f1 \in FrameType /\ f1.remaining = frame[m].remaining
      /\ f1.metadataDone /\ f1.shutterDone = frame[m].shutterDone
  BY <1>2 DEF FrameType
<1>chained. w0 = w /\ f0 = f
  BY <1>2 DEF PartsType, FrameType
<1> HIDE DEF w0, f0, w1, f1
<1>5. w \in PartsType /\ w.buffers = owed[m].buffers /\ ~w.metadata
      /\ (w.shutter <=> (owed[m].shutter /\ ~request_error))
  BY <1>3 DEF PartsType
<1>6. f \in FrameType /\ f.remaining = frame[m].remaining /\ f.metadataDone
      /\ (f.shutterDone <=> (frame[m].shutterDone \/ request_error))
  BY <1>4 DEF FrameType
<1> HIDE DEF w, f
<1>7. /\ owed' \in [Numbers -> PartsType] /\ frame' \in [Numbers -> FrameType]
      /\ owed'[m] = w /\ (m \in frames => frame'[m] = f)
      /\ \A n \in Numbers : n # m => owed'[n] = owed[n] /\ frame'[n] = frame[n]
  BY <1>1, <1>2, <1>5, <1>6, <1>chained
<1>8. m \in 0 .. MaxFrames
  BY CameraAssumption DEF Numbers
<1>9. /\ OnItsWay(m)' = {} /\ ~MetadataOnItsWay(m)' /\ AnswerOnItsWay(m)'
      /\ ShutterOnItsWay(m)' <=> request_error
  BY <1>1, <1>8, Carried
<1>10. /\ FrameOK(m) /\ OnItsWay(m) = {} /\ ~MetadataOnItsWay(m) /\ ~AnswerOnItsWay(m) /\ ~ShutterOnItsWay(m)
  BY <1>1, CallbackBegins
<1>11. accepted[m] # {} /\ Shared(m) /\ (m \in frames => InFlight(m)) /\ (m \notin frames => Retired(m))
  BY <1>1, <1>10 DEF FrameOK, Untouched
<1>12. Shared(m)'
  BY <1>1, <1>5, <1>7, <1>9, <1>10, <1>11 DEF Shared
<1>13. m \in frames => InFlight(m)'
  BY <1>1, <1>5, <1>6, <1>7, <1>9, <1>10, <1>11 DEF InFlight
<1>14. m \notin frames => Retired(m)'
  BY <1>1, <1>5, <1>7, <1>9, <1>10, <1>11 DEF Retired
<1>15. FrameOK(m)'
  BY <1>1, <1>11, <1>12, <1>13, <1>14 DEF FrameOK
<1> QED BY <1>1, <1>7, <1>8, <1>15, OneFrame

\* notify() of an error that settles nothing.
LEMMA ErrorFrames ==
  ASSUME FInv, DeviceError \/ (\E n \in Numbers : BufferError(n))
  PROVE  FInv'
<1>1. PICK m \in 0 .. MaxFrames : cb' = Delivery(m, {}, FALSE, FALSE, FALSE)
  <2>1. 0 \in 0 .. MaxFrames /\ Numbers \subseteq 0 .. MaxFrames
    BY CameraAssumption DEF Numbers
  <2>2. CASE DeviceError
    BY <2>1, <2>2 DEF DeviceError
  <2>3. ASSUME NEW n \in Numbers, BufferError(n)
        PROVE  \E m \in 0 .. MaxFrames : cb' = Delivery(m, {}, FALSE, FALSE, FALSE)
    BY <2>1, <2>3 DEF BufferError
  <2> QED BY <2>2, <2>3
<1>2. /\ CallbackStarts /\ pc' \in {pc, Notified(pc)}
      /\ UNCHANGED <<requestVars, streamVars, frameVars, clientVars, owed>>
  BY DEF DeviceError, BufferError
<1>3. owed' \in [Numbers -> PartsType] /\ frame' \in [Numbers -> FrameType]
  BY <1>2 DEF FInv, Types
<1>4. ASSUME m \in Numbers PROVE FrameOK(m)'
  <2>1. /\ FrameOK(m) /\ OnItsWay(m) = {} /\ ~MetadataOnItsWay(m)
        /\ ~AnswerOnItsWay(m) /\ ~ShutterOnItsWay(m)
    BY <1>2, <1>4, CallbackBegins
  <2>2. OnItsWay(m)' = {} /\ ~MetadataOnItsWay(m)' /\ ~AnswerOnItsWay(m)' /\ ~ShutterOnItsWay(m)'
    BY <1>1, Carried
  <2>3. pc = "process" => pc' = "process"
    BY <1>2 DEF Notified
  <2> QED BY <1>2, <1>4, <2>1, <2>2, <2>3, SameAccount
<1> QED BY <1>1, <1>2, <1>3, <1>4, OneFrame

\* What was on its way is with the client.
LEMMA DeliverFrames ==
  ASSUME FInv, Deliver
  PROVE  FInv'
<1> DEFINE d == Delivery(cb.number, {}, FALSE, FALSE, FALSE)
<1>1. /\ cb # NoCallback /\ cb.step = "deliver" /\ cb' = [d EXCEPT !.step = "retire"]
      /\ got' = [n \in Numbers |-> IF n # cb.number THEN got[n]
                   ELSE [buffers  |-> got[n].buffers \cup cb.buffers,
                         metadata |-> got[n].metadata \/ cb.metadata \/ cb.noMetadata,
                         shutter  |-> got[n].shutter \/ cb.shutter]]
      /\ UNCHANGED <<requestVars, streamVars, frameVars, accepted, pc, owed>>
  BY DEF Deliver
<1>2. cb \in CallbackType /\ got \in [Numbers -> PartsType] /\ pc # "gone"
  BY <1>1 DEF FInv, Types, Quiet
<1>3. /\ cb.number \in 0 .. MaxFrames /\ cb.buffers \in SUBSET Streams /\ cb.metadata \in BOOLEAN
      /\ cb.noMetadata \in BOOLEAN /\ cb.shutter \in BOOLEAN
  BY <1>2 DEF CallbackType
<1>4. cb' \in CallbackType /\ cb'.step = "retire"
  BY <1>1, <1>3 DEF Delivery, CallbackType
<1>5. ASSUME NEW n \in Numbers PROVE got'[n] \in PartsType
  <2>1. got[n] \in PartsType
    BY <1>2
  <2>2. /\ got[n].buffers \in SUBSET Streams /\ got[n].metadata \in BOOLEAN /\ got[n].shutter \in BOOLEAN
    BY <2>1 DEF PartsType
  <2>3. CASE n # cb.number
    BY <1>1, <2>1, <2>3
  <2>4. CASE n = cb.number
    <3> DEFINE b == got[n].buffers \cup cb.buffers
               md == got[n].metadata \/ cb.metadata \/ cb.noMetadata
               sh == got[n].shutter \/ cb.shutter
    <3>1. b \in SUBSET Streams /\ md \in BOOLEAN /\ sh \in BOOLEAN
      BY <1>3, <2>2
    <3>2. got'[n] = [buffers |-> b, metadata |-> md, shutter |-> sh]
      BY <1>1, <2>4
    <3> HIDE DEF b, md, sh
    <3> QED BY <3>1, <3>2 DEF PartsType
  <2> QED BY <2>3, <2>4
<1>6. got' \in [Numbers -> PartsType]
  BY <1>1, <1>5
<1>7. Types'
  BY <1>1, <1>4, <1>6 DEF FInv, Types
<1>8. Capturing' /\ Quiet'
  BY <1>1, <1>2 DEF FInv, Capturing, Quiet, Registering
<1>9. ASSUME NEW n \in Numbers PROVE FrameOK(n)'
  <2>1. FrameOK(n)
    BY <1>2 DEF FInv, Accounts
  <2>2. OnItsWay(n)' = {} /\ ~MetadataOnItsWay(n)' /\ ~AnswerOnItsWay(n)' /\ ~ShutterOnItsWay(n)'
    BY <1>4 DEF Undelivered, OnItsWay, MetadataOnItsWay, AnswerOnItsWay, ShutterOnItsWay
  <2>3. /\ got'[n].buffers = got[n].buffers \cup OnItsWay(n)
        /\ got'[n].metadata <=> (got[n].metadata \/ AnswerOnItsWay(n))
        /\ got'[n].shutter <=> (got[n].shutter \/ ShutterOnItsWay(n))
    <3>1. Undelivered(n) <=> n = cb.number
      BY <1>1 DEF Undelivered
    <3>2. CASE n # cb.number
      BY <1>1, <3>1, <3>2 DEF OnItsWay, AnswerOnItsWay, ShutterOnItsWay
    <3>3. CASE n = cb.number
      BY <1>1, <3>1, <3>3 DEF OnItsWay, AnswerOnItsWay, ShutterOnItsWay
    <3> QED BY <3>2, <3>3
  <2>4. CASE accepted[n] = {}
    <3>1. Untouched(n)
      BY <2>1, <2>4 DEF FrameOK
    <3>2. Untouched(n)'
      BY <1>1, <2>2, <2>3, <3>1 DEF Untouched
    <3> QED BY <1>1, <2>4, <3>2 DEF FrameOK
  <2>5. CASE accepted[n] # {}
    <3>1. Shared(n) /\ (n \in frames => InFlight(n)) /\ (n \notin frames => Retired(n))
      BY <2>1, <2>5 DEF FrameOK
    <3>2. Shared(n)'
      BY <1>1, <2>2, <2>3, <3>1 DEF Shared
    <3>3. n \in frames => InFlight(n)'
      BY <1>1, <2>2, <2>3, <3>1 DEF InFlight
    <3>4. n \notin frames => Retired(n)'
      BY <1>1, <2>2, <2>3, <3>1 DEF Retired
    <3> QED BY <1>1, <2>5, <3>2, <3>3, <3>4 DEF FrameOK
  <2> QED BY <2>4, <2>5
<1>10. Accounts'
  BY <1>9 DEF Accounts
<1> QED BY <1>7, <1>8, <1>10 DEF FInv

\* retire() forgets a frame of which nothing is owed.
LEMMA RetireFrames ==
  ASSUME FInv, Retire
  PROVE  FInv'
<1>1. /\ cb # NoCallback /\ cb.step = "retire" /\ cb' = NoCallback
      /\ UNCHANGED <<requestVars, streamVars, frame, clientVars, owed>>
  BY DEF Retire
<1>2. \/ /\ cb.number \in frames /\ Complete(frame[cb.number])
         /\ frames' = frames \ {cb.number} /\ pc' = Notified(pc)
      \/ frames' = frames /\ pc' = pc
  BY DEF Retire
<1>3. pc # "gone"
  BY <1>1 DEF FInv, Quiet
<1>4. ASSUME NEW n \in Numbers
      PROVE  /\ FrameOK(n)
             /\ OnItsWay(n) = {} /\ ~MetadataOnItsWay(n) /\ ~AnswerOnItsWay(n) /\ ~ShutterOnItsWay(n)
             /\ OnItsWay(n)' = {} /\ ~MetadataOnItsWay(n)' /\ ~AnswerOnItsWay(n)' /\ ~ShutterOnItsWay(n)'
  BY <1>1, <1>3 DEF FInv, Accounts, Undelivered, OnItsWay, MetadataOnItsWay, AnswerOnItsWay, ShutterOnItsWay
<1>5. pc = "process" => captures \in frames'
  <2> SUFFICES ASSUME pc = "process" PROVE captures \in frames'
    OBVIOUS
  <2>1. captures \in Numbers /\ captures \in frames /\ accepted[captures] = {}
    BY DEF FInv, Capturing
  <2>2. ~Complete(frame[captures])
    BY <1>4, <2>1 DEF FrameOK, Untouched, Complete
  <2> QED BY <1>2, <2>1, <2>2
<1>6. pc' \in {pc, Notified(pc)} /\ frames' \subseteq frames
  BY <1>2
<1>7. Capturing' /\ Quiet' /\ (pc = "process" => pc' = "process")
  BY <1>1, <1>3, <1>5, <1>6, NotifiedCall
<1>8. Types'
  BY <1>1, <1>6 DEF FInv, Types
<1>9. ASSUME NEW n \in Numbers PROVE FrameOK(n)'
  <2>1. CASE n \in frames' <=> n \in frames
    BY <1>1, <1>4, <1>7, <2>1, SameAccount
  <2>2. CASE n \in frames /\ n \notin frames'
    <3>1. Complete(frame[n])
      BY <1>2, <2>2
    <3>2. accepted[n] # {}
      BY <1>4, <2>2, <3>1 DEF FrameOK, Untouched, Complete
    <3>3. Shared(n) /\ InFlight(n)
      BY <1>4, <2>2, <3>2 DEF FrameOK
    <3>4. Shared(n)'
      BY <1>1, <1>4, <3>3 DEF Shared
    <3>5. Retired(n)'
      BY <1>1, <1>4, <3>1, <3>3 DEF Shared, InFlight, Retired, Complete
    <3> QED BY <1>1, <2>2, <3>2, <3>4, <3>5 DEF FrameOK
  <2> QED BY <1>6, <2>1, <2>2
<1>10. Accounts'
  BY <1>9 DEF Accounts
<1> QED BY <1>7, <1>8, <1>10 DEF FInv

\* A callback begins.
LEMMA CallbackFrames ==
  ASSUME FInv, NEW n \in Numbers, FrameCallback(n)
  PROVE  FInv'
<1>1. CASE \E B \in SUBSET Streams, kind \in {"none", "partial", "final"},
              merged \in BOOLEAN, stray \in BOOLEAN : Result(n, B, kind, merged, stray)
  BY <1>1, ResultFrames
<1>2. CASE Shutter(n)
  BY <1>2, ShutterFrames
<1>3. CASE UnexpectedResult(n)
  BY <1>3, UnexpectedFrames
<1>4. CASE BufferError(n)
  BY <1>4, ErrorFrames
<1>5. CASE \E request_error \in BOOLEAN : NoResult(n, request_error)
  BY <1>5, NoResultFrames
<1> QED BY <1>1, <1>2, <1>3, <1>4, <1>5 DEF FrameCallback

\* The invariant is inductive.
LEMMA NextFrames == FInv /\ [Next]_vars => FInv'
<1> SUFFICES ASSUME FInv, [Next]_vars PROVE FInv'
  OBVIOUS
<1>1. CASE CallStep
  BY <1>1, CallFrames
<1>2. CASE RequestStep
  BY <1>2, RequestFrames, ReopenFrames, SwapFrames, SubmitFrames, ProcessFrames, CloseFrames
     DEF RequestStep
<1>3. CASE DrainSpuriousWakeup \/ DrainTimesOut
  BY <1>3, RequestFrames
<1>4. CASE \E n \in Numbers : FrameCallback(n)
  BY <1>4, CallbackFrames
<1>5. CASE DeviceError
  BY <1>5, ErrorFrames
<1>6. CASE CallbackStep
  BY <1>6, DeliverFrames, RetireFrames DEF CallbackStep
<1>7. CASE UNCHANGED vars
  <2>1. UNCHANGED <<requestVars, streamVars, frameVars, stockVars, clientVars, pc, cb, owed>>
    BY <1>7 DEF vars
  <2>2. Types' /\ Capturing' /\ Quiet'
    BY <2>1 DEF FInv, Types, Capturing, Quiet, Registering
  <2>3. ASSUME NEW n \in Numbers, FrameOK(n) PROVE FrameOK(n)'
    <3>1. Undelivered(n)' <=> Undelivered(n)
      BY <2>1 DEF Undelivered
    <3> QED BY <2>1, <2>3, <3>1, SameAccount
            DEF OnItsWay, MetadataOnItsWay, AnswerOnItsWay, ShutterOnItsWay
  <2>4. Accounts'
    BY <2>1, <2>3 DEF FInv, Accounts
  <2> QED BY <2>2, <2>4 DEF FInv
<1> QED BY <1>1, <1>2, <1>3, <1>4, <1>5, <1>6, <1>7 DEF Next

\* Every reachable state of the Camera satisfies the invariant.
LEMMA FramesAccounted == Spec => []FInv
<1> QED BY InitFrames, NextFrames, PTL DEF Spec

\* For any number of frames and streams, result(), notify(), retire() and the calls neither
\* lose a buffer of an accepted request nor return it twice.
THEOREM NoBufferLost == Spec => []BuffersConserved
<1> QED BY FramesAccounted, InvariantConserves, PTL

\* retire() removes a frame, and so lets drain() and configure() go on, only when the client
\* has had everything that capture() promised it.
THEOREM RetiredOnlyWhenDelivered == Spec => []RetiredMeansDelivered
<1> QED BY FramesAccounted, InvariantRetires, PTL

\* result() gives the client the metadata of a frame at most once, and none after notify()
\* said that there would be none.
THEOREM MetadataDeliveredOnce == Spec => []MetadataOnce
<1> QED BY FramesAccounted, InvariantOnce, PTL

\* capture() registers buffers and configure() replaces streams only when the stock HAL has
\* no buffer and owes no shutter, and no callback is handing over a buffer or metadata.
THEOREM StreamsQuiet == Spec => []QuietWhenRegistering
<1> QED BY FramesAccounted, InvariantQuiet, PTL
=============================================================================
