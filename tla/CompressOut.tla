---------------------------- MODULE CompressOut ----------------------------
(***************************************************************************)
(* The compressed output stream of the audio HAL (src/audio/audio_hw.c):   *)
(* the caller's thread, which writes, pauses, drains, flushes and closes,  *)
(* and the async thread, out_compress_async_fn(), that a callback brings   *)
(* to life.  A section under out->common.lock or async->mutex is one step; *)
(* everything the code does outside them is a step of its own.             *)
(***************************************************************************)
EXTENDS Sequences

VARIABLES
    open,      \* out->compress is not NULL
    started,   \* out->started
    paused,    \* out->paused
    refresh,   \* out->refresh_gapless_meta
    mode,      \* async->mode
    exit,      \* async->exit
    published, \* async->stream has been stored
    caller,    \* what the caller's thread is about to do
    worker,    \* what the async thread is about to do
    job,       \* the async thread's local copy of mode
    out,       \* the async thread's local copy of async->stream is not NULL
    owed       \* history: the accepted requests whose callback is to come

vars == <<open, started, paused, refresh, mode, exit, published, caller, worker,
          job, out, owed>>

stream == <<open, started, paused, refresh>>
async == <<mode, exit, published, worker, job, out, owed>>

NONE == "ASYNC_NONE"
POLL == "ASYNC_POLL"
Drains == {"ASYNC_EARLY_DRAIN", "ASYNC_FULL_DRAIN"}

Init ==
    /\ open = FALSE /\ started = FALSE /\ paused = FALSE /\ refresh = FALSE
    /\ mode = NONE /\ exit = FALSE /\ published = FALSE
    /\ caller = "set_callback"
    /\ worker = "none" /\ job = NONE /\ out = FALSE
    /\ owed = <<>>

\* A null stream or compress handle is dereferenced: the process is gone.
Crash == caller' = "crashed" /\ worker' = "crashed"

-----------------------------------------------------------------------------
(* The caller's thread.                                                    *)

\* out_set_callback(): the thread runs before async->stream is stored.
SetCallback ==
    /\ caller = "set_callback"
    /\ \/ caller' = "publish" /\ worker' = "begin"
       \/ caller' = "idle" /\ worker' = "none"    \* none, or no thread
    /\ UNCHANGED <<stream, mode, exit, published, job, out, owed>>

Publish ==
    /\ caller = "publish"
    /\ published' = TRUE
    /\ caller' = "idle"
    /\ UNCHANGED <<stream, mode, exit, worker, job, out, owed>>

\* signal_async_thread(): a request is refused while one is not yet taken.
\* The signal wakes the thread only if it is waiting.
SignalAsyncThread(m) ==
    IF mode # NONE
    THEN UNCHANGED <<mode, worker, owed>>
    ELSE /\ mode' = m
         /\ owed' = Append(owed, m)
         /\ worker' = IF worker = "wait" THEN "woken" ELSE worker

\* do_standby_compress_l() without the test of out->paused.
Standby_WhilePaused ==
    /\ open' = FALSE
    /\ started' = (started /\ ~open)
    /\ UNCHANGED <<paused, refresh>>

\* do_standby_compress_l()
Standby ==
    IF open /\ ~paused
    THEN open' = FALSE /\ started' = FALSE /\ UNCHANGED <<paused, refresh>>
    ELSE UNCHANGED stream

OutCompressStandby ==
    /\ caller = "idle"
    /\ Standby
    /\ UNCHANGED <<caller, async>>

\* out_compress_write(), as far as open_output_compress(): the device may
\* refuse to open.
OutCompressWrite ==
    /\ caller = "idle"
    /\ \/ open' = TRUE /\ caller' = "write"
       \/ ~open /\ UNCHANGED <<open, caller>>
    /\ UNCHANGED <<started, paused, refresh, async>>

\* compress_write() fails, or takes some or all of the bytes; started is read
\* without the lock.
CompressWrite ==
    /\ caller = "write"
    /\ \E taken \in {"failed", "partly", "wholly"} :
         caller' = CASE taken = "partly" -> IF started THEN "signal" ELSE "start_signal"
                     [] taken = "wholly" -> IF started THEN "idle" ELSE "start"
                     [] OTHER -> "idle"
    /\ UNCHANGED <<stream, async>>

\* start_output_compress()
StartOutputCompress ==
    /\ caller \in {"start", "start_signal"}
    /\ \/ /\ started' = TRUE /\ refresh' = FALSE
          /\ caller' = IF caller = "start_signal" THEN "signal" ELSE "idle"
          /\ UNCHANGED <<open, paused>>
       \/ Standby /\ caller' = "idle"              \* compress_start() failed
    /\ UNCHANGED async

\* The rest of out_compress_write(): ask for WRITE_READY after a short write.
SignalPoll ==
    /\ caller = "signal"
    /\ IF published THEN SignalAsyncThread(POLL) ELSE UNCHANGED <<mode, worker, owed>>
    /\ caller' = "idle"
    /\ UNCHANGED <<stream, exit, published, job, out>>

\* out_compress_pause() and out_compress_resume(): paused changes whatever the
\* driver answers.
OutCompressPause ==
    /\ caller = "idle" /\ ~paused /\ open
    /\ paused' = TRUE
    /\ UNCHANGED <<open, started, refresh, caller, async>>

OutCompressResume ==
    /\ caller = "idle" /\ paused /\ open
    /\ paused' = FALSE
    /\ UNCHANGED <<open, started, refresh, caller, async>>

\* out_compress_drain(): with a callback the async thread drains; without, the
\* caller does, and an early drain whose compress_next_track() fails changes nothing.
OutCompressDrain ==
    /\ caller = "idle"
    /\ \E m \in Drains :
         IF published
         THEN /\ SignalAsyncThread(m)
              /\ UNCHANGED <<stream, caller, exit, published, job, out>>
         ELSE /\ IF ~open THEN Crash ELSE UNCHANGED <<caller, worker>>
              /\ started' \in {FALSE} \cup (IF m = "ASYNC_EARLY_DRAIN" THEN {started} ELSE {})
              /\ UNCHANGED <<open, paused, refresh, mode, exit, published, job, out, owed>>

\* out_compress_flush()
OutCompressFlush ==
    /\ caller = "idle" /\ open /\ started
    /\ paused' = FALSE /\ started' = FALSE
    /\ UNCHANGED <<open, refresh, caller, async>>

\* out_compress_set_parameters() with gapless data
OutCompressSetParameters ==
    /\ caller = "idle"
    /\ refresh' = TRUE
    /\ UNCHANGED <<open, started, paused, caller, async>>

\* out_compress_close(), as far as the standby: paused is cleared unlocked.
OutCompressClose ==
    /\ caller = "idle"
    /\ paused' = FALSE
    /\ open' = FALSE /\ started' = (started /\ ~open)
    /\ caller' = IF published THEN "exit" ELSE "closed"
    /\ UNCHANGED <<refresh, async>>

\* do_close_out_common(): tell the thread, then join it.
DoCloseOutCommon ==
    /\ caller = "exit"
    /\ exit' = TRUE
    /\ worker' = IF worker = "wait" THEN "woken" ELSE worker
    /\ caller' = "join"
    /\ UNCHANGED <<stream, mode, published, job, out, owed>>

Joined ==
    /\ caller = "join" /\ worker = "exited"
    /\ caller' = "closed"
    /\ UNCHANGED <<stream, async>>

-----------------------------------------------------------------------------
(* out_compress_async_fn()                                                 *)

Begin ==
    /\ worker = "begin"
    /\ out' = published
    /\ worker' = "test"
    /\ UNCHANGED <<stream, mode, exit, published, caller, job, owed>>

\* while (!pW->exit), without the mutex.
Test ==
    /\ worker = "test"
    /\ worker' = IF exit THEN "exited" ELSE "lock"
    /\ UNCHANGED <<stream, caller, mode, exit, published, job, out, owed>>

\* pthread_mutex_lock() and pthread_cond_wait(): nothing is tested in between.
LockAndWait ==
    /\ worker = "lock"
    /\ worker' = "wait"
    /\ UNCHANGED <<stream, caller, mode, exit, published, job, out, owed>>

\* pthread_cond_wait() may return by itself (external).
SpuriousWakeup ==
    /\ worker = "wait"
    /\ worker' = "woken"
    /\ UNCHANGED <<stream, caller, mode, exit, published, job, out, owed>>

\* The thread takes the request but does not clear it.
TakeJob_KeepsMode ==
    /\ worker = "woken"
    /\ IF exit THEN worker' = "exited" /\ UNCHANGED job
               ELSE job' = mode /\ worker' = IF mode = NONE THEN "test" ELSE "work"
    /\ UNCHANGED <<stream, caller, mode, exit, published, out, owed>>

\* Awake with the mutex: leave the loop (with the mutex held, which nobody asks
\* for again), or take the request.
TakeJob ==
    /\ worker = "woken"
    /\ IF exit
       THEN worker' = "exited" /\ UNCHANGED <<mode, job>>
       ELSE /\ job' = mode /\ mode' = NONE
            /\ worker' = IF mode = NONE THEN "test" ELSE "work"
    /\ UNCHANGED <<stream, caller, exit, published, out, owed>>

\* The switch reads out->compress, unlocked, and blocks in the driver.
Work ==
    /\ worker = "work"
    /\ IF out /\ open THEN worker' = "busy" /\ UNCHANGED caller ELSE Crash
    /\ UNCHANGED <<stream, mode, exit, published, job, out, owed>>

\* The driver returns, perhaps into a handle closed meanwhile; a drain then
\* clears started, unlocked.
WorkDone ==
    /\ worker = "busy"
    /\ \/ /\ started' = (started /\ job \notin Drains)
          /\ worker' = "callback"
          /\ UNCHANGED caller
       \/ ~open /\ Crash /\ UNCHANGED started
    /\ UNCHANGED <<open, paused, refresh, mode, exit, published, job, out, owed>>

\* pW->callback(): WRITE_READY for a poll, DRAIN_READY for a drain.
Callback ==
    /\ worker = "callback"
    /\ owed' = IF owed = <<>> THEN owed ELSE Tail(owed)
    /\ worker' = "test"
    /\ UNCHANGED <<stream, caller, mode, exit, published, job, out>>

-----------------------------------------------------------------------------
Caller ==
    \/ SetCallback \/ Publish \/ OutCompressStandby \/ OutCompressWrite \/ CompressWrite
    \/ StartOutputCompress \/ SignalPoll \/ OutCompressPause \/ OutCompressResume
    \/ OutCompressDrain \/ OutCompressFlush \/ OutCompressSetParameters
    \/ OutCompressClose \/ DoCloseOutCommon \/ Joined

Worker == Begin \/ Test \/ LockAndWait \/ TakeJob \/ Work \/ WorkDone \/ Callback

Next == Caller \/ Worker \/ SpuriousWakeup

Spec == Init /\ [][Next]_vars

\* Both threads keep running: neither stops inside a call it has begun.  No
\* spurious wakeup is promised.
FairSpec == Spec /\ WF_vars(Worker) /\ WF_vars(caller # "idle" /\ Caller)

-----------------------------------------------------------------------------
\* "prevents standby while in pause" (the comment on stream_out_compress.paused):
\* whatever is started, drained, flushed or put in standby meanwhile, a paused
\* stream keeps its compress handle, and a started one has a handle.
HandleOutlivesPause == paused \/ started => open

\* Every callback answers a request that signal_async_thread() accepted and that
\* no earlier callback answered, in the order of acceptance: WRITE_READY and
\* DRAIN_READY are never invented, whatever wakes the async thread.
CallbackAnswersRequest == worker = "callback" => owed # <<>> /\ Head(owed) = job

\* "Signal the async thread to stop and exit", "Wait for thread to exit" (the
\* comments of do_close_out_common()): closing the stream ends.
CloseReturns == caller = "join" ~> caller \in {"closed", "crashed"}
=============================================================================
