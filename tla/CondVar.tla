------------------------------- MODULE CondVar -------------------------------
(***************************************************************************)
(* The condition variable the camera shim library brings along for the     *)
(* vendor blobs (libmocha/bionic/pthread_cond.cpp) over a futex, used as   *)
(* its comment demands: with a mutex and a predicate.                      *)
(*                                                                         *)
(* Consumers wait for an item, producers add one each and signal or        *)
(* broadcast, before or after they release the mutex.  The futex           *)
(* (external) compares and sleeps in one step; the mutex (external) is     *)
(* fair.  A wait may be timed: its clock may expire at any moment.         *)
(***************************************************************************)
EXTENDS Integers, FiniteSets

CONSTANTS
    Consumers, Producers,
    Flags,       \* the attribute bits of the state word: shared, clock
    Counter      \* values of its counter, 2^30 in the code

VARIABLES
    state,     \* pthread_cond_internal_t.state
    owner,     \* who holds the mutex, or Nobody
    items,     \* the predicate: what the consumers wait for
    asleep,    \* the threads in futex_wait
    old,       \* old_state of each consumer's wait
    pc         \* where each thread is

vars == <<state, owner, items, asleep, old, pc>>

Threads == Consumers \cup Producers
Nobody == "nobody"
COND_COUNTER_STEP == 4
Word == COND_COUNTER_STEP * Counter

\* pthread_cond_init() takes the flags of the attribute.
Init ==
    /\ state = Flags
    /\ owner = Nobody /\ items = 0 /\ asleep = {}
    /\ old = [c \in Consumers |-> 0]
    /\ pc = [t \in Threads |-> "lock"]

Goto(t, l) == pc' = [pc EXCEPT ![t] = l]

Lock(t) ==
    /\ pc[t] \in {"lock", "relock"} /\ owner = Nobody
    /\ owner' = t
    /\ Goto(t, "check")
    /\ UNCHANGED <<state, items, asleep, old>>

\* __pthread_cond_timedwait(): an absolute time that has passed returns at
\* once, with the mutex held; otherwise the state is read under the mutex.
Check(c) ==
    /\ pc[c] = "check" /\ c \in Consumers
    /\ \/ /\ items > 0
          /\ items' = items - 1 /\ owner' = Nobody
          /\ Goto(c, "done")
          /\ UNCHANGED old
       \/ /\ items = 0
          /\ old' = [old EXCEPT ![c] = state]
          /\ Goto(c, "unlock")
          /\ UNCHANGED <<items, owner>>
       \/ /\ items = 0                     \* ETIMEDOUT: the caller tries again
          /\ owner' = Nobody
          /\ Goto(c, "lock")
          /\ UNCHANGED <<items, old>>
    /\ UNCHANGED <<state, asleep>>

\* pthread_mutex_unlock() inside __pthread_cond_timedwait_relative()
Wait(c) ==
    /\ pc[c] = "unlock"
    /\ owner' = Nobody
    /\ Goto(c, "futex")
    /\ UNCHANGED <<state, items, asleep, old>>

FutexWait(c) ==
    /\ pc[c] = "futex"
    /\ \/ /\ state = old[c]
          /\ asleep' = asleep \cup {c}
          /\ Goto(c, "asleep")
       \/ /\ state # old[c]
          /\ Goto(c, "relock")
          /\ UNCHANGED asleep
    /\ UNCHANGED <<state, owner, items, old>>

\* A timed wait ends, or the kernel wakes the thread for no reason.
Timeout(c) ==
    /\ c \in asleep
    /\ asleep' = asleep \ {c}
    /\ Goto(c, "relock")
    /\ UNCHANGED <<state, owner, items, old>>

\* A producer makes the predicate true under the mutex; the pulse that follows
\* is inside it or after it.
Produce(p) ==
    /\ p \in Producers /\ pc[p] = "check"
    /\ items' = items + 1
    /\ \E release \in BOOLEAN : /\ owner' = IF release THEN Nobody ELSE p
                                /\ Goto(p, "pulse")
    /\ UNCHANGED <<state, asleep, old>>

\* The futex is woken but the counter is left as it was.
Pulse_WakesOnly(p) ==
    /\ pc[p] = "pulse"
    /\ Goto(p, "wake")
    /\ UNCHANGED <<state, owner, items, asleep, old>>

\* __pthread_cond_pulse(): the counter steps, the flags stay.
Pulse(p) ==
    /\ pc[p] = "pulse"
    /\ state' = (state + COND_COUNTER_STEP) % Word
    /\ Goto(p, "wake")
    /\ UNCHANGED <<owner, items, asleep, old>>

\* __futex_wake_ex() with one thread (signal) or all of them (broadcast).
Wake(p) ==
    /\ pc[p] = "wake"
    /\ \E woken \in SUBSET asleep :
          /\ \/ woken = asleep
             \/ Cardinality(woken) = 1
          /\ asleep' = asleep \ woken
          /\ pc' = [t \in Threads |-> IF t \in woken THEN "relock"
                                      ELSE IF t = p THEN "done" ELSE pc[t]]
    /\ owner' = IF owner = p THEN Nobody ELSE owner
    /\ UNCHANGED <<state, items, old>>

Step(t) ==
    \/ t \in Consumers /\ (Check(t) \/ Wait(t) \/ FutexWait(t))
    \/ t \in Producers /\ (Produce(t) \/ Pulse(t) \/ Wake(t))

Next ==
    \/ \E t \in Threads : Lock(t) \/ Step(t)
    \/ \E c \in Consumers : Timeout(c)

\* Every thread that can run runs, and a mutex that is free again and again is
\* granted.  No wait is assumed to time out.
Fairness == \A t \in Threads : WF_vars(Step(t)) /\ SF_vars(Lock(t))
Spec == Init /\ [][Next]_vars /\ Fairness

-----------------------------------------------------------------------------
(* Properties *)

\* No wake-up is lost: each consumer gets its item, however the load of the
\* state, the release of the mutex, the sleep, the step of the counter and the
\* wake interleave.  (The counter wraps only after 2^30 pulses between the load
\* and the sleep of one wait.)
EveryoneServed == <>(\A c \in Consumers : pc[c] = "done")
=============================================================================
