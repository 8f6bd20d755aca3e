----------------------------- MODULE FutexMutex -----------------------------
(***************************************************************************)
(* lgx_mutex_t: one 32-bit word, 0 free, 1 locked, 2 locked with waiters,  *)
(* and the kernel's futex queue on it.  Each action is one atomic access   *)
(* of the word or one futex call; pc[t] is the next one thread t makes.    *)
(***************************************************************************)
EXTENDS Integers

CONSTANT Threads

VARIABLES state,        \* mutex->state
          pc,           \* next atomic step of each thread
          expected      \* the local `expected' of lgx_mutex_lock

vars == <<state, pc, expected>>

Labels == {"idle",      \* outside the mutex's functions
           "mark",      \* top of the slow path's loop
           "wait",      \* about to call futex_wait(state, 2)
           "asleep",    \* in the kernel's queue
           "retry",     \* about to CAS 0 -> 2
           "held",      \* lock returned; unlock not yet called
           "clear",     \* unlock saw 2; about to store 0
           "wake"}      \* about to call futex_wake(state, 1)

Goto(t, l) == pc' = [pc EXCEPT ![t] = l]

(***************************************************************************)
(* lgx_mutex_init, and every thread outside.                               *)
(***************************************************************************)
Init == /\ state = 0
        /\ pc = [t \in Threads |-> "idle"]
        /\ expected = [t \in Threads |-> 0]

-----------------------------------------------------------------------------
(* lgx_mutex_lock *)

\* The fast path's CAS 0 -> 1 succeeds.
LockFast(t) == /\ pc[t] = "idle"
               /\ state = 0
               /\ state' = 1
               /\ Goto(t, "held")
               /\ UNCHANGED expected

\* It fails and loads the word into `expected'.
LockContended(t) == /\ pc[t] = "idle"
                    /\ state # 0
                    /\ expected' = [expected EXCEPT ![t] = state]
                    /\ Goto(t, "mark")
                    /\ UNCHANGED state

\* CAS expected -> 2, skipped when it was already 2; its failure is ignored.
Mark(t) == /\ pc[t] = "mark"
           /\ state' = IF expected[t] # 2 /\ state = expected[t] THEN 2 ELSE state
           /\ Goto(t, "wait")
           /\ UNCHANGED expected

\* The kernel compares the word with 2 and queues the thread atomically.
FutexWait(t) == /\ pc[t] = "wait"
                /\ Goto(t, IF state = 2 THEN "asleep" ELSE "retry")
                /\ UNCHANGED <<state, expected>>

\* futex_wait returns without a wake (a signal); the result is not looked at.
SpuriousWake(t) == /\ pc[t] = "asleep"
                   /\ Goto(t, "retry")
                   /\ UNCHANGED <<state, expected>>

\* Mutant of Retry: an exchange in place of the CAS.
RetryByExchange(t) == /\ pc[t] = "retry"
                      /\ state' = 2
                      /\ Goto(t, "held")
                      /\ UNCHANGED expected

\* Mutant of Retry: a woken thread takes the lock as uncontended.
RetryUncontended(t) == /\ pc[t] = "retry"
                       /\ state = 0
                       /\ state' = 1
                       /\ Goto(t, "held")
                       /\ UNCHANGED expected

\* Mutant of Retry: the loop starts over with the `expected = 0' it set itself.
RetryWithoutReload(t) == /\ pc[t] = "retry"
                         /\ \/ /\ state = 0
                               /\ state' = 2
                               /\ Goto(t, "held")
                               /\ UNCHANGED expected
                            \/ /\ state # 0
                               /\ expected' = [expected EXCEPT ![t] = 0]
                               /\ Goto(t, "mark")
                               /\ UNCHANGED state

\* CAS 0 -> 2 of the loop's condition; failure reloads `expected'.
Retry(t) == /\ pc[t] = "retry"
            /\ \/ /\ state = 0
                  /\ state' = 2
                  /\ Goto(t, "held")
                  /\ UNCHANGED expected
               \/ /\ state # 0
                  /\ expected' = [expected EXCEPT ![t] = state]
                  /\ Goto(t, "mark")
                  /\ UNCHANGED state

\* lgx_mutex_try_lock; its failure changes nothing.
TryLock(t) == /\ pc[t] = "idle"
              /\ state = 0
              /\ state' = 1
              /\ Goto(t, "held")
              /\ UNCHANGED expected

-----------------------------------------------------------------------------
(* lgx_mutex_unlock *)

\* fetch_sub 1, and the test of the previous value.
Unlock(t) == /\ pc[t] = "held"
             /\ state' = state - 1
             /\ Goto(t, IF state = 2 THEN "clear" ELSE "idle")
             /\ UNCHANGED expected

Clear(t) == /\ pc[t] = "clear"
            /\ state' = 0
            /\ Goto(t, "wake")
            /\ UNCHANGED expected

\* Mutant of Wake: the futex call is forgotten.
WakeNobody(t) == /\ pc[t] = "wake"
                 /\ Goto(t, "idle")
                 /\ UNCHANGED <<state, expected>>

\* The kernel wakes one queued thread, any of them, if there is one.
Wake(t) == /\ pc[t] = "wake"
           /\ \/ /\ \A s \in Threads : pc[s] # "asleep"
                 /\ Goto(t, "idle")
              \/ \E s \in Threads :
                    /\ pc[s] = "asleep"
                    /\ pc' = [pc EXCEPT ![s] = "retry", ![t] = "idle"]
           /\ UNCHANGED <<state, expected>>

-----------------------------------------------------------------------------

LockCall(t) == LockFast(t) \/ LockContended(t) \/ TryLock(t)

\* The steps a thread inside a call, or holding the lock, goes on to take.
Continue(t) == \/ Mark(t) \/ FutexWait(t) \/ Retry(t)
               \/ Unlock(t) \/ Clear(t) \/ Wake(t)

Next == \E t \in Threads : LockCall(t) \/ Continue(t) \/ SpuriousWake(t)

Spec == Init /\ [][Next]_vars

\* A runnable thread is scheduled and a critical section ends; nothing makes
\* a thread call lock, and nothing promises a signal.
FairSpec == Spec /\ \A t \in Threads : WF_vars(Continue(t))

-----------------------------------------------------------------------------

TypeOK == /\ state \in 0..2
          /\ pc \in [Threads -> Labels]
          /\ expected \in [Threads -> 0..2]

Holding(t) == pc[t] \in {"held", "clear"}

InSlowPath(t) == pc[t] \in {"mark", "wait", "retry"}

\* Two threads are never between lock and unlock together, not even while an
\* unlock that saw 2 has left 1 in the word (lgx_mutex_unlock lines 758-761).
MutualExclusion == \A s, t \in Threads : Holding(s) /\ Holding(t) => s = t

\* The word is 0 exactly when nobody holds: the transient 1 never looks free.
WordTellsHolder == (state = 0) <=> \A t \in Threads : ~Holding(t)

\* A failed CAS leaves a nonzero `expected', so the marking CAS never turns a
\* free mutex into a contended one nobody holds (lines 728-731).
MarkExpectsLocked == \A t \in Threads : pc[t] = "mark" => expected[t] # 0

\* The inductive invariant behind mutual exclusion: holder, word and the locals
\* of the slow path determine each other at every step of lock and unlock.
HolderInv == /\ TypeOK
             /\ MutualExclusion
             /\ WordTellsHolder
             /\ MarkExpectsLocked

\* Nobody sleeps unless somebody is bound to look: the holder will see 2 in
\* its unlock, a wake is on its way, or a thread is awake in the slow path and
\* will take the lock with 2 (so that its unlock wakes the next).
NoLostWakeup ==
    (\E t \in Threads : pc[t] = "asleep") =>
        \/ state = 2
        \/ \E t \in Threads : pc[t] \in {"clear", "wake"} \/ InSlowPath(t)

Waiting(t) == InSlowPath(t) \/ pc[t] = "asleep"

\* If the calls of lock stop coming, every call already made returns with the
\* lock: barging can starve a waiter, a lost wake-up never does.
EveryWaiterServed ==
    (<>[][\A t \in Threads : ~LockCall(t)]_vars)
        => \A t \in Threads : Waiting(t) ~> (pc[t] = "held")

\* The mutex is a lock: the holder is a writer, there are no readers.
Lock == INSTANCE LockSpec WITH readers <- {},
                               writers <- {t \in Threads : Holding(t)}

ImplementsLock == Lock!Spec

=============================================================================
