----------------------------- MODULE Semaphore ------------------------------
(***************************************************************************)
(* lgx_semaphore_t: a counter that waiters take from with a load and a     *)
(* CAS, sleeping in the kernel's futex queue while it is 0; post adds one  *)
(* and then, separately, wakes one sleeper.                                *)
(***************************************************************************)
EXTENDS Integers, FiniteSets

CONSTANTS Threads,
          Initial,      \* the count lgx_semaphore_init is given
          MaxPosts      \* bound: calls of lgx_semaphore_post

VARIABLES count,        \* sem->count
          pc,           \* next atomic step of each thread
          c,            \* the local `c' of wait and try_wait
          posted,       \* posts made so far
          taken         \* waits and try_waits that have succeeded

vars == <<count, pc, c, posted, taken>>

Labels == {"idle",
           "load", "cas",           \* wait's loop
           "wait", "asleep",        \* its futex_wait(count, 0)
           "trycas",                \* try_wait, after its load
           "wake"}                  \* post, before its futex_wake

Goto(t, l) == pc' = [pc EXCEPT ![t] = l]

Init == /\ count = Initial
        /\ pc = [t \in Threads |-> "idle"]
        /\ c = [t \in Threads |-> 0]
        /\ posted = 0
        /\ taken = 0

-----------------------------------------------------------------------------
(* lgx_semaphore_wait and lgx_semaphore_try_wait *)

WaitCall(t) == /\ pc[t] = "idle"
               /\ Goto(t, "load")
               /\ UNCHANGED <<count, c, posted, taken>>

Load(t) == /\ pc[t] = "load"
           /\ c' = [c EXCEPT ![t] = count]
           /\ Goto(t, IF count > 0 THEN "cas" ELSE "wait")
           /\ UNCHANGED <<count, posted, taken>>

\* CAS c -> c - 1; a failure goes round the loop.
Cas(t) == /\ pc[t] = "cas"
          /\ \/ /\ count = c[t]
                /\ count' = c[t] - 1
                /\ taken' = taken + 1
                /\ Goto(t, "idle")
             \/ /\ count # c[t]
                /\ Goto(t, "load")
                /\ UNCHANGED <<count, taken>>
          /\ UNCHANGED <<c, posted>>

\* The weak CAS fails for no reason.
SpuriousFailure(t) == /\ pc[t] = "cas"
                      /\ Goto(t, "load")
                      /\ UNCHANGED <<count, c, posted, taken>>

\* Mutant of FutexWait: sleeps on the word without comparing it with 0.
SleepUnconditionally(t) == /\ pc[t] = "wait"
                           /\ Goto(t, "asleep")
                           /\ UNCHANGED <<count, c, posted, taken>>

\* The kernel compares the word with 0 and queues the thread atomically.
FutexWait(t) == /\ pc[t] = "wait"
                /\ Goto(t, IF count = 0 THEN "asleep" ELSE "load")
                /\ UNCHANGED <<count, c, posted, taken>>

\* futex_wait returns without a wake (a signal).
SpuriousWake(t) == /\ pc[t] = "asleep"
                   /\ Goto(t, "load")
                   /\ UNCHANGED <<count, c, posted, taken>>

\* try_wait's load; on 0 it returns at once.
TryLoad(t) == /\ pc[t] = "idle"
              /\ count > 0
              /\ c' = [c EXCEPT ![t] = count]
              /\ Goto(t, "trycas")
              /\ UNCHANGED <<count, posted, taken>>

\* try_wait's CAS; it gives up on failure.
TryCas(t) == /\ pc[t] = "trycas"
             /\ IF count = c[t] THEN /\ count' = c[t] - 1
                                     /\ taken' = taken + 1
                                ELSE UNCHANGED <<count, taken>>
             /\ Goto(t, "idle")
             /\ UNCHANGED <<c, posted>>

-----------------------------------------------------------------------------
(* lgx_semaphore_post *)

Post(t) == /\ pc[t] = "idle"
           /\ posted < MaxPosts
           /\ count' = count + 1
           /\ posted' = posted + 1
           /\ Goto(t, "wake")
           /\ UNCHANGED <<c, taken>>

\* The kernel wakes one queued thread, any of them, if there is one.
Wake(t) == /\ pc[t] = "wake"
           /\ \/ /\ \A u \in Threads : pc[u] # "asleep"
                 /\ Goto(t, "idle")
              \/ \E u \in Threads :
                    /\ pc[u] = "asleep"
                    /\ pc' = [pc EXCEPT ![u] = "load", ![t] = "idle"]
           /\ UNCHANGED <<count, c, posted, taken>>

Continue(t) == \/ Load(t) \/ Cas(t) \/ FutexWait(t) \/ TryCas(t) \/ Wake(t)

Next == \E t \in Threads : \/ WaitCall(t) \/ TryLoad(t) \/ Post(t)
                           \/ Continue(t) \/ SpuriousFailure(t) \/ SpuriousWake(t)

Spec == Init /\ [][Next]_vars

\* A thread inside a call is scheduled; nobody has to call.
FairSpec == Spec /\ \A t \in Threads : WF_vars(Continue(t))

-----------------------------------------------------------------------------

\* Every success of wait or try_wait takes exactly one permit, so they never
\* outnumber the initial count plus the posts, and no CAS started on a stale
\* count loses or duplicates one (lines 906-929).
PermitsConserved == count = Initial + posted - taken

Sleepers == {t \in Threads : pc[t] = "asleep"}

AwakeWaiters == {t \in Threads : pc[t] \in {"load", "cas", "wait"}}

PendingWakes == {t \in Threads : pc[t] = "wake"}

\* While somebody sleeps, every permit in the counter has somebody who will
\* use it or wake a sleeper for it: a post that slips between a waiter's load
\* of 0 and its futex_wait is never lost (lines 911-919 against 931-935).
NoLostPost ==
    Sleepers # {} => count <= Cardinality(AwakeWaiters) + Cardinality(PendingWakes)

\* Both: what the counter says is what there is, and nobody sleeps through it.
SemaphoreInv == PermitsConserved /\ NoLostPost

\* A permit and a waiter do not stay together: posts being bounded and weak
\* CASes not failing for no reason for ever, waiting with permits left ends.
WaitersUsePermits ==
    (<>[][\A t \in Threads : ~SpuriousFailure(t)]_vars)
        => []<>(count = 0 \/ Sleepers \union AwakeWaiters = {})

=============================================================================
