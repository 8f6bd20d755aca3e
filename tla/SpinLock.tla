------------------------------ MODULE SpinLock ------------------------------
(***************************************************************************)
(* lgx_spinlock_t: test, then test-and-set with a compare-and-swap that    *)
(* the hardware may make fail for no reason ("weak").                      *)
(***************************************************************************)
CONSTANT Threads

VARIABLES locked,       \* lock->locked
          pc            \* next atomic step of each thread

vars == <<locked, pc>>

Goto(t, l) == pc' = [pc EXCEPT ![t] = l]

Init == locked = 0 /\ pc = [t \in Threads |-> "idle"]

\* A thread calls lgx_spinlock_lock.
LockCall(t) == pc[t] = "idle" /\ Goto(t, "test") /\ UNCHANGED locked

\* The read-only test: go on to the CAS when the lock looks free.
Test(t) == /\ pc[t] = "test"
           /\ Goto(t, IF locked = 0 THEN "cas" ELSE "test")
           /\ UNCHANGED locked

\* Mutant of TestAndSet: trusts the test and stores without comparing.
SetWithoutCompare(t) == /\ pc[t] = "cas"
                        /\ locked' = 1
                        /\ Goto(t, "held")

\* The CAS 0 -> 1.
TestAndSet(t) == /\ pc[t] = "cas"
                 /\ locked' = 1
                 /\ Goto(t, IF locked = 0 THEN "held" ELSE "test")

\* The weak CAS fails although the lock is free.
SpuriousFailure(t) == /\ pc[t] = "cas"
                      /\ Goto(t, "test")
                      /\ UNCHANGED locked

\* lgx_spinlock_try_lock succeeds; its failure changes nothing.
TryLock(t) == /\ pc[t] = "idle"
              /\ locked = 0
              /\ locked' = 1
              /\ Goto(t, "held")

Unlock(t) == /\ pc[t] = "held"
             /\ locked' = 0
             /\ Goto(t, "idle")

Continue(t) == Test(t) \/ TestAndSet(t) \/ Unlock(t)

Next == \E t \in Threads : \/ LockCall(t) \/ TryLock(t)
                           \/ Continue(t) \/ SpuriousFailure(t)

Spec == Init /\ [][Next]_vars

\* Threads are scheduled, and critical sections end.
FairSpec == Spec /\ \A t \in Threads : WF_vars(Continue(t))

-----------------------------------------------------------------------------

Lock == INSTANCE LockSpec WITH readers <- {},
                               writers <- {t \in Threads : pc[t] = "held"}

\* The spinlock is a lock: the test before the test-and-set may be stale, but
\* no two threads are ever between lock and unlock (lines 768-800).
SpinIsLock == Lock!Spec

\* Deadlock freedom: unless the weak CAS fails for no reason for ever, a
\* spinning thread means that somebody gets the lock, again and again.
SomebodyGetsIn ==
    (<>[][\A t \in Threads : ~SpuriousFailure(t)]_vars)
        => ((\E t \in Threads : pc[t] \in {"test", "cas"})
              ~> (\E t \in Threads : pc[t] = "held"))

=============================================================================
