------------------------------ MODULE LockSpec ------------------------------
(***************************************************************************)
(* What every lock of the threading module promises its callers: a writer  *)
(* excludes everybody, readers exclude writers.  The futex mutex and the   *)
(* spinlock implement it with no readers, the read-write lock with both.   *)
(***************************************************************************)

CONSTANT Threads

VARIABLES readers, writers      \* the threads that hold the lock, by mode

vars == <<readers, writers>>

Init == /\ readers = {}
        /\ writers = {}

AcquireRead(t) == /\ writers = {}
                  /\ t \notin readers
                  /\ readers' = readers \union {t}
                  /\ UNCHANGED writers

AcquireWrite(t) == /\ writers = {}
                   /\ readers = {}
                   /\ writers' = {t}
                   /\ UNCHANGED readers

ReleaseRead(t) == /\ t \in readers
                  /\ readers' = readers \ {t}
                  /\ UNCHANGED writers

ReleaseWrite(t) == /\ writers = {t}
                   /\ writers' = {}
                   /\ UNCHANGED readers

Next == \E t \in Threads : \/ AcquireRead(t) \/ AcquireWrite(t)
                           \/ ReleaseRead(t) \/ ReleaseWrite(t)

Spec == Init /\ [][Next]_vars

=============================================================================
