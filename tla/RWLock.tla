------------------------------- MODULE RWLock -------------------------------
(***************************************************************************)
(* lgx_rwlock_t: one 32-bit word holding the number of readers, or the     *)
(* writer bit.  Readers load the word and CAS it one up; writers CAS 0 to  *)
(* the writer bit; both spin.                                              *)
(***************************************************************************)
EXTENDS Integers, FiniteSets

CONSTANTS Threads,
          WRITER_BIT    \* 2^31 in the code

\* There are fewer threads than a reader count can hold.
ThreadsFit == /\ IsFiniteSet(Threads)
              /\ WRITER_BIT \in Nat
              /\ Cardinality(Threads) < WRITER_BIT

VARIABLES state,        \* lock->state
          pc,           \* next atomic step of each thread
          s             \* the local `s' of lgx_rwlock_read_lock

vars == <<state, pc, s>>

Labels == {"idle", "rload", "rcas", "reading", "wcas", "writing"}

Goto(t, l) == pc' = [pc EXCEPT ![t] = l]

\* The sign test (s & RWLOCK_WRITER_BIT) of a word below 2 * WRITER_BIT.
WriterBitSet(w) == w >= WRITER_BIT

\* lgx_rwlock_init
Init == /\ state = 0
        /\ pc = [t \in Threads |-> "idle"]
        /\ s = [t \in Threads |-> 0]

ReadCall(t) == pc[t] = "idle" /\ Goto(t, "rload") /\ UNCHANGED <<state, s>>

WriteCall(t) == pc[t] = "idle" /\ Goto(t, "wcas") /\ UNCHANGED <<state, s>>

\* Load the word; spin while a writer holds it.
ReadLoad(t) == /\ pc[t] = "rload"
               /\ s' = [s EXCEPT ![t] = state]
               /\ Goto(t, IF WriterBitSet(state) THEN "rload" ELSE "rcas")
               /\ UNCHANGED state

\* Mutant of ReadCas: stores s + 1 without comparing.
ReadByStoring(t) == /\ pc[t] = "rcas"
                    /\ state' = s[t] + 1
                    /\ Goto(t, "reading")
                    /\ UNCHANGED s

\* CAS s -> s + 1.
ReadCas(t) == /\ pc[t] = "rcas"
              /\ \/ /\ state = s[t]
                    /\ state' = s[t] + 1
                    /\ Goto(t, "reading")
                 \/ /\ state # s[t]
                    /\ Goto(t, "rload")
                    /\ UNCHANGED state
              /\ UNCHANGED s

\* CAS 0 -> WRITER_BIT; a failure yields and tries again.
WriteCas(t) == /\ pc[t] = "wcas"
               /\ state = 0
               /\ state' = WRITER_BIT
               /\ Goto(t, "writing")
               /\ UNCHANGED s

\* A weak CAS of a reader fails for no reason (a writer's changes nothing).
SpuriousFailure(t) == /\ pc[t] = "rcas"
                      /\ Goto(t, "rload")
                      /\ UNCHANGED <<state, s>>

ReadUnlock(t) == /\ pc[t] = "reading"
                 /\ state' = state - 1
                 /\ Goto(t, "idle")
                 /\ UNCHANGED s

WriteUnlock(t) == /\ pc[t] = "writing"
                  /\ state' = 0
                  /\ Goto(t, "idle")
                  /\ UNCHANGED s

Continue(t) == \/ ReadLoad(t) \/ ReadCas(t) \/ WriteCas(t)
               \/ ReadUnlock(t) \/ WriteUnlock(t)

Next == \E t \in Threads : \/ ReadCall(t) \/ WriteCall(t)
                           \/ Continue(t) \/ SpuriousFailure(t)

Spec == Init /\ [][Next]_vars

\* Threads are scheduled, and critical sections end.
FairSpec == Spec /\ \A t \in Threads : WF_vars(Continue(t))

-----------------------------------------------------------------------------

Readers == {t \in Threads : pc[t] = "reading"}

Writers == {t \in Threads : pc[t] = "writing"}

\* The word is exactly the writer bit under a writer and the number of readers
\* otherwise: no interleaving of the readers' load-then-CAS loses or invents a
\* reader, and a reader never counts into the writer bit (lines 802-854).
WordCountsHolders ==
    IF Writers # {} THEN state = WRITER_BIT ELSE state = Cardinality(Readers)

Lock == INSTANCE LockSpec WITH readers <- Readers, writers <- Writers

\* The read-write lock is one: a writer excludes everybody, readers share.
RWIsLock == Lock!Spec

\* Once no new calls come (and the weak CAS does not fail for no reason for
\* ever) every call made gets its lock.  Without that premise a writer may wait
\* for ever on overlapping readers: the code gives it no priority.
EveryCallServed ==
    (<>[][\A t \in Threads : ~(ReadCall(t) \/ WriteCall(t) \/ SpuriousFailure(t))]_vars)
        => \A t \in Threads : /\ pc[t] = "wcas" ~> pc[t] = "writing"
                              /\ pc[t] = "rload" ~> pc[t] = "reading"

=============================================================================
