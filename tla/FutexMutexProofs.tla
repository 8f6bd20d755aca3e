-------------------------- MODULE FutexMutexProofs --------------------------
(***************************************************************************)
(* The mutex for any set of threads: mutual exclusion, no lost wake-up,    *)
(* and that it implements LockSpec.                                        *)
(***************************************************************************)
EXTENDS FutexMutex, TLAPS

LEMMA HolderInit == Init => HolderInv
BY DEF Init, HolderInv, TypeOK, MutualExclusion, WordTellsHolder,
   MarkExpectsLocked, Holding, Labels

\* One step keeps the word and the holder in agreement.
LEMMA HolderStep == HolderInv /\ [Next]_vars => HolderInv'
<1> SUFFICES ASSUME HolderInv, [Next]_vars PROVE HolderInv'
  OBVIOUS
<1> USE DEF HolderInv, TypeOK, MutualExclusion, WordTellsHolder,
            MarkExpectsLocked, Holding, Labels, Goto
<1>1. ASSUME NEW t \in Threads, LockFast(t) \/ TryLock(t) PROVE HolderInv'
  BY <1>1 DEF LockFast, TryLock
<1>2. ASSUME NEW t \in Threads, LockContended(t) PROVE HolderInv'
  BY <1>2 DEF LockContended
<1>3. ASSUME NEW t \in Threads, Mark(t) PROVE HolderInv'
  BY <1>3 DEF Mark
<1>4. ASSUME NEW t \in Threads, FutexWait(t) \/ SpuriousWake(t) PROVE HolderInv'
  BY <1>4 DEF FutexWait, SpuriousWake
<1>5. ASSUME NEW t \in Threads, Retry(t) PROVE HolderInv'
  BY <1>5 DEF Retry
<1>6. ASSUME NEW t \in Threads, Unlock(t) PROVE HolderInv'
  BY <1>6 DEF Unlock
<1>7. ASSUME NEW t \in Threads, Clear(t) PROVE HolderInv'
  BY <1>7 DEF Clear
<1>8. ASSUME NEW t \in Threads, Wake(t) PROVE HolderInv'
  BY <1>8 DEF Wake
<1>9. CASE UNCHANGED vars
  BY <1>9 DEF vars
<1> QED
  BY <1>1, <1>2, <1>3, <1>4, <1>5, <1>6, <1>7, <1>8, <1>9
  DEF Next, LockCall, Continue

\* lgx_mutex_lock .. lgx_mutex_unlock is a critical section for any number of
\* threads.
THEOREM MutexExcludes == Spec => []MutualExclusion
<1>1. HolderInv => MutualExclusion
  BY DEF HolderInv
<1> QED
  BY <1>1, HolderInit, HolderStep, PTL DEF Spec

\* The types, and that the word is 0 exactly when the mutex is free.
THEOREM MutexWordTellsHolder == Spec => []HolderInv
BY HolderInit, HolderStep, PTL DEF Spec

-----------------------------------------------------------------------------
(* No lost wake-up: a sleeper went to sleep on a 2, which has a holder.    *)

WakeInv == HolderInv /\ NoLostWakeup

LEMMA WakeStep == WakeInv /\ [Next]_vars => NoLostWakeup'
<1> SUFFICES ASSUME WakeInv, [Next]_vars,
                    NEW z \in Threads, pc'[z] = "asleep"
             PROVE  \/ state' = 2
                    \/ \E t \in Threads : \/ pc'[t] \in {"clear", "wake"}
                                          \/ InSlowPath(t)'
  BY DEF NoLostWakeup
<1> USE DEF WakeInv, HolderInv, TypeOK, NoLostWakeup, InSlowPath, Holding, Labels, Goto
<1>1. ASSUME NEW t \in Threads, LockFast(t) \/ TryLock(t)
      PROVE \E u \in Threads : pc'[u] \in {"clear", "wake"} \/ InSlowPath(u)'
  BY <1>1 DEF LockFast, TryLock
<1>2. ASSUME NEW t \in Threads, LockContended(t)
      PROVE InSlowPath(t)'
  BY <1>2 DEF LockContended
<1>3. ASSUME NEW t \in Threads, Mark(t)
      PROVE InSlowPath(t)'
  BY <1>3 DEF Mark
<1>4. ASSUME NEW t \in Threads, FutexWait(t)
      PROVE state' = 2 \/ InSlowPath(t)'
  BY <1>4 DEF FutexWait
<1>5. ASSUME NEW t \in Threads, SpuriousWake(t)
      PROVE InSlowPath(t)'
  BY <1>5 DEF SpuriousWake
<1>6. ASSUME NEW t \in Threads, Retry(t)
      PROVE state' = 2 \/ InSlowPath(t)'
  BY <1>6 DEF Retry
<1>7. ASSUME NEW t \in Threads, Unlock(t)
      PROVE \E u \in Threads : pc'[u] \in {"clear", "wake"} \/ InSlowPath(u)'
  <2>1. CASE state = 2
    BY <1>7, <2>1 DEF Unlock
  <2>2. CASE state # 2
    BY <1>7, <2>2 DEF Unlock
  <2> QED BY <2>1, <2>2
<1>8. ASSUME NEW t \in Threads, Clear(t)
      PROVE pc'[t] = "wake"
  BY <1>8 DEF Clear
<1>9. ASSUME NEW t \in Threads, Wake(t)
      PROVE \E u \in Threads : InSlowPath(u)'
  BY <1>9 DEF Wake
<1>10. CASE UNCHANGED vars
  BY <1>10 DEF vars
<1> QED
  BY <1>1, <1>2, <1>3, <1>4, <1>5, <1>6, <1>7, <1>8, <1>9, <1>10
  DEF Next, LockCall, Continue

\* A thread asleep in futex_wait always has somebody bound to wake it, however
\* many threads contend and however unlock and lock interleave.
THEOREM MutexNeverLosesWakeup == Spec => []NoLostWakeup
<1>1. Init => WakeInv
  BY HolderInit DEF WakeInv, Init, NoLostWakeup
<1>2. WakeInv /\ [Next]_vars => WakeInv'
  BY HolderStep, WakeStep DEF WakeInv
<1>3. WakeInv => NoLostWakeup
  BY DEF WakeInv
<1> QED
  BY <1>1, <1>2, <1>3, PTL DEF Spec

-----------------------------------------------------------------------------
(* Refinement: a step of the mutex acquires, releases, or is invisible.    *)

LEMMA LockStep == HolderInv /\ [Next]_vars => [Lock!Next]_Lock!vars
<1> SUFFICES ASSUME HolderInv, [Next]_vars PROVE [Lock!Next]_Lock!vars
  OBVIOUS
<1> USE DEF HolderInv, TypeOK, MutualExclusion, WordTellsHolder, Holding,
            Labels, Goto
<1>1. ASSUME NEW t \in Threads, LockFast(t) \/ TryLock(t) \/ (Retry(t) /\ state = 0)
      PROVE Lock!AcquireWrite(t)
  BY <1>1 DEF LockFast, TryLock, Retry, Lock!AcquireWrite
<1>2. ASSUME NEW t \in Threads,
             \/ LockContended(t) \/ Mark(t) \/ FutexWait(t)
             \/ SpuriousWake(t) \/ Wake(t) \/ (Retry(t) /\ state # 0)
      PROVE UNCHANGED Lock!vars
  <2>1. \A u \in Threads : Holding(u)' <=> Holding(u)
    BY <1>2 DEF LockContended, Mark, FutexWait, SpuriousWake, Wake, Retry
  <2> QED BY <2>1 DEF Lock!vars
<1>3. ASSUME NEW t \in Threads, Unlock(t)
      PROVE Lock!ReleaseWrite(t) \/ UNCHANGED Lock!vars
  <2>1. CASE state = 2
    <3>1. \A u \in Threads : Holding(u)' <=> Holding(u)
      BY <1>3, <2>1 DEF Unlock
    <3> QED BY <3>1 DEF Lock!vars
  <2>2. CASE state # 2
    BY <1>3, <2>2 DEF Unlock, Lock!ReleaseWrite
  <2> QED BY <2>1, <2>2
<1>4. ASSUME NEW t \in Threads, Clear(t)
      PROVE Lock!ReleaseWrite(t)
  BY <1>4 DEF Clear, Lock!ReleaseWrite
<1>5. CASE UNCHANGED vars
  BY <1>5 DEF vars, Lock!vars
<1> QED
  BY <1>1, <1>2, <1>3, <1>4, <1>5 DEF Next, LockCall, Continue, Lock!Next

\* The futex mutex implements the abstract lock: every step of lock, try_lock
\* and unlock is an acquire, a release or a stutter of LockSpec.
THEOREM MutexImplementsLock == Spec => ImplementsLock
<1>1. Init => Lock!Init
  BY DEF Init, Lock!Init, Holding
<1> QED
  BY <1>1, HolderInit, HolderStep, LockStep, PTL
  DEF Spec, ImplementsLock, Lock!Spec

=============================================================================
