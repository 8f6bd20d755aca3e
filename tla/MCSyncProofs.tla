---------------------------- MODULE MCSyncProofs ----------------------------
(***************************************************************************)
(* The invariants of the composition that MCSync checks, from the theorems *)
(* about its components.  A step of one primitive leaves the variables of  *)
(* the others alone, so a behaviour of the composition is a behaviour of   *)
(* each of them.                                                           *)
(***************************************************************************)
EXTENDS MCSync, TLAPS

RWP == INSTANCE RWLockProofs WITH state <- rw_state, pc <- rw_pc, s <- rw_s

SemP == INSTANCE SemaphoreProofs WITH count <- sem_count, pc <- sem_pc, c <- sem_c,
                                      posted <- sem_posted, taken <- sem_taken

-----------------------------------------------------------------------------
(* Each instance has its own copy of Cardinality: they are the same *)

LEMMA SameRW == \A S : RW!Cardinality(S) = RWP!Cardinality(S)
BY DEF RW!Cardinality, RWP!Cardinality

LEMMA SameSem == \A S : Sem!Cardinality(S) = SemP!Cardinality(S)
BY DEF Sem!Cardinality, SemP!Cardinality

-----------------------------------------------------------------------------
(* A behaviour of the composition is one of each primitive *)

LEMMA RWBehaves == SyncInit /\ [][SyncNext]_syncVars => RWP!Spec
<1>1. SyncInit => RWP!Init
  BY DEF SyncInit, RW!Init, RWP!Init
<1>2. [SyncNext]_syncVars => [RWP!Next]_(RWP!vars)
  <2> SUFFICES ASSUME [SyncNext]_syncVars PROVE RWP!Next \/ UNCHANGED rwVars
    BY DEF rwVars, RWP!vars
  <2>1. CASE RWNext
    BY <2>1, SameRW
       DEF RWNext, RW!Next, RWP!Next, RW!ReadCall, RW!WriteCall, RW!Continue,
           RW!SpuriousFailure, RW!ReadLoad, RW!ReadCas, RW!ReadUnlock, RW!WriteCas,
           RW!WriteUnlock, RW!Goto, RW!WriterBitSet, RWP!ReadCall, RWP!WriteCall,
           RWP!Continue, RWP!SpuriousFailure, RWP!ReadLoad, RWP!ReadCas,
           RWP!ReadUnlock, RWP!WriteCas, RWP!WriteUnlock, RWP!Goto, RWP!WriterBitSet
  <2> QED
    BY <2>1 DEF SyncNext, MutexNext, SpinNext, SemNext, BarNext, ErrNext, syncVars
<1> QED
  BY <1>1, <1>2, PTL DEF RWP!Spec

LEMMA SemBehaves == SyncInit /\ [][SyncNext]_syncVars => SemP!Spec
<1>1. SyncInit => SemP!Init
  BY DEF SyncInit, Sem!Init, SemP!Init
<1>2. [SyncNext]_syncVars => [SemP!Next]_(SemP!vars)
  <2> SUFFICES ASSUME [SyncNext]_syncVars PROVE SemP!Next \/ UNCHANGED semVars
    BY DEF semVars, SemP!vars
  <2>1. CASE SemNext
    BY <2>1, SameSem
       DEF SemNext, Sem!Next, SemP!Next, Sem!WaitCall, Sem!TryLoad, Sem!Post, Sem!Continue,
           Sem!Load, Sem!Cas, Sem!FutexWait, Sem!TryCas, Sem!Wake,
           Sem!SpuriousFailure, Sem!SpuriousWake, Sem!Goto, SemP!WaitCall,
           SemP!TryLoad, SemP!Post, SemP!Continue, SemP!Load, SemP!Cas,
           SemP!FutexWait, SemP!TryCas, SemP!Wake, SemP!SpuriousFailure,
           SemP!SpuriousWake, SemP!Goto
  <2> QED
    BY <2>1 DEF SyncNext, MutexNext, SpinNext, RWNext, BarNext, ErrNext, syncVars
<1> QED
  BY <1>1, <1>2, PTL DEF SemP!Spec

LEMMA BarBehaves == SyncInit /\ [][SyncNext]_syncVars => Bar!Spec
<1>1. SyncInit => Bar!Init
  BY DEF SyncInit
<1>2. [SyncNext]_syncVars => [Bar!Next]_(Bar!vars)
  BY DEF SyncNext, MutexNext, SpinNext, RWNext, SemNext, BarNext, ErrNext, syncVars,
         barVars, Bar!vars
<1> QED
  BY <1>1, <1>2, PTL DEF Bar!Spec

-----------------------------------------------------------------------------

\* The word of the read-write lock counts its holders, whatever the other
\* primitives do (lines 802-854).
THEOREM SyncWordCounts == SyncSpec => []WordCountsHolders
<1>1. RWP!ThreadsFit
  BY SyncConstants, SameRW
     DEF RW!ThreadsFit, RWP!ThreadsFit, RW!IsFiniteSet, RWP!IsFiniteSet
<1>2. RWP!Spec => []RWP!WordCountsHolders
  BY <1>1, RWP!RWWordCounts
<1>3. RWP!WordCountsHolders => WordCountsHolders
  BY SameRW DEF WordCountsHolders, RW!WordCountsHolders, RWP!WordCountsHolders,
                RW!Readers, RWP!Readers, RW!Writers, RWP!Writers
<1> QED
  BY <1>2, <1>3, RWBehaves, PTL DEF SyncSpec

\* The semaphore keeps its permits, and no post is slept through (lines 900-935).
THEOREM SyncSemaphoreSound == SyncSpec => []SemaphoreInv
<1>1. SemP!IsFiniteSet(Threads) /\ Initial \in Int
  BY SyncConstants DEF RW!ThreadsFit, RW!IsFiniteSet, SemP!IsFiniteSet
<1>2. SemP!Spec => []SemP!SemaphoreInv
  BY <1>1, SemP!SemaphoreSound
<1>3. SemP!SemaphoreInv => SemaphoreInv
  BY SameSem DEF SemaphoreInv, Sem!SemaphoreInv, SemP!SemaphoreInv,
                 Sem!PermitsConserved, SemP!PermitsConserved, Sem!NoLostPost,
                 SemP!NoLostPost, Sem!Sleepers, SemP!Sleepers, Sem!AwakeWaiters,
                 SemP!AwakeWaiters, Sem!PendingWakes, SemP!PendingWakes
<1> QED
  BY <1>2, <1>3, SemBehaves, PTL DEF SyncSpec

\* Nobody leaves a round of the barrier early (lines 877-893).
THEOREM SyncNobodyEarly == SyncSpec => []NobodyLeavesEarly
<1>1. Bar!IsFiniteSet(Threads) /\ GenMod \in Nat /\ GenMod > 1
  BY SyncConstants DEF RW!ThreadsFit, RW!IsFiniteSet, Bar!IsFiniteSet
<1>2. Bar!Spec => []NobodyLeavesEarly
  BY <1>1, Bar!BarrierHoldsBack DEF NobodyLeavesEarly
<1> QED
  BY <1>2, BarBehaves, PTL DEF SyncSpec

-----------------------------------------------------------------------------
(* The spinlock *)

SpinInv == /\ spin_pc \in [Threads -> {"idle", "test", "cas", "held"}]
           /\ spin_locked \in {0, 1}
           /\ spin_locked = 0 => \A t \in Threads : spin_pc[t] # "held"
           /\ \A t, u \in Threads : spin_pc[t] = "held" /\ spin_pc[u] = "held" => t = u

LEMMA SpinStep == ASSUME SpinInv, [SyncNext]_syncVars
                  PROVE  SpinInv' /\ [Spin!Lock!Next]_(Spin!Lock!vars)
<1> USE DEF SpinInv, Spin!Goto, Spin!Lock!Next, Spin!Lock!vars
<1>1. ASSUME NEW t \in Threads, Spin!LockCall(t) \/ Spin!Test(t) \/ Spin!SpuriousFailure(t)
      PROVE  SpinInv' /\ [Spin!Lock!Next]_(Spin!Lock!vars)
  BY <1>1 DEF Spin!LockCall, Spin!Test, Spin!SpuriousFailure
<1>2. ASSUME NEW t \in Threads, Spin!TryLock(t) \/ Spin!TestAndSet(t)
      PROVE  SpinInv' /\ [Spin!Lock!Next]_(Spin!Lock!vars)
  <2>1. SpinInv'
    BY <1>2 DEF Spin!TryLock, Spin!TestAndSet
  <2>2. CASE spin_locked = 0
    <3>1. Spin!Lock!AcquireWrite(t)
      BY <1>2, <2>2 DEF Spin!TryLock, Spin!TestAndSet, Spin!Lock!AcquireWrite
    <3> QED BY <2>1, <3>1
  <2>3. CASE spin_locked # 0
    BY <1>2, <2>1, <2>3 DEF Spin!TryLock, Spin!TestAndSet
  <2> QED BY <2>2, <2>3
<1>3. ASSUME NEW t \in Threads, Spin!Unlock(t)
      PROVE  SpinInv' /\ [Spin!Lock!Next]_(Spin!Lock!vars)
  <2>1. SpinInv'
    BY <1>3 DEF Spin!Unlock
  <2>2. Spin!Lock!ReleaseWrite(t)
    BY <1>3 DEF Spin!Unlock, Spin!Lock!ReleaseWrite
  <2> QED BY <2>1, <2>2
<1>4. CASE UNCHANGED spinVars
  BY <1>4 DEF spinVars
<1>5. CASE SpinNext
  BY <1>1, <1>2, <1>3, <1>5 DEF SpinNext, Spin!Next, Spin!Continue
<1> QED
  BY <1>4, <1>5 DEF SyncNext, MutexNext, RWNext, SemNext, BarNext, ErrNext, syncVars

\* Spinlock and read-write lock implement the lock specification, for any number of
\* threads that the word of the latter can count (lines 768-854).
THEOREM SyncLocks == SyncSpec => LocksAreLocks
<1>1. SyncInit => SpinInv /\ Spin!Lock!Init
  BY DEF SyncInit, Spin!Init, SpinInv, Spin!Lock!Init
<1>2. SpinInv /\ [SyncNext]_syncVars => SpinInv' /\ [Spin!Lock!Next]_(Spin!Lock!vars)
  BY SpinStep
<1>3. RWP!ThreadsFit
  BY SyncConstants, SameRW
     DEF RW!ThreadsFit, RWP!ThreadsFit, RW!IsFiniteSet, RWP!IsFiniteSet
<1>4. RWP!Spec => RWP!RWIsLock
  BY <1>3, RWP!RWImplementsLock
<1>5. RWP!Lock!Init => RW!Lock!Init
  BY DEF RWP!Lock!Init, RW!Lock!Init, RWP!Readers, RW!Readers, RWP!Writers, RW!Writers
<1>6. [RWP!Lock!Next]_(RWP!Lock!vars) => [RW!Lock!Next]_(RW!Lock!vars)
  BY DEF RWP!Lock!Next, RW!Lock!Next, RWP!Lock!vars, RW!Lock!vars,
         RWP!Lock!AcquireRead, RW!Lock!AcquireRead, RWP!Lock!AcquireWrite,
         RW!Lock!AcquireWrite, RWP!Lock!ReleaseRead, RW!Lock!ReleaseRead,
         RWP!Lock!ReleaseWrite, RW!Lock!ReleaseWrite,
         RWP!Readers, RW!Readers, RWP!Writers, RW!Writers
<1> QED
  BY <1>1, <1>2, <1>4, <1>5, <1>6, RWBehaves, PTL
     DEF SyncSpec, LocksAreLocks, Spin!SpinIsLock, Spin!Lock!Spec, RW!RWIsLock,
         RW!Lock!Spec, RWP!RWIsLock, RWP!Lock!Spec
=============================================================================
