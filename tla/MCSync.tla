------------------------------- MODULE MCSync -------------------------------
(***************************************************************************)
(* The five synchronisation primitives of lgx_threading.c, and the error   *)
(* callbacks with their two mutexes, for TLC.  They share no state, so one *)
(* behaviour exercises one of them (`primitive') and the others stay as    *)
(* initialised.                                                            *)
(***************************************************************************)
EXTENDS FutexMutex, FiniteSets

CONSTANTS WRITER_BIT, Initial, MaxPosts, GenMod, MaxRounds, Callbacks, None

VARIABLES primitive,
          spin_locked, spin_pc,
          rw_state, rw_pc, rw_s,
          sem_count, sem_pc, sem_c, sem_posted, sem_taken,
          bar_count, bar_generation, bar_pc, bar_gen, bar_arrived, bar_left,
          err_up, err_callback, err_g_global_callback, err_mutex,
          err_g_global_callback_mutex, err_pc, err_running, err_spc, err_wanted,
          err_installed

Spin == INSTANCE SpinLock WITH locked <- spin_locked, pc <- spin_pc

RW == INSTANCE RWLock WITH state <- rw_state, pc <- rw_pc, s <- rw_s

Sem == INSTANCE Semaphore WITH count <- sem_count, pc <- sem_pc, c <- sem_c,
                               posted <- sem_posted, taken <- sem_taken

Bar == INSTANCE Barrier WITH count <- bar_count, generation <- bar_generation,
                             pc <- bar_pc, gen <- bar_gen,
                             arrived <- bar_arrived, left <- bar_left

Err == INSTANCE ErrorHandler WITH up <- err_up, callback <- err_callback,
                                  g_global_callback <- err_g_global_callback,
                                  mutex <- err_mutex,
                                  g_global_callback_mutex <- err_g_global_callback_mutex,
                                  pc <- err_pc, running <- err_running,
                                  spc <- err_spc, wanted <- err_wanted,
                                  installed <- err_installed

ASSUME SyncConstants == /\ RW!ThreadsFit
                        /\ GenMod \in Nat /\ GenMod > 1
                        /\ Initial \in Nat

spinVars == <<spin_locked, spin_pc>>
rwVars == <<rw_state, rw_pc, rw_s>>
semVars == <<sem_count, sem_pc, sem_c, sem_posted, sem_taken>>
barVars == <<bar_count, bar_generation, bar_pc, bar_gen, bar_arrived, bar_left>>
errVars == <<err_up, err_callback, err_g_global_callback, err_mutex,
             err_g_global_callback_mutex, err_pc, err_running, err_spc, err_wanted,
             err_installed>>
syncVars == <<primitive, vars, spinVars, rwVars, semVars, barVars, errVars>>

SyncInit == /\ Init /\ Spin!Init /\ RW!Init /\ Sem!Init /\ Bar!Init /\ Err!Init
            /\ primitive \in {"mutex", "spinlock", "rwlock", "semaphore", "barrier", "errors"}

MutexNext == /\ primitive = "mutex"
             /\ Next
             /\ UNCHANGED <<spinVars, rwVars, semVars, barVars, errVars>>

SpinNext == /\ primitive = "spinlock"
            /\ Spin!Next
            /\ UNCHANGED <<vars, rwVars, semVars, barVars, errVars>>

RWNext == /\ primitive = "rwlock"
          /\ RW!Next
          /\ UNCHANGED <<vars, spinVars, semVars, barVars, errVars>>

SemNext == /\ primitive = "semaphore"
           /\ Sem!Next
           /\ UNCHANGED <<vars, spinVars, rwVars, barVars, errVars>>

BarNext == /\ primitive = "barrier"
           /\ Bar!Next
           /\ UNCHANGED <<vars, spinVars, rwVars, semVars, errVars>>

ErrNext == /\ primitive = "errors"
           /\ Err!Next
           /\ UNCHANGED <<vars, spinVars, rwVars, semVars, barVars>>

SyncNext == /\ MutexNext \/ SpinNext \/ RWNext \/ SemNext \/ BarNext \/ ErrNext
            /\ UNCHANGED primitive

\* The fairness of each module's FairSpec.
SyncSpec == /\ SyncInit /\ [][SyncNext]_syncVars
            /\ \A t \in Threads :
                  /\ WF_vars(Continue(t))
                  /\ WF_spinVars(Spin!Continue(t))
                  /\ WF_rwVars(RW!Continue(t))
                  /\ WF_semVars(Sem!Continue(t))
                  /\ WF_barVars(primitive = "barrier" /\ Bar!Step(t))
                  /\ SF_errVars(Err!Step(t))
            /\ SF_errVars(Err!SetGlobal) /\ SF_errVars(Err!SetHandler)

-----------------------------------------------------------------------------

\* The spinlock excludes, and so do the writers of the read-write lock, whose
\* readers share (SpinLock, RWLock; lines 768-854).
LocksAreLocks == Spin!SpinIsLock /\ RW!RWIsLock

\* The word of the read-write lock counts its holders (RWLock, lines 802-854).
WordCountsHolders == RW!WordCountsHolders

\* Permits are neither lost nor invented, and a post between a waiter's load
\* and its sleep is not slept through (Semaphore, lines 906-935).
SemaphoreInv == Sem!SemaphoreInv

\* Nobody leaves a round before all have arrived (Barrier, lines 877-893).
NobodyLeavesEarly == Bar!NobodyLeavesEarly

\* Calls return: a thread that waits for the mutex gets it, somebody gets a
\* spinlock that is spun on, the read-write lock serves every call once no new
\* ones come, nobody waits while permits are left, every round of the barrier
\* ends, and error reports and lgx_set_error_handler return although the callbacks
\* run under the mutexes (FutexMutex, SpinLock, RWLock, Semaphore, Barrier,
\* ErrorHandler).
CallsReturn == /\ EveryWaiterServed
               /\ Spin!SomebodyGetsIn
               /\ RW!EveryCallServed
               /\ Sem!WaitersUsePermits
               /\ primitive = "barrier" => Bar!EveryRoundEnds
               /\ Err!ErrorCallsReturn

=============================================================================
