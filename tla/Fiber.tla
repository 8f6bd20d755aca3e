------------------------------- MODULE Fiber --------------------------------
(***************************************************************************)
(* The fibers of one thread and their pool.  `chain' is the control stack: *)
(* chain[1] was resumed by the thread itself, chain[i + 1] by chain[i],    *)
(* and its last element is executing.  Every action is what the executing  *)
(* fiber, or the thread when there is none, does next.                     *)
(***************************************************************************)
EXTENDS Integers, Sequences, FiniteSets, SequencesExt

CONSTANTS Fibers, Jobs, NULL

VARIABLES state,                \* fiber->state; "none" before create
          waiting_on,           \* fiber->waiting_on
          lgx_current_fiber,
          chain,
          top, available,       \* g_fiber_pool: its list, and its counter
          complete              \* the jobs that are complete

vars == <<state, waiting_on, lgx_current_fiber, chain, top, available, complete>>

Executing == IF chain = <<>> THEN NULL ELSE Last(chain)

InPool(f) == Contains(top, f)

Init == /\ state = [f \in Fibers |-> "none"]
        /\ waiting_on = [f \in Fibers |-> NULL]
        /\ lgx_current_fiber = NULL
        /\ chain = <<>>
        /\ top = <<>>
        /\ available = 0
        /\ complete = {}

\* lgx_fiber_create
Create(f) == /\ state[f] = "none"
             /\ state' = [state EXCEPT ![f] = "IDLE"]
             /\ UNCHANGED <<waiting_on, lgx_current_fiber, chain, top, available, complete>>

\* lgx_fiber_destroy, by the owner of a fiber that is not executing.
Destroy(f) == /\ state[f] # "none" /\ ~Contains(chain, f) /\ ~InPool(f)
              /\ state' = [state EXCEPT ![f] = "none"]
              /\ waiting_on' = [waiting_on EXCEPT ![f] = NULL]
              /\ UNCHANGED <<lgx_current_fiber, chain, top, available, complete>>

\* Mutant of Resume: the state is not looked at.
ResumeAny(f) == /\ state[f] # "none" /\ ~InPool(f)
                /\ Len(chain) < Cardinality(Fibers)
                /\ state' = [state EXCEPT ![f] = "RUNNING"]
                /\ lgx_current_fiber' = f
                /\ chain' = Append(chain, f)
                /\ waiting_on' = [waiting_on EXCEPT ![f] = NULL]
                /\ UNCHANGED <<top, available, complete>>

\* lgx_fiber_resume, up to the return from the fiber's swapcontext or its
\* entry; a fiber that is RUNNING or COMPLETED is refused.  One that was in
\* lgx_fiber_wait_job goes on and clears waiting_on, whatever its job.
Resume(f) == /\ state[f] \in {"SUSPENDED", "IDLE"} /\ ~InPool(f)
             /\ state' = [state EXCEPT ![f] = "RUNNING"]
             /\ lgx_current_fiber' = f
             /\ chain' = Append(chain, f)
             /\ waiting_on' = [waiting_on EXCEPT ![f] = NULL]
             /\ UNCHANGED <<top, available, complete>>

\* The fiber lgx_current_fiber suspends and its resumer goes on.
SwitchOut(f) == /\ state' = [state EXCEPT ![f] = "SUSPENDED"]
                /\ lgx_current_fiber' = NULL
                /\ chain' = Front(chain)

\* lgx_fiber_yield; with no lgx_current_fiber it is an error and changes nothing.
Yield == /\ lgx_current_fiber # NULL
         /\ SwitchOut(lgx_current_fiber)
         /\ UNCHANGED <<waiting_on, top, available, complete>>

\* lgx_fiber_wait_job of a job that is not complete; of one that is, it returns.
WaitJob(j) == /\ lgx_current_fiber # NULL
              /\ j \notin complete
              /\ waiting_on' = [waiting_on EXCEPT ![lgx_current_fiber] = j]
              /\ SwitchOut(lgx_current_fiber)
              /\ UNCHANGED <<top, available, complete>>

\* fiber_trampoline: the function of the executing fiber returns.
Trampoline == /\ chain # <<>>
              /\ state' = [state EXCEPT ![Executing] = "COMPLETED"]
              /\ lgx_current_fiber' = NULL
              /\ chain' = Front(chain)
              /\ UNCHANGED <<waiting_on, top, available, complete>>

-----------------------------------------------------------------------------
(* The pool; a thread releases fibers it has done with. *)

\* lgx_fiber_pool_acquire: reuse the top one, or create.
Acquire == /\ top # <<>>
           /\ state' = [state EXCEPT ![Head(top)] = "IDLE"]
           /\ waiting_on' = [waiting_on EXCEPT ![Head(top)] = NULL]
           /\ top' = Tail(top)
           /\ available' = available - 1
           /\ UNCHANGED <<lgx_current_fiber, chain, complete>>

AcquireNew(f) == top = <<>> /\ Create(f)

\* lgx_fiber_pool_release
Release(f) == /\ state[f] # "none" /\ ~Contains(chain, f) /\ ~InPool(f)
              /\ state' = [state EXCEPT ![f] = "IDLE"]
              /\ top' = <<f>> \o top
              /\ available' = available + 1
              /\ UNCHANGED <<waiting_on, lgx_current_fiber, chain, complete>>

\* lgx_fiber_pool_shutdown
PoolShutdown == /\ state' = [f \in Fibers |-> IF InPool(f) THEN "none" ELSE state[f]]
                /\ top' = <<>>
                /\ available' = 0
                /\ waiting_on' = [f \in Fibers |-> IF InPool(f) THEN NULL ELSE waiting_on[f]]
                /\ UNCHANGED <<lgx_current_fiber, chain, complete>>

\* Some worker completes a job.
JobCompletes(j) == /\ j \notin complete
                   /\ complete' = complete \union {j}
                   /\ UNCHANGED <<state, waiting_on, lgx_current_fiber, chain, top, available>>

Next == \/ \E f \in Fibers : \/ Create(f) \/ Destroy(f) \/ Resume(f)
                             \/ AcquireNew(f) \/ Release(f)
        \/ \E j \in Jobs : WaitJob(j) \/ JobCompletes(j)
        \/ Yield \/ Trampoline \/ Acquire \/ PoolShutdown

Spec == Init /\ [][Next]_vars

-----------------------------------------------------------------------------

\* A yield or a wait suspends its caller and nobody else, whatever fibers have
\* been resumed from inside fibers: the pointer is the executing fiber or NULL.
CurrentIsExecuting == lgx_current_fiber \in {NULL, Executing}

\* RUNNING says exactly that a fiber is on the control stack, once: no fiber's
\* context is ever entered twice, and nothing on the stack is reused.
RunningIsOnChain ==
    /\ \A f \in Fibers : state[f] = "RUNNING" <=> Contains(chain, f)
    /\ IsInjective(chain)

\* The pool holds each fiber once, idle and off the control stack, and its
\* counter is their number.
PoolIsSound ==
    /\ IsInjective(top) /\ available = Len(top)
    /\ \A f \in ToSet(top) : state[f] = "IDLE" /\ ~Contains(chain, f)

\* The control flow of the fibers is sound: a suspension takes its caller, no
\* context runs twice, and what the pool hands out is not in use.
FibersSound == CurrentIsExecuting /\ RunningIsOnChain /\ PoolIsSound

=============================================================================
