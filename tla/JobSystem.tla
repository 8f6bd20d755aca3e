----------------------------- MODULE JobSystem ------------------------------
(***************************************************************************)
(* The job scheduler: a client thread submits jobs to a global ring and    *)
(* may wait for one (running others meanwhile); workers drain the ring     *)
(* into their own deques, pop, steal, run, and park with a timeout.        *)
(*                                                                         *)
(* A deque operation is one step here; what racing pops and steals can do  *)
(* beyond that (module WorkDeque) is the action PopLosesRace.  The jobs of *)
(* a batch have handle structs of their own (65536): none is used twice.   *)
(***************************************************************************)
EXTENDS Integers, FiniteSets

CONSTANTS Workers, Client, NULL,
          MaxJobs,      \* bound: jobs submitted
          MaxIndex,     \* bound: how far a deque's indices run
          QUEUE_CAP,    \* LGX_THREADING_SUBMIT_QUEUE_CAP
          DEQUE_CAP,    \* LGX_THREADING_DEQUE_INITIAL_CAP
          HANDLES,      \* handle structs per thread (256)
          SPINS         \* rounds of looking again before parking (1000)

ASSUME JobConstants == /\ IsFiniteSet(Workers) /\ Workers # {}
                       /\ Client \notin Workers
                       /\ MaxJobs \in Nat /\ MaxIndex \in Nat
                       /\ QUEUE_CAP \in Nat \ {0}
                       /\ DEQUE_CAP \in Nat \ {0}
                       /\ HANDLES \in Nat \ {0} /\ HANDLES >= MaxJobs
                       /\ SPINS \in Nat
                       /\ NULL \notin Nat

VARIABLES n,                                \* jobs submitted so far: 1..n
          parent, remaining, flag,          \* fields of the job structs
          handle_storage,                   \* handle struct -> job
          submit_head, submit_tail, submit_queue,
          top, bottom, buffer,              \* the workers' deques
          shutdown_requested,
          pc, job,                          \* threads: next step, job in hand,
          pos, waiting, spin,               \*   ring position, job waited for
          batch,                            \* descriptors left of the batch
          runs,                             \* times each job has run
          lost                              \* pops that have lost their race

jobs == <<n, parent, remaining, flag, handle_storage>>
ring == <<submit_head, submit_tail, submit_queue>>
deques == <<top, bottom, buffer>>
locals == <<job, pos, waiting, spin>>
ghosts == <<runs, lost>>
vars == <<jobs, ring, deques, shutdown_requested, pc, locals, ghosts, batch>>

Threads == Workers \union {Client}
JobIds == 1..MaxJobs

Goto(t, l) == pc' = [pc EXCEPT ![t] = l]

\* pthread_cond_broadcast(&pool->wake_cond), and the caller goes to l.
BroadcastAndGoto(t, l) ==
    pc' = [u \in Threads |-> IF u = t THEN l
                             ELSE IF pc[u] = "parked" THEN "top" ELSE pc[u]]

\* pool_create
Init == /\ n = 0
        /\ parent = [j \in JobIds |-> NULL]
        /\ remaining = [j \in JobIds |-> 0]
        /\ flag = [j \in JobIds |-> 0]
        /\ handle_storage = [h \in 0..(HANDLES - 1) |-> NULL]
        /\ submit_head = 0 /\ submit_tail = 0
        /\ submit_queue = [i \in 0..(QUEUE_CAP - 1) |-> NULL]
        /\ top = [w \in Workers |-> 0]
        /\ bottom = [w \in Workers |-> 0]
        /\ buffer = [w \in Workers |-> [i \in 0..(DEQUE_CAP - 1) |-> NULL]]
        /\ shutdown_requested = FALSE
        /\ pc = [t \in Threads |-> IF t = Client THEN "client" ELSE "top"]
        /\ job = [t \in Threads |-> NULL]
        /\ pos = [t \in Threads |-> 0]
        /\ waiting = NULL
        /\ spin = [w \in Workers |-> 0]
        /\ runs = [j \in JobIds |-> 0]
        /\ lost = 0
        /\ batch = 0

-----------------------------------------------------------------------------
(* lgx_job_submit, by the client thread *)


\* alloc_job, the job's fields, the parent's count, and the ring position.
Reserve(p, l) == /\ n < MaxJobs
                 /\ n' = n + 1
                 /\ parent' = [parent EXCEPT ![n + 1] = p]
                 /\ remaining' = IF p = NULL THEN remaining
                                 ELSE [remaining EXCEPT ![p] = @ + 1]
                 /\ pos' = [pos EXCEPT ![Client] = submit_head]
                 /\ submit_head' = submit_head + 1
                 /\ Goto(Client, l)
                 /\ UNCHANGED flag

\* Store the job in the ring and fill in the next handle struct.
Store == /\ submit_queue' = [submit_queue EXCEPT ![pos[Client] % QUEUE_CAP] = n]
         /\ handle_storage' = [handle_storage EXCEPT ![(n - 1) % HANDLES] = n]
         /\ pos' = [pos EXCEPT ![Client] = 0]
         /\ UNCHANGED <<n, parent, remaining, flag, submit_head, submit_tail, deques,
                        shutdown_requested, job, waiting, spin, ghosts>>

SubmitReserve(p) == /\ pc[Client] = "client"
                    /\ Reserve(p, "store")
                    /\ UNCHANGED <<handle_storage, submit_tail, submit_queue, deques,
                                   shutdown_requested, job, waiting, spin, ghosts>>

\* ... and wake the parked workers.
SubmitStore == /\ pc[Client] = "store"
               /\ Store
               /\ BroadcastAndGoto(Client, "client")

-----------------------------------------------------------------------------
(* lgx_job_submit_batch *)

\* A batch of k descriptors, submitted one by one ...
BatchCall(k) == /\ pc[Client] = "client"
                /\ batch' = k
                /\ Goto(Client, "batch")
                /\ UNCHANGED <<jobs, ring, deques, shutdown_requested, locals, ghosts>>

BatchReserve(p) == /\ pc[Client] = "batch"
                   /\ batch > 0
                   /\ Reserve(p, "batchstore")
                   /\ UNCHANGED <<handle_storage, submit_tail, submit_queue, deques, batch,
                                  shutdown_requested, job, waiting, spin, ghosts>>

BatchStore == /\ pc[Client] = "batchstore"
              /\ Store
              /\ batch' = batch - 1
              /\ Goto(Client, "batch")

\* ... up to one without a function: return INVALID_PARAM, waking nobody ...
BatchInvalid == /\ pc[Client] = "batch"
                /\ batch > 0
                /\ batch' = 0
                /\ Goto(Client, "client")
                /\ UNCHANGED <<jobs, ring, deques, shutdown_requested, locals, ghosts>>

\* ... or all of them: wake the parked workers.
BatchDone == /\ pc[Client] = "batch"
             /\ batch = 0
             /\ batch' = 0
             /\ BroadcastAndGoto(Client, "client")
             /\ UNCHANGED <<jobs, ring, deques, shutdown_requested, locals, ghosts>>

BatchStep == \/ \E p \in 1..n \union {NULL} : BatchReserve(p)
             \/ BatchStore \/ BatchInvalid \/ BatchDone

-----------------------------------------------------------------------------
(* worker_entry *)

WorkerTop(w) == /\ pc[w] = "top"
                /\ Goto(w, IF shutdown_requested THEN "exited" ELSE "drain")
                /\ spin' = [spin EXCEPT ![w] = 0]
                /\ UNCHANGED <<jobs, ring, deques, shutdown_requested, job, pos,
                               waiting, ghosts>>

\* Take a ring position with the CAS on submit_tail (a failed CAS tries again).
RingTake(t, l) == /\ submit_tail < submit_head
                  /\ pos' = [pos EXCEPT ![t] = submit_tail]
                  /\ submit_tail' = submit_tail + 1
                  /\ Goto(t, l)

DrainTake(w) == /\ pc[w] = "drain"
                /\ RingTake(w, "drainread")
                /\ UNCHANGED <<jobs, submit_head, submit_queue, deques,
                               shutdown_requested, job, waiting, spin, ghosts>>

\* Mutant of DrainRead: the slot is not cleared.
DrainKeepsSlot(w) == LET slot == pos[w] % QUEUE_CAP IN
                     /\ pc[w] = "drainread"
                     /\ submit_queue[slot] # NULL
                     /\ buffer' = [buffer EXCEPT ![w][bottom[w] % DEQUE_CAP] =
                                                    submit_queue[slot]]
                     /\ bottom' = [bottom EXCEPT ![w] = @ + 1]
                     /\ pos' = [pos EXCEPT ![w] = 0]
                     /\ Goto(w, "drain")
                     /\ UNCHANGED <<jobs, ring, top, shutdown_requested, job,
                                    waiting, spin, ghosts>>

\* Spin until the producer's store shows, clear the slot, push to the deque.
DrainRead(w) == LET slot == pos[w] % QUEUE_CAP IN
                /\ pc[w] = "drainread"
                /\ submit_queue[slot] # NULL
                /\ submit_queue' = [submit_queue EXCEPT ![slot] = NULL]
                /\ buffer' = [buffer EXCEPT ![w][bottom[w] % DEQUE_CAP] = submit_queue[slot]]
                /\ bottom' = [bottom EXCEPT ![w] = @ + 1]
                /\ pos' = [pos EXCEPT ![w] = 0]
                /\ Goto(w, "drain")
                /\ UNCHANGED <<jobs, submit_head, submit_tail, top, shutdown_requested,
                               job, waiting, spin, ghosts>>

DrainDone(w) == /\ pc[w] = "drain"
                /\ submit_tail >= submit_head
                /\ Goto(w, "pop")
                /\ UNCHANGED <<jobs, ring, deques, shutdown_requested, locals, ghosts>>

\* lgx_work_deque_pop finds a job ...
Pop(w) == LET b == bottom[w] - 1 IN
          /\ pc[w] = "pop"
          /\ top[w] <= b
          /\ job' = [job EXCEPT ![w] = buffer[w][b % DEQUE_CAP]]
          /\ top' = IF top[w] = b THEN [top EXCEPT ![w] = b + 1] ELSE top
          /\ bottom' = [bottom EXCEPT ![w] = IF top[w] = b THEN b + 1 ELSE b]
          /\ Goto(w, IF job'[w] = NULL THEN "steal" ELSE "run")
          /\ UNCHANGED <<jobs, ring, buffer, shutdown_requested, pos, waiting,
                         spin, ghosts>>

\* ... or none.
PopEmpty(w) == /\ pc[w] = "pop"
               /\ top[w] >= bottom[w]
               /\ Goto(w, "steal")
               /\ UNCHANGED <<jobs, ring, deques, shutdown_requested, locals, ghosts>>

-----------------------------------------------------------------------------
(* lgx_work_deque_steal, from the worker's loop and from lgx_job_wait *)

\* Where a thread goes on when no victim had a job for it.
NoVictim(t) == IF t = Client THEN "wait" ELSE "spin"

Steal(t, v) == /\ pc[t] = "steal"
               /\ top[v] < bottom[v]
               /\ job' = [job EXCEPT ![t] = buffer[v][top[v] % DEQUE_CAP]]
               /\ top' = [top EXCEPT ![v] = @ + 1]
               /\ Goto(t, IF job'[t] = NULL THEN NoVictim(t) ELSE "run")
               /\ UNCHANGED <<jobs, ring, bottom, buffer, shutdown_requested, pos,
                              waiting, spin, ghosts>>

\* Every victim was empty when it was looked at, or another thief won the CAS.
StealFails(t) == /\ pc[t] = "steal"
                 /\ Goto(t, NoVictim(t))
                 /\ UNCHANGED <<jobs, ring, deques, shutdown_requested, locals, ghosts>>

\* Thief t takes the last job of w while w pops it: the failed CAS has reloaded
\* t, and bottom is stored one too far.
PopLosesRace(w, t) ==
    /\ pc[w] = "pop" /\ pc[t] = "steal"
    /\ top[w] = bottom[w] - 1
    /\ bottom[w] < MaxIndex
    /\ job' = [job EXCEPT ![t] = buffer[w][top[w] % DEQUE_CAP]]
    /\ top' = [top EXCEPT ![w] = @ + 1]
    /\ bottom' = [bottom EXCEPT ![w] = @ + 1]
    /\ pc' = [pc EXCEPT ![w] = "steal",
                        ![t] = IF job'[t] = NULL THEN NoVictim(t) ELSE "run"]
    /\ lost' = lost + 1
    /\ UNCHANGED <<jobs, ring, buffer, shutdown_requested, pos, waiting, spin, runs>>

\* Up to SPINS more rounds of pop and steal, then park.
SpinAgain(w) == /\ pc[w] = "spin"
                /\ spin[w] < SPINS
                /\ spin' = [spin EXCEPT ![w] = @ + 1]
                /\ Goto(w, "pop")
                /\ UNCHANGED <<jobs, ring, deques, shutdown_requested, job, pos,
                               waiting, ghosts>>

\* Park: look at the request once more ...
Park(w) == /\ pc[w] = "spin"
           /\ spin[w] = SPINS
           /\ Goto(w, IF shutdown_requested THEN "top" ELSE "parking")
           /\ UNCHANGED <<jobs, ring, deques, shutdown_requested, locals, ghosts>>

\* ... and wait on the condition.  Broadcasts are sent without wake_mutex, so
\* one may come in between, and find nobody.
CondWait(w) == /\ pc[w] = "parking"
               /\ Goto(w, "parked")
               /\ UNCHANGED <<jobs, ring, deques, shutdown_requested, locals, ghosts>>

\* Mutant of ParkTimeout: an untimed wait, that only a broadcast ends.
ParkUntimed(w) == /\ pc[w] = "parked"
                  /\ FALSE
                  /\ Goto(w, "top")
                  /\ UNCHANGED <<jobs, ring, deques, shutdown_requested, locals, ghosts>>

\* The 1 ms timed wait ends.
ParkTimeout(w) == /\ pc[w] = "parked"
                  /\ Goto(w, "top")
                  /\ UNCHANGED <<jobs, ring, deques, shutdown_requested, locals, ghosts>>

-----------------------------------------------------------------------------
(* Running a job: the same lines three times in the source *)

Run(t) == /\ pc[t] = "run"
          /\ runs' = [runs EXCEPT ![job[t]] = @ + 1]
          /\ Goto(t, "complete")
          /\ UNCHANGED <<jobs, ring, deques, shutdown_requested, locals, lost>>

After(t) == IF t = Client THEN "wait" ELSE "top"

Complete(t) == /\ pc[t] = "complete"
               /\ flag' = [flag EXCEPT ![job[t]] = 1]
               /\ Goto(t, IF parent[job[t]] = NULL THEN After(t) ELSE "notify")
               /\ job' = IF parent[job[t]] = NULL THEN [job EXCEPT ![t] = NULL] ELSE job
               /\ UNCHANGED <<n, parent, remaining, handle_storage, ring, deques,
                              shutdown_requested, pos, waiting, spin, ghosts>>

Notify(t) == LET p == parent[job[t]] IN
             /\ pc[t] = "notify"
             /\ remaining' = [remaining EXCEPT ![p] = @ - 1]
             /\ Goto(t, IF remaining[p] = 1 THEN "flagparent" ELSE After(t))
             /\ job' = IF remaining[p] = 1 THEN job ELSE [job EXCEPT ![t] = NULL]
             /\ UNCHANGED <<n, parent, flag, handle_storage, ring, deques,
                            shutdown_requested, pos, waiting, spin, ghosts>>

FlagParent(t) == /\ pc[t] = "flagparent"
                 /\ flag' = [flag EXCEPT ![parent[job[t]]] = 1]
                 /\ job' = [job EXCEPT ![t] = NULL]
                 /\ Goto(t, After(t))
                 /\ UNCHANGED <<n, parent, remaining, handle_storage, ring, deques,
                                shutdown_requested, pos, waiting, spin, ghosts>>

-----------------------------------------------------------------------------
(* lgx_job_wait and lgx_threading_shutdown, by the client thread *)

\* Wait with the handle lgx_job_submit returned for j.
WaitCall(j) == /\ pc[Client] = "client"
               /\ waiting' = j
               /\ Goto(Client, "wait")
               /\ UNCHANGED <<jobs, ring, deques, shutdown_requested, job, pos, spin, ghosts>>

\* handle->job, whatever job the struct holds by now.
WaitedJob == handle_storage[(waiting - 1) % HANDLES]


WaitReturn == /\ pc[Client] = "wait"
              /\ flag[WaitedJob] = 1
              /\ waiting' = NULL
              /\ Goto(Client, "client")
              /\ UNCHANGED <<jobs, ring, deques, shutdown_requested, job, pos, spin, ghosts>>

\* Pull a job from the ring ...
WaitTake == /\ pc[Client] = "wait"
            /\ flag[WaitedJob] = 0
            /\ RingTake(Client, "waitread")
            /\ UNCHANGED <<jobs, submit_head, submit_queue, deques, shutdown_requested,
                           job, waiting, spin, ghosts>>

WaitRead == LET slot == pos[Client] % QUEUE_CAP IN
            /\ pc[Client] = "waitread"
            /\ submit_queue[slot] # NULL
            /\ job' = [job EXCEPT ![Client] = submit_queue[slot]]
            /\ submit_queue' = [submit_queue EXCEPT ![slot] = NULL]
            /\ pos' = [pos EXCEPT ![Client] = 0]
            /\ Goto(Client, "run")
            /\ UNCHANGED <<jobs, submit_head, submit_tail, deques, shutdown_requested,
                           waiting, spin, ghosts>>

\* ... or go stealing.
WaitSteal == /\ pc[Client] = "wait"
             /\ flag[WaitedJob] = 0
             /\ Goto(Client, "steal")
             /\ UNCHANGED <<jobs, ring, deques, shutdown_requested, locals, ghosts>>

\* pool_destroy: request, broadcast, then join every worker.
Shutdown == /\ pc[Client] = "client"
            /\ shutdown_requested' = TRUE
            /\ BroadcastAndGoto(Client, "join")
            /\ UNCHANGED <<jobs, ring, deques, locals, ghosts>>

Joined == /\ pc[Client] = "join"
          /\ \A w \in Workers : pc[w] = "exited"
          /\ Goto(Client, "down")
          /\ UNCHANGED <<jobs, ring, deques, shutdown_requested, locals, ghosts>>

-----------------------------------------------------------------------------

Execute(t) == Run(t) \/ Complete(t) \/ Notify(t) \/ FlagParent(t)

StealStep(t) == StealFails(t) \/ \E v \in Workers : Steal(t, v)

Worker(w) == \/ WorkerTop(w) \/ DrainTake(w) \/ DrainRead(w) \/ DrainDone(w)
             \/ Pop(w) \/ PopEmpty(w) \/ StealStep(w) \/ SpinAgain(w)
             \/ Park(w) \/ CondWait(w) \/ ParkTimeout(w) \/ Execute(w)

ClientCall == \/ \E p \in 1..n \union {NULL} : SubmitReserve(p)
              \/ \E j \in 1..n : WaitCall(j)
              \/ Shutdown

ClientStep == \/ SubmitStore \/ WaitReturn \/ WaitTake \/ WaitRead \/ WaitSteal
              \/ StealStep(Client) \/ Execute(Client) \/ Joined

Next == \/ /\ \/ ClientCall
              \/ ClientStep
              \/ \E w \in Workers : Worker(w) \/ \E t \in Threads \ {w} : PopLosesRace(w, t)
           /\ UNCHANGED batch
        \/ \E k \in 1..MaxJobs : n + k <= MaxJobs /\ BatchCall(k)
        \/ BatchStep

Spec == Init /\ [][Next]_vars

\* Threads are scheduled and job functions return; a timed wait ends.
FairSpec == /\ Spec
            /\ WF_vars(ClientStep /\ UNCHANGED batch)
            /\ WF_vars(BatchStep)
            /\ \A w \in Workers : WF_vars(Worker(w) /\ UNCHANGED batch)

-----------------------------------------------------------------------------

Submitted == 1..(IF pc[Client] \in {"store", "batchstore"} THEN n - 1 ELSE n)

Places(j) ==
    Cardinality({i \in 0..(QUEUE_CAP - 1) : submit_queue[i] = j})
    + Cardinality({<<w, i>> \in Workers \X (0..MaxIndex) :
                      top[w] <= i /\ i < bottom[w] /\ buffer[w][i % DEQUE_CAP] = j})
    + Cardinality({t \in Threads : pc[t] = "run" /\ job[t] = j})

\* Until it has run, a submitted job is in exactly one place: a ring slot, a
\* deque, or a thread's hand; after that in none.  So it runs exactly once,
\* whoever drains, pops, steals or waits, unless a pop has lost its race.
JobInOnePlace ==
    lost = 0 => \A j \in Submitted : runs[j] + Places(j) = 1


\* Every submitted job is run, unless the pool is shut down: a broadcast that
\* came before the worker parked, or that a rejected batch never sent, loses
\* nothing (lines 278-289, 567, 593).
EveryJobRuns ==
    \A j \in JobIds : (j \in Submitted) ~> (runs[j] > 0 \/ shutdown_requested)

\* lgx_threading_shutdown returns: a worker that decided to park before the
\* request and missed its broadcast still finds out (lines 278-289, 395-400).
ShutdownReturns == shutdown_requested ~> pc[Client] = "down"


-----------------------------------------------------------------------------
(* What the comments, the documentation and the tests say *)

\* include/lgx_threading.h:154 "Waits for all pending jobs, then joins worker
\* threads."
NothingPendingAfterShutdown ==
    pc[Client] = "down" => \A j \in 1..n : flag[j] = 1

=============================================================================
