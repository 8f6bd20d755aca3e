---------------------------- MODULE MCConcurrent ----------------------------
(***************************************************************************)
(* The concurrent containers and the fibers of lgx_threading.c for TLC.    *)
(* They share no state, so one behaviour exercises one of them (`target')  *)
(* and the others stay as created.                                         *)
(***************************************************************************)
EXTENDS SPSCQueue

CONSTANTS Threads, NULL, Capacity, MaxMPMCPushes,
          Thieves, Jobs, DequeCapacity, MaxIndex,
          Poppers, Nodes, Keys, Fibers

VARIABLES target,
          enqueue_pos, dequeue_pos, sequence, data, mq_pc, mq_pos, mq_item,
          dq_top, dq_bottom, dq_buffer, dq_opc, dq_b, dq_t, dq_job, dq_tpc, dq_st,
          dq_sjob, dq_pushed, dq_taken,
          st_top, st_next, st_count, st_allocated, st_pc, st_node, st_link, st_stack,
          mp_lock, mp_chain, mp_count, mp_pc, mp_op, mp_found,
          fb_state, fb_waiting_on, lgx_current_fiber, fb_chain, fb_top, fb_available,
          fb_complete

mqVars == <<enqueue_pos, dequeue_pos, sequence, data, mq_pc, mq_pos, mq_item>>
dqVars == <<dq_top, dq_bottom, dq_buffer, dq_opc, dq_b, dq_t, dq_job, dq_tpc, dq_st,
            dq_sjob, dq_pushed, dq_taken>>
stVars == <<st_top, st_next, st_count, st_allocated, st_pc, st_node, st_link, st_stack>>
mpVars == <<mp_lock, mp_chain, mp_count, mp_pc, mp_op, mp_found>>
fbVars == <<fb_state, fb_waiting_on, lgx_current_fiber, fb_chain, fb_top, fb_available,
            fb_complete>>
allVars == <<target, vars, mqVars, dqVars, stVars, mpVars, fbVars>>

MQ == INSTANCE MPMCQueue WITH MaxPushes <- MaxMPMCPushes,
                              pc <- mq_pc, pos <- mq_pos, item <- mq_item

DQ == INSTANCE WorkDeque WITH Capacity <- DequeCapacity,
                              top <- dq_top, bottom <- dq_bottom, buffer <- dq_buffer,
                              opc <- dq_opc, b <- dq_b, t <- dq_t, job <- dq_job,
                              tpc <- dq_tpc, st <- dq_st, sjob <- dq_sjob,
                              pushed <- dq_pushed, taken <- dq_taken

ST == INSTANCE LockFreeStack WITH top <- st_top, next <- st_next, count <- st_count,
                                  allocated <- st_allocated, pc <- st_pc,
                                  node <- st_node, link <- st_link, stack <- st_stack

\* Keys 1 and 3 share a bucket, key 2 has one to itself.
MP == INSTANCE ConcurrentMap WITH Buckets <- {0, 1}, Hash <- [k \in Keys |-> k % 2],
                                  lock <- mp_lock, chain <- mp_chain, count <- mp_count,
                                  pc <- mp_pc, op <- mp_op, found <- mp_found

FB == INSTANCE Fiber WITH state <- fb_state, waiting_on <- fb_waiting_on,
                          chain <- fb_chain, top <- fb_top, available <- fb_available,
                          complete <- fb_complete

AllInit == /\ Init /\ MQ!Init /\ DQ!Init /\ ST!Init /\ MP!Init /\ FB!Init
           /\ target \in {"spsc", "mpmc", "deque", "stack", "map", "fiber"}

SPSCNext == /\ target = "spsc" /\ Next
            /\ UNCHANGED <<mqVars, dqVars, stVars, mpVars, fbVars>>

MPMCNext == /\ target = "mpmc" /\ MQ!Next
            /\ UNCHANGED <<vars, dqVars, stVars, mpVars, fbVars>>

DequeNext == /\ target = "deque" /\ DQ!Next
             /\ UNCHANGED <<vars, mqVars, stVars, mpVars, fbVars>>

StackNext == /\ target = "stack" /\ ST!Next
             /\ UNCHANGED <<vars, mqVars, dqVars, mpVars, fbVars>>

MapNext == /\ target = "map" /\ MP!Next
           /\ UNCHANGED <<vars, mqVars, dqVars, stVars, fbVars>>

FiberNext == /\ target = "fiber" /\ FB!Next
             /\ UNCHANGED <<vars, mqVars, dqVars, stVars, mpVars>>

AllNext == /\ SPSCNext \/ MPMCNext \/ DequeNext \/ StackNext \/ MapNext \/ FiberNext
           /\ UNCHANGED target

AllSpec == AllInit /\ [][AllNext]_allVars

-----------------------------------------------------------------------------

\* Full and empty are only reported of such a queue (MPMCQueue, 1022, 1048).
RefusalsAreReal == MQ!RefusalsAreReal

\* Both rings are bounded FIFO queues, between one thread on each side or many
\* (SPSCQueue, lines 1064-1137; MPMCQueue, lines 1004-1053).
QueuesAreFifo == SPSCIsFifo /\ MQ!MPMCIsFifo

\* Two threads are never inside one cell of the queue, and no job disappears from
\* the deque (MPMCQueue, lines 1014-1043; WorkDeque, lines 129-177).
ElementsKept == MQ!CellsExclusive /\ DQ!NothingLost

\* With one popping thread the list is the stack; a key of the map has at most one
\* entry, in its bucket; the sizes of map and stack, counted beside their lists, are
\* off by no more than the calls under way (LockFreeStack, ConcurrentMap; lines
\* 1180-1371).
ListsAndSizes == /\ ST!ListIsStack /\ MP!OneEntryPerKey
                 /\ ST!CountAccountsForCalls /\ MP!SizeAccountsForCalls

\* A suspension takes its caller, no context runs twice, the pool hands out
\* idle fibers (Fiber, lines 1418-1616).
FibersSound == FB!FibersSound

=============================================================================
