----------------------------- MODULE MPMCQueue ------------------------------
(***************************************************************************)
(* lgx_mpmc_queue_t: a ring of cells with sequence numbers.  A cell whose  *)
(* sequence is pos is free for the push of position pos, pos + 1 means it  *)
(* holds that element, pos + Capacity that it is free for the next lap.    *)
(* Positions are size_t in the code; they are not wrapped here (2^64).     *)
(***************************************************************************)
EXTENDS Integers, Sequences

CONSTANTS Threads, Values, Nothing,
          Capacity,     \* queue->capacity, a power of 2
          MaxPushes     \* bound: successful pushes

VARIABLES enqueue_pos, dequeue_pos,
          sequence, data,               \* the cells
          pc,
          pos,                          \* the local `pos'
          item                          \* the caller's element buffer

vars == <<enqueue_pos, dequeue_pos, sequence, data, pc, pos, item>>

Labels == {"idle", "pushload", "pushseq", "pushcas", "pushcopy", "pushdone",
           "popload", "popseq", "popcas", "popcopy", "popdone"}

Cells == 0..(Capacity - 1)

\* mpmc_cell: (idx & mask)
mpmc_cell(idx) == idx % Capacity

Goto(t, l) == pc' = [pc EXCEPT ![t] = l]

SetPos(t, p) == pos' = [pos EXCEPT ![t] = p]

\* A call returns and its locals are gone.
Return(t) == /\ Goto(t, "idle")
             /\ SetPos(t, 0)
             /\ item' = [item EXCEPT ![t] = Nothing]

\* lgx_mpmc_queue_create
Init == /\ enqueue_pos = 0
        /\ dequeue_pos = 0
        /\ sequence = [i \in Cells |-> i]
        /\ data = [i \in Cells |-> Nothing]
        /\ pc = [t \in Threads |-> "idle"]
        /\ pos = [t \in Threads |-> 0]
        /\ item = [t \in Threads |-> Nothing]

-----------------------------------------------------------------------------
(* lgx_mpmc_queue_push *)

PushCall(t, v) == /\ pc[t] = "idle"
                  /\ item' = [item EXCEPT ![t] = v]
                  /\ Goto(t, "pushload")
                  /\ UNCHANGED <<enqueue_pos, dequeue_pos, sequence, data, pos>>

PushLoad(t) == /\ pc[t] = "pushload"
               /\ SetPos(t, enqueue_pos)
               /\ Goto(t, "pushseq")
               /\ UNCHANGED <<enqueue_pos, dequeue_pos, sequence, data, item>>

\* Load the cell's sequence: diff = 0, go for the position.
PushReady(t) == /\ pc[t] = "pushseq"
                /\ sequence[mpmc_cell(pos[t])] = pos[t]
                /\ Goto(t, "pushcas")
                /\ UNCHANGED <<enqueue_pos, dequeue_pos, sequence, data, pos, item>>

\* Mutant of PushFull: a cell somebody else has just taken is called full.
FullWhenBehind(t) == /\ pc[t] = "pushseq"
                     /\ sequence[mpmc_cell(pos[t])] # pos[t]
                     /\ Return(t)
                     /\ UNCHANGED <<enqueue_pos, dequeue_pos, sequence, data>>

\* diff < 0: return QUEUE_FULL.
PushFull(t) == /\ pc[t] = "pushseq"
               /\ sequence[mpmc_cell(pos[t])] < pos[t]
               /\ Return(t)
               /\ UNCHANGED <<enqueue_pos, dequeue_pos, sequence, data>>

\* diff > 0: somebody took the position; load it again.
PushBehind(t) == /\ pc[t] = "pushseq"
                 /\ sequence[mpmc_cell(pos[t])] > pos[t]
                 /\ Goto(t, "pushload")
                 /\ UNCHANGED <<enqueue_pos, dequeue_pos, sequence, data, pos, item>>

\* CAS pos -> pos + 1 on enqueue_pos succeeds: the cell is this thread's.
PushCas(t) == /\ pc[t] = "pushcas"
              /\ enqueue_pos = pos[t]
              /\ enqueue_pos < MaxPushes
              /\ enqueue_pos' = pos[t] + 1
              /\ Goto(t, "pushcopy")
              /\ UNCHANGED <<dequeue_pos, sequence, data, pos, item>>

\* It fails, perhaps for no reason, and loads the position into pos.
PushCasFails(t) == /\ pc[t] = "pushcas"
                   /\ SetPos(t, enqueue_pos)
                   /\ Goto(t, "pushseq")
                   /\ UNCHANGED <<enqueue_pos, dequeue_pos, sequence, data, item>>

\* Mutant of PushCopy: the sequence is published before the memcpy.
PublishBeforeCopy(t) == /\ pc[t] = "pushcopy"
                        /\ sequence' = [sequence EXCEPT ![mpmc_cell(pos[t])] = pos[t] + 1]
                        /\ Goto(t, "pushdone")
                        /\ UNCHANGED <<enqueue_pos, dequeue_pos, data, pos, item>>

PushCopy(t) == /\ pc[t] = "pushcopy"
               /\ data' = [data EXCEPT ![mpmc_cell(pos[t])] = item[t]]
               /\ Goto(t, "pushdone")
               /\ UNCHANGED <<enqueue_pos, dequeue_pos, sequence, pos, item>>

PushDone(t) == /\ pc[t] = "pushdone"
               /\ sequence' = [sequence EXCEPT ![mpmc_cell(pos[t])] = pos[t] + 1]
               /\ Return(t)
               /\ UNCHANGED <<enqueue_pos, dequeue_pos, data>>

-----------------------------------------------------------------------------
(* lgx_mpmc_queue_pop *)

PopCall(t) == /\ pc[t] = "idle"
              /\ Goto(t, "popload")
              /\ UNCHANGED <<enqueue_pos, dequeue_pos, sequence, data, pos, item>>

PopLoad(t) == /\ pc[t] = "popload"
              /\ SetPos(t, dequeue_pos)
              /\ Goto(t, "popseq")
              /\ UNCHANGED <<enqueue_pos, dequeue_pos, sequence, data, item>>

PopReady(t) == /\ pc[t] = "popseq"
               /\ sequence[mpmc_cell(pos[t])] = pos[t] + 1
               /\ Goto(t, "popcas")
               /\ UNCHANGED <<enqueue_pos, dequeue_pos, sequence, data, pos, item>>

\* diff < 0: return QUEUE_EMPTY.
PopEmpty(t) == /\ pc[t] = "popseq"
               /\ sequence[mpmc_cell(pos[t])] < pos[t] + 1
               /\ Return(t)
               /\ UNCHANGED <<enqueue_pos, dequeue_pos, sequence, data>>

PopBehind(t) == /\ pc[t] = "popseq"
                /\ sequence[mpmc_cell(pos[t])] > pos[t] + 1
                /\ Goto(t, "popload")
                /\ UNCHANGED <<enqueue_pos, dequeue_pos, sequence, data, pos, item>>

\* CAS pos -> pos + 1 on dequeue_pos succeeds: the element is this thread's.
PopCas(t) == /\ pc[t] = "popcas"
             /\ dequeue_pos = pos[t]
             /\ dequeue_pos' = pos[t] + 1
             /\ Goto(t, "popcopy")
             /\ UNCHANGED <<enqueue_pos, sequence, data, pos, item>>

PopCasFails(t) == /\ pc[t] = "popcas"
                  /\ SetPos(t, dequeue_pos)
                  /\ Goto(t, "popseq")
                  /\ UNCHANGED <<enqueue_pos, dequeue_pos, sequence, data, item>>

\* Mutant of PopCopy: the cell is released before the memcpy.
ReleaseBeforeCopy(t) == /\ pc[t] = "popcopy"
                        /\ sequence' = [sequence EXCEPT
                                          ![mpmc_cell(pos[t])] = pos[t] + Capacity]
                        /\ Goto(t, "popdone")
                        /\ UNCHANGED <<enqueue_pos, dequeue_pos, data, pos, item>>

PopCopy(t) == /\ pc[t] = "popcopy"
              /\ item' = [item EXCEPT ![t] = data[mpmc_cell(pos[t])]]
              /\ Goto(t, "popdone")
              /\ UNCHANGED <<enqueue_pos, dequeue_pos, sequence, data, pos>>

PopDone(t) == /\ pc[t] = "popdone"
              /\ sequence' = [sequence EXCEPT ![mpmc_cell(pos[t])] = pos[t] + Capacity]
              /\ Return(t)
              /\ UNCHANGED <<enqueue_pos, dequeue_pos, data>>

Next == \E t \in Threads :
          \/ \E v \in Values : PushCall(t, v)
          \/ PushLoad(t) \/ PushReady(t) \/ PushFull(t) \/ PushBehind(t)
          \/ PushCas(t) \/ PushCasFails(t) \/ PushCopy(t) \/ PushDone(t)
          \/ PopCall(t) \/ PopLoad(t) \/ PopReady(t) \/ PopEmpty(t) \/ PopBehind(t)
          \/ PopCas(t) \/ PopCasFails(t) \/ PopCopy(t) \/ PopDone(t)

Spec == Init /\ [][Next]_vars

-----------------------------------------------------------------------------

Copying(t) == pc[t] \in {"pushcopy", "pushdone", "popcopy", "popdone"}

\* Two threads are never inside the same cell: a memcpy of an element never
\* overlaps another access to it, on any lap (lines 1014-1018, 1039-1043).
CellsExclusive ==
    \A t, u \in Threads :
        t # u /\ Copying(t) /\ Copying(u) => mpmc_cell(pos[t]) # mpmc_cell(pos[u])

\* QUEUE_FULL is only reported of a full queue, or while a pop that has taken
\* its position has not yet released the cell; QUEUE_EMPTY only of an empty one,
\* or while a push that has taken its position has not yet published.
RefusalsAreReal ==
    [][\A t \in Threads :
          /\ PushFull(t) => \/ enqueue_pos - dequeue_pos = Capacity
                            \/ \E u \in Threads : pc[u] \in {"popcopy", "popdone"}
          /\ PopEmpty(t) => \/ enqueue_pos = dequeue_pos
                            \/ \E u \in Threads : pc[u] \in {"pushcopy", "pushdone"}]_vars

\* Abstractly an element is in the queue from the push's CAS to the pop's: one
\* not yet copied in is still in its pusher's buffer.
Element(p) == IF \E t \in Threads : pc[t] \in {"pushcopy", "pushdone"} /\ pos[t] = p
              THEN LET t == CHOOSE t \in Threads :
                                pc[t] \in {"pushcopy", "pushdone"} /\ pos[t] = p
                   IN  item[t]
              ELSE data[mpmc_cell(p)]

Fifo == INSTANCE BoundedFifo WITH
          queue <- [i \in 1..(enqueue_pos - dequeue_pos) |-> Element(dequeue_pos + i - 1)],
          hand  <- [t \in Threads |->
                      IF pc[t] = "popcopy" THEN data[mpmc_cell(pos[t])]
                      ELSE IF pc[t] = "popdone" THEN item[t]
                      ELSE Nothing]

\* Whatever pushes and pops interleave, the ring is a bounded FIFO queue that
\* delivers every element once, in order and unchanged.
MPMCIsFifo == Fifo!Spec

=============================================================================
