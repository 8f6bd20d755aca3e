---------------------------- MODULE BoundedFifo -----------------------------
(***************************************************************************)
(* What a bounded queue promises: elements leave in the order they came,   *)
(* each once and unchanged, and never more than Capacity are inside.  A    *)
(* thread that popped has the element in hand until its call returns.      *)
(***************************************************************************)
EXTENDS Integers, Sequences

CONSTANTS Threads, Values, Nothing, Capacity

VARIABLES queue,        \* the elements inside, oldest first
          hand          \* the element each popping thread is about to return

vars == <<queue, hand>>

Init == /\ queue = <<>>
        /\ hand = [t \in Threads |-> Nothing]

Push(v) == /\ Len(queue) < Capacity
           /\ queue' = Append(queue, v)
           /\ UNCHANGED hand

Pop(t) == /\ queue # <<>>
          /\ hand[t] = Nothing
          /\ hand' = [hand EXCEPT ![t] = Head(queue)]
          /\ queue' = Tail(queue)

Return(t) == /\ hand[t] # Nothing
             /\ hand' = [hand EXCEPT ![t] = Nothing]
             /\ UNCHANGED queue

Next == \/ \E v \in Values : Push(v)
        \/ \E t \in Threads : Pop(t) \/ Return(t)

Spec == Init /\ [][Next]_vars

=============================================================================
