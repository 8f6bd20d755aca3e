----------------------------- MODULE SPSCQueue ------------------------------
(***************************************************************************)
(* lgx_spsc_queue_t: one producer owns tail, one consumer owns head; each  *)
(* reads the other's index once, copies, and publishes its own.            *)
(***************************************************************************)
EXTENDS Integers, Sequences

CONSTANTS Values, Nothing,
          requested,    \* the capacity lgx_spsc_queue_create is asked for
          MaxPushes     \* bound: successful pushes

ASSUME SPSCConstants == /\ requested \in Nat \ {0}
                        /\ MaxPushes \in Nat
                        /\ Nothing \notin Values

VARIABLES head, tail, buffer,
          producer, consumer,   \* next step of each
          h,                    \* the producer's `h'
          t,                    \* the consumer's `t'
          element, out          \* the element being pushed, popped

vars == <<head, tail, buffer, producer, consumer, h, t, element, out>>

\* Rounded up to a power of 2 by doubling.
capacity == CHOOSE c \in {2^k : k \in 0..requested} :
              c >= requested /\ (c = 1 \/ c \div 2 < requested)

ASSUME SPSCCapacity == capacity \in Nat \ {0}

\* (idx & mask)
slot(idx) == idx % capacity

Init == /\ head = 0
        /\ tail = 0
        /\ buffer = [i \in 0..(capacity - 1) |-> Nothing]
        /\ producer = "idle"
        /\ consumer = "idle"
        /\ h = 0
        /\ t = 0
        /\ element = Nothing
        /\ out = Nothing

-----------------------------------------------------------------------------
(* lgx_spsc_queue_push.  Its load of tail, which only it writes, is merged  *)
(* into its load of head.                                                   *)

PushLoad(v) == /\ producer = "idle"
               /\ tail < MaxPushes
               /\ element' = v
               /\ h' = head
               /\ producer' = "check"
               /\ UNCHANGED <<head, tail, buffer, consumer, t, out>>

PushFull == /\ producer = "check"
            /\ tail - h >= capacity
            /\ element' = Nothing
            /\ producer' = "idle"
            /\ UNCHANGED <<head, tail, buffer, consumer, h, t, out>>

\* Mutant of PushCopy: one element more than the ring holds.
PushOffByOne == /\ producer = "check"
                /\ tail - h <= capacity
                /\ buffer' = [buffer EXCEPT ![slot(tail)] = element]
                /\ producer' = "publish"
                /\ UNCHANGED <<head, tail, consumer, h, t, element, out>>

PushCopy == /\ producer = "check"
            /\ tail - h < capacity
            /\ buffer' = [buffer EXCEPT ![slot(tail)] = element]
            /\ producer' = "publish"
            /\ UNCHANGED <<head, tail, consumer, h, t, element, out>>

PushDone == /\ producer = "publish"
            /\ tail' = tail + 1
            /\ element' = Nothing
            /\ producer' = "idle"
            /\ UNCHANGED <<head, buffer, consumer, h, t, out>>

-----------------------------------------------------------------------------
(* lgx_spsc_queue_pop *)

PopLoad == /\ consumer = "idle"
           /\ t' = tail
           /\ consumer' = "check"
           /\ UNCHANGED <<head, tail, buffer, producer, h, element, out>>

PopEmpty == /\ consumer = "check"
            /\ head >= t
            /\ consumer' = "idle"
            /\ UNCHANGED <<head, tail, buffer, producer, h, t, element, out>>

PopCopy == /\ consumer = "check"
           /\ head < t
           /\ out' = buffer[slot(head)]
           /\ consumer' = "release"
           /\ UNCHANGED <<head, tail, buffer, producer, h, t, element>>

PopDone == /\ consumer = "release"
           /\ head' = head + 1
           /\ out' = Nothing
           /\ consumer' = "idle"
           /\ UNCHANGED <<tail, buffer, producer, h, t, element>>

Next == \/ \E v \in Values : PushLoad(v)
        \/ PushFull \/ PushCopy \/ PushDone
        \/ PopLoad \/ PopEmpty \/ PopCopy \/ PopDone

Spec == Init /\ [][Next]_vars

-----------------------------------------------------------------------------

\* Each index is at or ahead of the other side's stale copy of it, and the
\* copies never make the ring look roomier or fuller than it is: the producer
\* writes only a slot whose element has been consumed, the consumer reads only
\* one that has been published (lines 1105-1135).
StaleCopiesAreSafe ==
    /\ h <= head /\ head <= tail /\ t <= tail /\ tail - head <= capacity
    /\ producer = "publish" => tail - head < capacity
    /\ consumer = "release" => head < tail

\* The elements in the queue: the one in the consumer's hand has left it.
first == IF consumer = "release" THEN head + 1 ELSE head
contents == [i \in 1..(tail - first) |-> buffer[slot(first + i - 1)]]

Fifo == INSTANCE BoundedFifo WITH
          Threads  <- {"consumer"},
          Capacity <- capacity,
          queue    <- contents,
          hand     <- [c \in {"consumer"} |-> out]

\* The ring is a bounded FIFO queue between its two threads.
SPSCIsFifo == Fifo!Spec

=============================================================================
