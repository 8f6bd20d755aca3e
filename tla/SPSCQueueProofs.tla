-------------------------- MODULE SPSCQueueProofs ---------------------------
(***************************************************************************)
(* The single-producer single-consumer queue for every capacity, set of    *)
(* values and number of pushes: stale copies of the indices are safe, and  *)
(* the ring implements BoundedFifo.                                        *)
(***************************************************************************)
EXTENDS SPSCQueue, TLAPS

IndexType == /\ head \in Nat /\ tail \in Nat /\ h \in Nat /\ t \in Nat
             /\ producer \in {"idle", "check", "publish"}
             /\ consumer \in {"idle", "check", "release"}

\* Inductive: what a side has tested still holds for its own stale copy.
IndexInv == /\ IndexType
            /\ h <= head /\ head <= tail /\ t <= tail /\ tail - head <= capacity
            /\ producer = "publish" => tail - h < capacity
            /\ consumer = "release" => head < t

LEMMA IndexInit == Init => IndexInv
BY SPSCCapacity DEF Init, IndexInv, IndexType

LEMMA IndexStep == IndexInv /\ [Next]_vars => IndexInv'
<1> SUFFICES ASSUME IndexInv, [Next]_vars PROVE IndexInv'
  OBVIOUS
<1> USE SPSCCapacity DEF IndexInv, IndexType
<1>1. ASSUME NEW v \in Values, PushLoad(v) PROVE IndexInv'
  BY <1>1 DEF PushLoad
<1>2. CASE PushFull
  BY <1>2 DEF PushFull
<1>3. CASE PushCopy
  BY <1>3 DEF PushCopy
<1>4. CASE PushDone
  BY <1>4 DEF PushDone
<1>5. CASE PopLoad
  BY <1>5 DEF PopLoad
<1>6. CASE PopEmpty
  BY <1>6 DEF PopEmpty
<1>7. CASE PopCopy
  BY <1>7 DEF PopCopy
<1>8. CASE PopDone
  BY <1>8 DEF PopDone
<1>9. CASE UNCHANGED vars
  BY <1>9 DEF vars
<1> QED
  BY <1>1, <1>2, <1>3, <1>4, <1>5, <1>6, <1>7, <1>8, <1>9 DEF Next

\* For every capacity, the producer writes only a slot that has been consumed
\* and the consumer reads only one that has been published, however old their
\* copies of the indices are (lines 1107-1137).
THEOREM StaleIndicesSafe == Spec => []StaleCopiesAreSafe
<1>1. IndexInv => StaleCopiesAreSafe
  BY SPSCCapacity DEF IndexInv, IndexType, StaleCopiesAreSafe
<1> QED
  BY <1>1, IndexInit, IndexStep, PTL DEF Spec

-----------------------------------------------------------------------------
(* Slots: indices closer than the capacity do not collide.                 *)

LEMMA Multiple == \A c, q \in Int : c > 0 /\ q >= 1 => c * q >= c
OBVIOUS

LEMMA Division == ASSUME NEW a \in Nat
                  PROVE  /\ a = capacity * (a \div capacity) + slot(a)
                         /\ a \div capacity \in Int /\ slot(a) \in Int
                         /\ slot(a) \in 0..(capacity - 1)
BY SPSCCapacity DEF slot

LEMMA SlotsDiffer == ASSUME NEW a \in Nat, NEW b \in Nat, a < b, b - a < capacity
                     PROVE  slot(a) # slot(b)
<1> SUFFICES ASSUME slot(a) = slot(b) PROVE FALSE
  OBVIOUS
<1> DEFINE p == a \div capacity
           q == b \div capacity
<1>1. a = capacity * p + slot(a) /\ p \in Int /\ slot(a) \in Int
  BY Division
<1>2. b = capacity * q + slot(a) /\ q \in Int
  BY Division
<1> HIDE DEF p, q
<1>3. b - a = capacity * (q - p)
  BY <1>1, <1>2, SPSCCapacity
<1>4. q - p <= 0 => capacity * (q - p) <= 0
  BY <1>1, <1>2, SPSCCapacity
<1> QED
  BY <1>1, <1>2, <1>3, <1>4, Multiple, SPSCCapacity

-----------------------------------------------------------------------------
(* What the slots hold.                                                    *)

DataInv == /\ buffer \in [0..(capacity - 1) -> Values \cup {Nothing}]
           /\ \A i \in Nat : head <= i /\ i < tail => buffer[slot(i)] \in Values
           /\ producer \in {"check", "publish"} => element \in Values
           /\ producer = "publish" => buffer[slot(tail)] = element
           /\ consumer # "release" => out = Nothing
           /\ consumer = "release" => out \in Values

LEMMA DataInit == Init => DataInv
BY SPSCCapacity DEF Init, DataInv

\* The slot that is written is none of those in use.
LEMMA CopyKeeps == ASSUME IndexInv, DataInv, PushCopy
                   PROVE  /\ \A i \in Nat : head <= i /\ i < tail
                                => buffer'[slot(i)] = buffer[slot(i)]
                          /\ buffer'[slot(tail)] = element
                          /\ buffer' \in [0..(capacity - 1) -> Values \cup {Nothing}]
<1>1. \A i \in Nat : head <= i /\ i < tail => slot(i) # slot(tail)
  BY SlotsDiffer, SPSCCapacity DEF IndexInv, IndexType, PushCopy
<1>2. \A i \in Nat : slot(i) \in 0..(capacity - 1)
  BY Division
<1> QED
  BY <1>1, <1>2 DEF DataInv, IndexInv, IndexType, PushCopy

LEMMA DataStep == IndexInv /\ DataInv /\ [Next]_vars => DataInv'
<1> SUFFICES ASSUME IndexInv, DataInv, [Next]_vars PROVE DataInv'
  OBVIOUS
<1> USE DEF DataInv, IndexInv, IndexType
<1>1. ASSUME NEW v \in Values, PushLoad(v) PROVE DataInv'
  BY <1>1 DEF PushLoad
<1>2. CASE PushFull
  BY <1>2 DEF PushFull
<1>3. CASE PushCopy
  BY <1>3, CopyKeeps DEF PushCopy
<1>4. CASE PushDone
  BY <1>4 DEF PushDone
<1>5. CASE PopLoad
  BY <1>5 DEF PopLoad
<1>6. CASE PopEmpty
  BY <1>6 DEF PopEmpty
<1>7. CASE PopCopy
  BY <1>7, SPSCConstants DEF PopCopy
<1>8. CASE PopDone
  BY <1>8 DEF PopDone
<1>9. CASE UNCHANGED vars
  BY <1>9 DEF vars
<1> QED
  BY <1>1, <1>2, <1>3, <1>4, <1>5, <1>6, <1>7, <1>8, <1>9 DEF Next

-----------------------------------------------------------------------------
(* Refinement: the copy of a pop takes the oldest element, the publication *)
(* of a push adds one, and the rest is invisible.                          *)

\* An element of the queue, by its place.
LEMMA Contents == ASSUME IndexInv
                  PROVE  /\ tail - first \in Nat /\ first \in Nat
                         /\ Len(contents) = tail - first
                         /\ DOMAIN contents = 1..(tail - first)
                         /\ \A i \in 1..(tail - first) : contents[i] = buffer[slot(first + i - 1)]
<1>1. first \in Nat /\ tail - first \in Nat
  BY DEF IndexInv, IndexType, first
<1> QED
  BY <1>1 DEF contents

\* A step that moves no index of the queue and no element in it.
LEMMA Invisible ==
    ASSUME IndexInv, first' = first, tail' = tail, out' = out,
           \A i \in Nat : head <= i /\ i < tail => buffer'[slot(i)] = buffer[slot(i)]
    PROVE  UNCHANGED Fifo!vars
<1>1. \A i \in 1..(tail - first) : buffer'[slot(first + i - 1)] = buffer[slot(first + i - 1)]
  BY DEF IndexInv, IndexType, first
<1>2. contents' = contents
  BY <1>1 DEF contents
<1> QED
  BY <1>2 DEF Fifo!vars

LEMMA Published == ASSUME IndexInv, IndexInv', DataInv, PushDone PROVE Fifo!Push(element)
<1>1. /\ first' = first /\ tail' = tail + 1 /\ buffer' = buffer /\ out' = out
      /\ tail - first < capacity
  BY SPSCCapacity DEF PushDone, first, IndexInv, IndexType
<1>2. first \in Nat /\ tail - first \in Nat /\ tail \in Nat
  BY Contents DEF IndexInv, IndexType
<1> DEFINE n == tail - first
<1>3. contents' = [i \in 1..(n + 1) |-> buffer[slot(first + i - 1)]]
  <2>1. tail' - first' = n + 1
    BY <1>1, <1>2
  <2> QED BY <1>1, <2>1, Zenon DEF contents, slot
<1>4. buffer[slot(first + (n + 1) - 1)] = element
  <2>1. first + (n + 1) - 1 = tail
    BY <1>2
  <2> QED BY <2>1 DEF PushDone, DataInv
<1>5. /\ contents = [i \in 1..n |-> buffer[slot(first + i - 1)]]
      /\ n \in Nat /\ Len(contents) = n
  BY <1>2, Contents DEF contents
<1> HIDE DEF n
<1>6. contents' = Append(contents, element)
  <2>1. Append(contents, element) =
          [i \in 1..(n + 1) |-> IF i = n + 1 THEN element ELSE contents[i]]
    BY <1>5
  <2>2. ASSUME NEW i \in 1..(n + 1)
        PROVE  buffer[slot(first + i - 1)] = IF i = n + 1 THEN element ELSE contents[i]
    BY <1>4, <1>5
  <2> QED BY <1>3, <2>1, <2>2, Zenon
<1>7. Len(contents) < capacity
  BY <1>1, Contents
<1> QED
  BY <1>1, <1>6, <1>7 DEF Fifo!Push

LEMMA Taken == ASSUME IndexInv, IndexInv', DataInv, PopCopy PROVE Fifo!Pop("consumer")
<1>1. /\ first = head /\ first' = head + 1 /\ tail' = tail /\ buffer' = buffer
      /\ out' = buffer[slot(head)] /\ head < tail /\ out = Nothing
      /\ head \in Nat /\ tail \in Nat
  BY DEF PopCopy, first, IndexInv, IndexType, DataInv
<1>2. Len(contents) = tail - head /\ contents = [i \in 1..(tail - head) |-> buffer[slot(head + i - 1)]]
  BY <1>1, Contents DEF contents
<1>3. contents # <<>> /\ Head(contents) = out'
  BY <1>1, <1>2
<1>4. contents' = [i \in 1..(tail - (head + 1)) |-> buffer[slot(head + 1 + i - 1)]]
  BY <1>1 DEF contents
<1>5. contents' = Tail(contents)
  BY <1>1, <1>2, <1>4
<1> QED
  BY <1>1, <1>3, <1>5 DEF Fifo!Pop

LEMMA FifoStep == IndexInv /\ IndexInv' /\ DataInv /\ [Next]_vars => [Fifo!Next]_Fifo!vars
<1> SUFFICES ASSUME IndexInv, IndexInv', DataInv, [Next]_vars
             PROVE  [Fifo!Next]_Fifo!vars
  OBVIOUS
<1>1. CASE (\E v \in Values : PushLoad(v)) \/ PushFull \/ PopLoad \/ PopEmpty \/ UNCHANGED vars
  <2>1. first' = first /\ tail' = tail /\ out' = out /\ buffer' = buffer
    BY <1>1 DEF PushLoad, PushFull, PopLoad, PopEmpty, vars, first
  <2> QED
    BY <2>1, Invisible
<1>2. CASE PushCopy
  <2>1. first' = first /\ tail' = tail /\ out' = out
    BY <1>2 DEF PushCopy, first
  <2> QED
    BY <1>2, <2>1, CopyKeeps, Invisible
<1>3. CASE PushDone
  <2>1. element \in Values
    BY <1>3 DEF PushDone, DataInv
  <2> QED
    BY <1>3, <2>1, Published DEF Fifo!Next
<1>4. CASE PopCopy
  BY <1>4, Taken DEF Fifo!Next
<1>5. CASE PopDone
  <2>1. first' = first /\ tail' = tail /\ buffer' = buffer /\ out' = Nothing
    BY <1>5 DEF PopDone, first
  <2>2. contents' = contents
    BY <2>1 DEF contents
  <2>3. out # Nothing
    BY <1>5, SPSCConstants DEF PopDone, DataInv
  <2>4. Fifo!Return("consumer")
    BY <2>1, <2>2, <2>3 DEF Fifo!Return
  <2> QED
    BY <2>4 DEF Fifo!Next
<1> QED
  BY <1>1, <1>2, <1>3, <1>4, <1>5 DEF Next

\* The ring is a bounded FIFO queue for every capacity: elements come out once,
\* unchanged and in order (lines 1064-1137).
THEOREM SPSCImplementsFifo == Spec => SPSCIsFifo
<1>1. Init => Fifo!Init
  BY DEF Init, Fifo!Init, contents, first
<1>2. Init => IndexInv /\ DataInv
  BY IndexInit, DataInit
<1>3. IndexInv /\ DataInv /\ [Next]_vars => IndexInv' /\ DataInv'
  BY IndexStep, DataStep
<1> QED
  BY <1>1, <1>2, <1>3, FifoStep, PTL DEF Spec, SPSCIsFifo, Fifo!Spec
=============================================================================
