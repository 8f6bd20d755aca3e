------------------------------ MODULE Barrier -------------------------------
(***************************************************************************)
(* lgx_barrier_t, used again and again by exactly `threshold' threads: the *)
(* last to arrive resets the count and then advances the generation the    *)
(* others spin on.                                                         *)
(***************************************************************************)
EXTENDS Integers, FiniteSets, FiniteSetTheorems, TLAPS

CONSTANTS Threads,
          GenMod,       \* 2^32: the generation is a uint32_t and wraps
          MaxRounds     \* bound: waits each thread makes

threshold == Cardinality(Threads)

VARIABLES count,        \* barrier->count
          generation,   \* barrier->generation
          pc,           \* next atomic step of each thread
          gen,          \* the local `gen' of lgx_barrier_wait
          arrived,      \* rounds each thread has arrived at (its fetch_add)
          left          \* rounds each thread has returned from

vars == <<count, generation, pc, gen, arrived, left>>

Labels == {"outside", "arrive", "reset", "advance", "spin"}

Goto(t, l) == pc' = [pc EXCEPT ![t] = l]

Leave(t) == left' = [left EXCEPT ![t] = @ + 1] /\ Goto(t, "outside")

\* lgx_barrier_create
Init == /\ count = 0
        /\ generation = 0
        /\ pc = [t \in Threads |-> "outside"]
        /\ gen = [t \in Threads |-> 0]
        /\ arrived = [t \in Threads |-> 0]
        /\ left = [t \in Threads |-> 0]

\* lgx_barrier_wait: load the generation ...
LoadGen(t) == /\ pc[t] = "outside"
              /\ left[t] < MaxRounds
              /\ gen' = [gen EXCEPT ![t] = generation]
              /\ Goto(t, "arrive")
              /\ UNCHANGED <<count, generation, arrived, left>>

\* Mutant of Arrive: the last arrival is taken one thread too early.
ArriveOffByOne(t) == /\ pc[t] = "arrive"
                     /\ count' = count + 1
                     /\ arrived' = [arrived EXCEPT ![t] = @ + 1]
                     /\ Goto(t, IF count = threshold - 1 \/ count + 2 = threshold
                                THEN "reset" ELSE "spin")
                     /\ UNCHANGED <<generation, gen, left>>

\* ... then fetch_add the count and compare with the threshold.
Arrive(t) == /\ pc[t] = "arrive"
             /\ count' = count + 1
             /\ arrived' = [arrived EXCEPT ![t] = @ + 1]
             /\ Goto(t, IF count + 1 = threshold THEN "reset" ELSE "spin")
             /\ UNCHANGED <<generation, gen, left>>

Reset(t) == /\ pc[t] = "reset"
            /\ count' = 0
            /\ Goto(t, "advance")
            /\ UNCHANGED <<generation, gen, arrived, left>>

Advance(t) == /\ pc[t] = "advance"
              /\ generation' = (generation + 1) % GenMod
              /\ Leave(t)
              /\ UNCHANGED <<count, gen, arrived>>

\* The loop's load finds another generation; finding the same changes nothing.
Released(t) == /\ pc[t] = "spin"
               /\ generation # gen[t]
               /\ Leave(t)
               /\ UNCHANGED <<count, generation, gen, arrived>>

Step(t) == LoadGen(t) \/ Arrive(t) \/ Reset(t) \/ Advance(t) \/ Released(t)

Next == \E t \in Threads : Step(t)

Spec == Init /\ [][Next]_vars

\* Every thread is scheduled and comes back for its next round.
FairSpec == Spec /\ \A t \in Threads : WF_vars(Step(t))

-----------------------------------------------------------------------------

\* Nobody leaves a round before everybody has arrived at it, however far the
\* fast threads run into the next rounds and however the generation wraps.
NobodyLeavesEarly == \A t, u \in Threads : left[t] <= arrived[u]

\* Every round ends for everybody.
EveryRoundEnds == <>(\A t \in Threads : left[t] = MaxRounds)

-----------------------------------------------------------------------------
(* Proof that nobody leaves early, for any number of threads and any width   *)
(* of the generation above one value.                                        *)

\* The threads that have arrived at the round after the first r.
Here(r) == {t \in Threads : arrived[t] = r + 1}

BarrierType == /\ generation \in 0..(GenMod - 1)
               /\ count \in Nat
               /\ pc \in [Threads -> Labels]
               /\ gen \in [Threads -> 0..(GenMod - 1)]
               /\ arrived \in [Threads -> Nat] /\ left \in [Threads -> Nat]

\* Where thread t is when r rounds are over.  One that waits in the current round
\* holds the current generation; one that has not noticed the end of the last
\* round holds another.
Place(r, t) ==
  \/ pc[t] = "outside" /\ left[t] = r /\ arrived[t] = r
  \/ pc[t] = "arrive" /\ left[t] = r /\ arrived[t] = r /\ gen[t] = generation
  \/ pc[t] = "spin" /\ left[t] = r /\ arrived[t] = r + 1 /\ gen[t] = generation
  \/ pc[t] = "spin" /\ left[t] + 1 = r /\ arrived[t] = r /\ gen[t] # generation
  \/ pc[t] \in {"reset", "advance"} /\ left[t] = r /\ arrived[t] = r + 1

\* The last to arrive is alone: everybody else waits in the current round.
LastIsAlone(r) ==
  \A t \in Threads : pc[t] \in {"reset", "advance"} =>
    \A u \in Threads \ {t} : pc[u] = "spin" /\ arrived[u] = r + 1

\* Until the reset the count is that of the threads that are here.
Counted(r) ==
  (\A t \in Threads : pc[t] # "advance") => count = Cardinality(Here(r))

CountReset == (\E t \in Threads : pc[t] = "advance") => count = 0

RoundInv(r) == /\ \A t \in Threads : Place(r, t)
               /\ LastIsAlone(r) /\ Counted(r) /\ CountReset

BarrierInv == BarrierType /\ \E r \in Nat : RoundInv(r)

\* The next generation is another one, also when it wraps.
LEMMA NextGeneration ==
  ASSUME GenMod \in Nat, GenMod > 1, NEW g \in 0..(GenMod - 1)
  PROVE  (g + 1) % GenMod \in 0..(GenMod - 1) /\ (g + 1) % GenMod # g
<1>1. CASE g + 1 < GenMod
  BY <1>1
<1>2. CASE g + 1 = GenMod
  BY <1>2
<1> QED BY <1>1, <1>2

LEMMA HereFinite ==
  ASSUME IsFiniteSet(Threads), NEW r
  PROVE  /\ IsFiniteSet(Here(r)) /\ Cardinality(Here(r)) \in Nat
         /\ Cardinality(Here(r)) = Cardinality(Threads) => Here(r) = Threads
BY FS_Subset, FS_CardinalityType DEF Here

LEMMA BarrierInit == ASSUME GenMod \in Nat, GenMod > 1, Init PROVE BarrierInv
<1>1. BarrierType
  BY DEF Init, BarrierType, Labels
<1>2. Here(0) = {}
  BY DEF Init, Here
<1>3. Cardinality({}) = 0
  BY FS_EmptySet
<1>4. RoundInv(0)
  BY <1>2, <1>3 DEF Init, RoundInv, Place, LastIsAlone, Counted, CountReset
<1> QED BY <1>1, <1>4 DEF BarrierInv

\* Steps that begin a call, reset the count or leave a round that is over.
LEMMA SameRound ==
  ASSUME BarrierType, NEW r \in Nat, RoundInv(r), NEW t \in Threads,
         LoadGen(t) \/ Reset(t) \/ Released(t)
  PROVE  RoundInv(r)'
<1> USE DEF BarrierType, Labels, Goto, Leave
<1>1. arrived' = arrived /\ generation' = generation
  BY DEF LoadGen, Reset, Released
<1>2. Here(r)' = Here(r)
  BY <1>1 DEF Here
<1>3. CASE LoadGen(t)
  <2>1. pc[t] = "outside" /\ left[t] = r /\ arrived[t] = r
    BY <1>3 DEF LoadGen, RoundInv, Place
  <2>2. \A u \in Threads : Place(r, u)'
    BY <1>3, <2>1 DEF LoadGen, RoundInv, Place
  <2>3. LastIsAlone(r)'
    BY <1>3, <2>1 DEF LoadGen, RoundInv, LastIsAlone
  <2>4. Counted(r)' /\ CountReset'
    BY <1>3, <1>2, <2>1 DEF LoadGen, RoundInv, Counted, CountReset
  <2> QED BY <2>2, <2>3, <2>4 DEF RoundInv
<1>4. CASE Reset(t)
  <2>1. \A u \in Threads : Place(r, u)'
    BY <1>4 DEF Reset, RoundInv, Place
  <2>2. LastIsAlone(r)'
    BY <1>4 DEF Reset, RoundInv, LastIsAlone
  <2>3. Counted(r)' /\ CountReset'
    BY <1>4 DEF Reset, Counted, CountReset
  <2> QED BY <2>1, <2>2, <2>3 DEF RoundInv
<1>5. CASE Released(t)
  <2>1. pc[t] = "spin" /\ left[t] + 1 = r /\ arrived[t] = r
    BY <1>5 DEF Released, RoundInv, Place
  <2>2. \A u \in Threads : Place(r, u)'
    BY <1>5, <2>1 DEF Released, RoundInv, Place
  <2>3. LastIsAlone(r)'
    BY <1>5, <2>1 DEF Released, RoundInv, LastIsAlone
  <2>4. Counted(r)' /\ CountReset'
    BY <1>5, <1>2, <2>1 DEF Released, RoundInv, Counted, CountReset
  <2> QED BY <2>2, <2>3, <2>4 DEF RoundInv
<1> QED BY <1>3, <1>4, <1>5

\* A thread arrives, perhaps as the last one.
LEMMA Arrival ==
  ASSUME IsFiniteSet(Threads), BarrierType, NEW r \in Nat, RoundInv(r),
         NEW t \in Threads, Arrive(t)
  PROVE  RoundInv(r)'
<1> USE DEF BarrierType, Labels, Goto
<1>1. pc[t] = "arrive" /\ left[t] = r /\ arrived[t] = r /\ gen[t] = generation
  BY DEF Arrive, RoundInv, Place
<1>2. \A u \in Threads : pc[u] \notin {"reset", "advance"}
  BY <1>1 DEF RoundInv, LastIsAlone
<1>3. t \notin Here(r) /\ Here(r)' = Here(r) \cup {t}
  BY <1>1 DEF Here, Arrive
<1>4. Cardinality(Here(r) \cup {t}) = Cardinality(Here(r)) + 1
  BY <1>3, HereFinite, FS_AddElement
<1>5. count = Cardinality(Here(r)) /\ count' = Cardinality(Here(r)')
  BY <1>2, <1>3, <1>4 DEF RoundInv, Counted, Arrive
<1>6. \A u \in Threads : Place(r, u)'
  BY <1>1 DEF Arrive, RoundInv, Place
<1>7. LastIsAlone(r)'
  <2>1. CASE count + 1 = threshold
    <3>1. Cardinality(Here(r) \cup {t}) = Cardinality(Threads)
      BY <1>4, <1>5, <2>1 DEF threshold
    <3>2. Here(r) \cup {t} \subseteq Threads
      BY DEF Here
    <3>3. Here(r) \cup {t} = Threads
      BY <3>1, <3>2, FS_Subset
    <3>4. \A u \in Threads \ {t} : arrived[u] = r + 1 /\ pc[u] = "spin"
      BY <1>2, <3>3 DEF Here, RoundInv, Place
    <3> QED BY <1>2, <3>4 DEF LastIsAlone, Arrive
  <2>2. CASE count + 1 # threshold
    BY <1>2, <2>2 DEF LastIsAlone, Arrive
  <2> QED BY <2>1, <2>2
<1>8. Counted(r)' /\ CountReset'
  BY <1>2, <1>5 DEF Arrive, Counted, CountReset
<1> QED BY <1>6, <1>7, <1>8 DEF RoundInv

\* The generation advances: the round is over.
LEMMA NewRound ==
  ASSUME GenMod \in Nat, GenMod > 1, BarrierType, NEW r \in Nat, RoundInv(r),
         NEW t \in Threads, Advance(t)
  PROVE  RoundInv(r + 1)'
<1> USE DEF BarrierType, Labels, Goto, Leave
<1>1. pc[t] = "advance" /\ left[t] = r /\ arrived[t] = r + 1
  BY DEF Advance, RoundInv, Place
<1>2. \A u \in Threads \ {t} :
        pc[u] = "spin" /\ left[u] = r /\ arrived[u] = r + 1 /\ gen[u] = generation
  BY <1>1 DEF RoundInv, LastIsAlone, Place
<1>3. generation' # generation
  BY NextGeneration DEF Advance
<1>4. \A u \in Threads : Place(r + 1, u)'
  BY <1>1, <1>2, <1>3 DEF Advance, Place
<1>5. \A u \in Threads : pc'[u] \in {"outside", "spin"}
  BY <1>1, <1>2 DEF Advance
<1>6. Here(r + 1)' = {}
  BY <1>1, <1>2 DEF Here, Advance
<1>7. count' = 0
  BY <1>1 DEF RoundInv, CountReset, Advance
<1>8. LastIsAlone(r + 1)' /\ Counted(r + 1)' /\ CountReset'
  BY <1>5, <1>6, <1>7, FS_EmptySet DEF LastIsAlone, Counted, CountReset
<1> QED BY <1>4, <1>8 DEF RoundInv

LEMMA BarrierStep ==
  ASSUME IsFiniteSet(Threads), GenMod \in Nat, GenMod > 1, BarrierInv, [Next]_vars
  PROVE  BarrierInv'
<1> PICK r \in Nat : RoundInv(r)
  BY DEF BarrierInv
<1>1. BarrierType
  BY DEF BarrierInv
<1>2. BarrierType'
  BY <1>1, NextGeneration
     DEF Next, Step, LoadGen, Arrive, Reset, Advance, Released, Leave, Goto, vars,
         BarrierType, Labels
<1>3. ASSUME NEW t \in Threads, Step(t) PROVE RoundInv(r)' \/ RoundInv(r + 1)'
  BY <1>1, <1>3, SameRound, Arrival, NewRound DEF Step
<1>4. ASSUME UNCHANGED vars PROVE RoundInv(r)'
  <2>1. Here(r)' = Here(r)
    BY <1>4 DEF vars, Here
  <2> QED
    BY <1>4, <2>1 DEF vars, RoundInv, Place, LastIsAlone, Counted, CountReset
<1>5. RoundInv(r)' \/ RoundInv(r + 1)'
  BY <1>3, <1>4 DEF Next
<1> QED BY <1>2, <1>5 DEF BarrierInv

\* Nobody returns from a round that somebody has not arrived at, for any number of
\* threads and any generation that takes two values or more: a thread that is slow
\* to notice the end of a round holds the next one up, so the generation cannot wrap
\* past it (lines 877-893).
THEOREM BarrierHoldsBack ==
  ASSUME IsFiniteSet(Threads), GenMod \in Nat, GenMod > 1
  PROVE  Spec => []NobodyLeavesEarly
<1>1. Init => BarrierInv
  BY BarrierInit
<1>2. BarrierInv /\ [Next]_vars => BarrierInv'
  BY BarrierStep
<1>3. BarrierInv => NobodyLeavesEarly
  <2> SUFFICES ASSUME BarrierInv PROVE NobodyLeavesEarly
    OBVIOUS
  <2> PICK r \in Nat : RoundInv(r)
    BY DEF BarrierInv
  <2>1. \A t \in Threads : left[t] <= r /\ r <= arrived[t]
    BY DEF BarrierInv, BarrierType, RoundInv, Place
  <2> QED BY <2>1 DEF BarrierInv, BarrierType, NobodyLeavesEarly
<1> QED
  BY <1>1, <1>2, <1>3, PTL DEF Spec
=============================================================================
