-------------------------- MODULE SemaphoreProofs ---------------------------
(***************************************************************************)
(* The semaphore for any finite set of threads, initial count and number   *)
(* of posts: permits are conserved, and no post is lost on a sleeper.      *)
(***************************************************************************)
EXTENDS Semaphore, FiniteSetTheorems, TLAPS

SemaphoreType == /\ count \in Int /\ posted \in Int /\ taken \in Int
                 /\ pc \in [Threads -> Labels]
                 /\ c \in [Threads -> Int]

PermitInv == SemaphoreType /\ SemaphoreInv

\* Threads that will look at the counter or wake a sleeper.
Active == Cardinality(AwakeWaiters) + Cardinality(PendingWakes)

LEMMA ActiveFinite == ASSUME IsFiniteSet(Threads)
                      PROVE  /\ IsFiniteSet(AwakeWaiters) /\ IsFiniteSet(PendingWakes)
                             /\ Cardinality(AwakeWaiters) \in Nat
                             /\ Cardinality(PendingWakes) \in Nat
<1>1. AwakeWaiters \subseteq Threads /\ PendingWakes \subseteq Threads
  BY DEF AwakeWaiters, PendingWakes
<1> QED
  BY <1>1, FS_Subset, FS_CardinalityType

LEMMA ActiveAfter == ASSUME IsFiniteSet(Threads) PROVE Active' \in Nat
<1>1. AwakeWaiters' \subseteq Threads /\ PendingWakes' \subseteq Threads
  BY DEF AwakeWaiters, PendingWakes
<1>2. Cardinality(AwakeWaiters') \in Nat /\ Cardinality(PendingWakes') \in Nat
  BY <1>1, FS_Subset, FS_CardinalityType
<1> QED
  BY <1>2 DEF Active

\* What becomes of Active when one thread moves on.
Weight(l) == IF l \in {"load", "cas", "wait", "wake"} THEN 1 ELSE 0

LEMMA OneMoves ==
    ASSUME IsFiniteSet(Threads), SemaphoreType, NEW t \in Threads, NEW l \in Labels, Goto(t, l)
    PROVE  Active' = Active - Weight(pc[t]) + Weight(l)
<1> DEFINE A == {u \in Threads \ {t} : pc[u] \in {"load", "cas", "wait"}}
           P == {u \in Threads \ {t} : pc[u] = "wake"}
<1>1. IsFiniteSet(A) /\ IsFiniteSet(P) /\ t \notin A /\ t \notin P
  BY FS_Subset
<1>2. Cardinality(A) \in Nat /\ Cardinality(P) \in Nat
  BY <1>1, FS_CardinalityType
<1>3. /\ Cardinality(A \cup {t}) = Cardinality(A) + 1
      /\ Cardinality(P \cup {t}) = Cardinality(P) + 1
  BY <1>1, FS_AddElement
<1>4. /\ AwakeWaiters = IF pc[t] \in {"load", "cas", "wait"} THEN A \cup {t} ELSE A
      /\ PendingWakes = IF pc[t] = "wake" THEN P \cup {t} ELSE P
  BY DEF AwakeWaiters, PendingWakes
<1>5. /\ AwakeWaiters' = IF l \in {"load", "cas", "wait"} THEN A \cup {t} ELSE A
      /\ PendingWakes' = IF l = "wake" THEN P \cup {t} ELSE P
  BY DEF AwakeWaiters, PendingWakes, Goto, SemaphoreType
<1> HIDE DEF A, P
<1>6. Active = Cardinality(A) + Cardinality(P) + Weight(pc[t])
  BY <1>2, <1>3, <1>4 DEF Active, Weight, SemaphoreType, Labels
<1>7. Active' = Cardinality(A) + Cardinality(P) + Weight(l)
  BY <1>2, <1>3, <1>5 DEF Active, Weight, Labels
<1> QED
  BY <1>2, <1>6, <1>7 DEF Weight

LEMMA TypeStep == ASSUME SemaphoreType, PermitsConserved, Initial \in Int, [Next]_vars
                  PROVE  SemaphoreType' /\ PermitsConserved'
<1> USE DEF SemaphoreType, PermitsConserved, Goto, Labels
<1>1. ASSUME NEW t \in Threads, WaitCall(t) \/ TryLoad(t) \/ Post(t)
      PROVE  SemaphoreType' /\ PermitsConserved'
  BY <1>1 DEF WaitCall, TryLoad, Post
<1>2. ASSUME NEW t \in Threads, Load(t) \/ Cas(t) \/ FutexWait(t) \/ TryCas(t)
      PROVE  SemaphoreType' /\ PermitsConserved'
  BY <1>2 DEF Load, Cas, FutexWait, TryCas
<1>3. ASSUME NEW t \in Threads, Wake(t) \/ SpuriousFailure(t) \/ SpuriousWake(t)
      PROVE  SemaphoreType' /\ PermitsConserved'
  BY <1>3 DEF Wake, SpuriousFailure, SpuriousWake
<1>4. CASE UNCHANGED vars
  BY <1>4 DEF vars
<1> QED
  BY <1>1, <1>2, <1>3, <1>4 DEF Next, Continue

\* A permit is taken by a waiter that then leaves, and a post adds a waker.
LEMMA NoPostLost ==
    ASSUME IsFiniteSet(Threads), PermitInv, SemaphoreType', [Next]_vars PROVE NoLostPost'
<1> USE DEF PermitInv, SemaphoreInv, SemaphoreType
<1> DEFINE Bounded == Sleepers # {} => count <= Active
<1>1. Bounded /\ Active \in Nat
  BY ActiveFinite DEF NoLostPost, Active
<1>2. SUFFICES Bounded'
  BY DEF NoLostPost, Active
<1>3. ASSUME NEW t \in Threads, NEW l \in Labels, Goto(t, l), l # "asleep",
             count' - count <= Weight(l) - Weight(pc[t])
      PROVE  Bounded'
  <2>1. Sleepers' \subseteq Sleepers
    BY <1>3 DEF Sleepers, Goto
  <2>2. Active' = Active - Weight(pc[t]) + Weight(l)
    BY <1>3, OneMoves
  <2>3. Weight(l) \in Int /\ Weight(pc[t]) \in Int /\ count' \in Int
    BY <1>3 DEF Weight
  <2> QED
    BY <1>1, <1>3, <2>1, <2>2, <2>3
<1> HIDE DEF Bounded
<1>4. ASSUME NEW t \in Threads, WaitCall(t) \/ Post(t) \/ TryLoad(t) PROVE Bounded'
  <2>1. CASE WaitCall(t)
    <3>1. Goto(t, "load") /\ count' - count <= Weight("load") - Weight(pc[t])
      BY <2>1 DEF WaitCall, Weight
    <3> QED BY <1>3, <3>1 DEF Labels
  <2>2. CASE Post(t)
    <3>1. Goto(t, "wake") /\ count' - count <= Weight("wake") - Weight(pc[t])
      BY <2>2 DEF Post, Weight
    <3> QED BY <1>3, <3>1 DEF Labels
  <2>3. CASE TryLoad(t)
    <3>1. Goto(t, "trycas") /\ count' - count <= Weight("trycas") - Weight(pc[t])
      BY <2>3 DEF TryLoad, Weight
    <3> QED BY <1>3, <3>1 DEF Labels
  <2> QED BY <1>4, <2>1, <2>2, <2>3
<1>5. ASSUME NEW t \in Threads, Load(t) \/ SpuriousFailure(t) \/ SpuriousWake(t) PROVE Bounded'
  <2>1. CASE Load(t)
    <3>1. count' - count <= Weight("cas") - Weight(pc[t])
          /\ count' - count <= Weight("wait") - Weight(pc[t])
      BY <2>1, <1>1 DEF Load, Weight
    <3>2. Goto(t, "cas") \/ Goto(t, "wait")
      BY <2>1 DEF Load
    <3> QED BY <1>3, <3>1, <3>2 DEF Labels
  <2>2. CASE SpuriousFailure(t) \/ SpuriousWake(t)
    <3>1. Goto(t, "load") /\ count' - count <= Weight("load") - Weight(pc[t])
      <4>1. CASE SpuriousFailure(t)
        BY <4>1 DEF SpuriousFailure, Weight
      <4>2. CASE SpuriousWake(t)
        BY <4>2 DEF SpuriousWake, Weight
      <4> QED BY <2>2, <4>1, <4>2
    <3> QED BY <1>3, <3>1 DEF Labels
  <2> QED BY <1>5, <2>1, <2>2
<1>6. ASSUME NEW t \in Threads, Cas(t) \/ TryCas(t) PROVE Bounded'
  <2>1. CASE Goto(t, "idle") /\ count' \in {count, count - 1} /\
             (pc[t] = "trycas" \/ (pc[t] = "cas" /\ count' = count - 1))
    <3>1. count' - count <= Weight("idle") - Weight(pc[t])
      <4>1. CASE pc[t] = "trycas"
        <5>1. Weight(pc[t]) = 0 /\ Weight("idle") = 0
          BY <4>1 DEF Weight
        <5>2. count' <= count /\ count \in Int /\ count' \in Int
          BY <2>1
        <5> QED BY <5>1, <5>2
      <4>2. CASE pc[t] = "cas" /\ count' = count - 1
        BY <4>2 DEF Weight
      <4> QED BY <2>1, <4>1, <4>2
    <3> QED BY <1>3, <2>1, <3>1 DEF Labels
  <2>2. CASE Goto(t, "load") /\ Cas(t) /\ count' = count
    <3>1. count' - count <= Weight("load") - Weight(pc[t])
      BY <2>2 DEF Cas, Weight
    <3> QED BY <1>3, <2>2, <3>1 DEF Labels
  <2> QED BY <1>6, <2>1, <2>2 DEF Cas, TryCas
<1>7. ASSUME NEW t \in Threads, FutexWait(t) PROVE Bounded'
  <2>1. CASE count = 0
    <3>1. Active' \in Nat /\ count' = 0
      BY <1>7, <2>1, ActiveFinite, ActiveAfter DEF FutexWait
    <3> QED BY <3>1 DEF Bounded
  <2>2. CASE count # 0
    <3>1. Goto(t, "load") /\ count' - count <= Weight("load") - Weight(pc[t])
      BY <1>7, <2>2 DEF FutexWait, Weight
    <3> QED BY <1>3, <3>1 DEF Labels
  <2> QED BY <2>1, <2>2
<1>8. ASSUME NEW t \in Threads, Wake(t) PROVE Bounded'
  <2>1. CASE \A u \in Threads : pc[u] # "asleep"
    BY <1>8, <2>1 DEF Wake, Sleepers, Goto, Bounded
  <2>2. ASSUME NEW u \in Threads, pc[u] = "asleep",
               pc' = [pc EXCEPT ![u] = "load", ![t] = "idle"]
        PROVE  Bounded'
    <3>1. pc[t] = "wake" /\ count' = count
      BY <1>8 DEF Wake
    <3>2. /\ u \notin AwakeWaiters /\ AwakeWaiters' = AwakeWaiters \cup {u}
          /\ t \in PendingWakes /\ PendingWakes' = PendingWakes \ {t}
          /\ Sleepers # {}
      BY <2>2, <3>1 DEF AwakeWaiters, PendingWakes, Sleepers
    <3>3. /\ Cardinality(AwakeWaiters \cup {u}) = Cardinality(AwakeWaiters) + 1
          /\ Cardinality(PendingWakes \ {t}) = Cardinality(PendingWakes) - 1
      BY <3>2, ActiveFinite, FS_AddElement, FS_RemoveElement
    <3>4. Active' = Active
      BY <3>2, <3>3, ActiveFinite DEF Active
    <3> QED BY <1>1, <3>1, <3>2, <3>4 DEF Bounded
  <2> QED BY <1>8, <2>1, <2>2 DEF Wake
<1>9. CASE UNCHANGED vars
  BY <1>1, <1>9 DEF vars, Active, Sleepers, AwakeWaiters, PendingWakes, Bounded
<1> QED
  BY <1>4, <1>5, <1>6, <1>7, <1>8, <1>9 DEF Next, Continue

\* The counter is the permits that there are, and whenever a thread sleeps every
\* permit has somebody who will take it or wake a sleeper for it, for any
\* number of threads and posts (lines 900-935).
THEOREM SemaphoreSound ==
    ASSUME IsFiniteSet(Threads), Initial \in Int PROVE Spec => []SemaphoreInv
<1>1. Init => PermitInv
  <2> SUFFICES ASSUME Init PROVE PermitInv
    OBVIOUS
  <2>1. Sleepers = {}
    BY DEF Init, Sleepers
  <2> QED
    BY <2>1 DEF Init, PermitInv, SemaphoreType, SemaphoreInv, PermitsConserved, NoLostPost,
                Labels
<1>2. PermitInv /\ [Next]_vars => PermitInv'
  BY TypeStep, NoPostLost DEF PermitInv, SemaphoreInv
<1>3. PermitInv => SemaphoreInv
  BY DEF PermitInv
<1> QED
  BY <1>1, <1>2, <1>3, PTL DEF Spec
=============================================================================
