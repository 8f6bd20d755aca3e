--------------------------- MODULE RWLockProofs ----------------------------
(***************************************************************************)
(* The read-write lock for any set of threads that a reader count can      *)
(* hold: the word counts the holders, and the lock implements LockSpec.    *)
(***************************************************************************)
EXTENDS RWLock, FiniteSetTheorems, TLAPS

\* Inductive: a reader about to compare and swap has seen no writer bit.
RWInv == /\ state \in Nat
         /\ pc \in [Threads -> Labels]
         /\ s \in [Threads -> Nat]
         /\ \A t \in Threads : pc[t] = "rcas" => s[t] < WRITER_BIT
         /\ WordCountsHolders
         /\ Writers # {} => Readers = {}
         /\ \A t, u \in Writers : t = u

\* The holders form a finite set, smaller than the writer bit.
LEMMA ReadersFinite == ASSUME ThreadsFit
                       PROVE  /\ IsFiniteSet(Readers)
                              /\ Cardinality(Readers) \in Nat
                              /\ Cardinality(Readers) < WRITER_BIT
                              /\ Cardinality(Readers) = 0 <=> Readers = {}
<1>1. Readers \subseteq Threads
  BY DEF Readers
<1>2. IsFiniteSet(Readers) /\ Cardinality(Readers) <= Cardinality(Threads)
  BY <1>1, FS_Subset DEF ThreadsFit
<1>3. Cardinality(Readers) \in Nat /\ Cardinality(Threads) \in Nat
  BY <1>2, FS_CardinalityType DEF ThreadsFit
<1> QED
  BY <1>2, <1>3, FS_EmptySet DEF ThreadsFit

LEMMA RWInit == Init => RWInv
<1> SUFFICES ASSUME Init PROVE RWInv
  OBVIOUS
<1>1. Readers = {} /\ Writers = {}
  BY DEF Init, Readers, Writers
<1> QED
  BY <1>1, FS_EmptySet DEF Init, RWInv, WordCountsHolders, Labels

\* Steps that change no holder.
LEMMA SameHolders ==
    ASSUME ThreadsFit, RWInv, NEW t \in Threads,
           ReadCall(t) \/ WriteCall(t) \/ ReadLoad(t) \/ SpuriousFailure(t)
             \/ (ReadCas(t) /\ state # s[t])
    PROVE  RWInv' /\ Readers' = Readers /\ Writers' = Writers
<1> USE DEF RWInv, Labels, Goto
<1>1. Readers' = Readers /\ Writers' = Writers
  BY DEF ReadCall, WriteCall, ReadLoad, SpuriousFailure, ReadCas, Readers, Writers
<1>2. /\ state' \in Nat /\ pc' \in [Threads -> Labels] /\ s' \in [Threads -> Nat]
      /\ state' = state
  BY DEF ReadCall, WriteCall, ReadLoad, SpuriousFailure, ReadCas
<1>3. ASSUME NEW u \in Threads, pc'[u] = "rcas" PROVE s'[u] < WRITER_BIT
  <2>1. CASE ReadLoad(t)
    BY <1>3, <2>1 DEF ReadLoad, WriterBitSet, ThreadsFit
  <2> QED
    BY <1>3, <2>1 DEF ReadCall, WriteCall, SpuriousFailure, ReadCas
<1>4. WordCountsHolders'
  BY <1>1, <1>2 DEF WordCountsHolders
<1> QED
  BY <1>1, <1>2, <1>3, <1>4

\* A reader comes: the word it compared had no writer bit, so there is no writer.
LEMMA ReaderComes ==
    ASSUME ThreadsFit, RWInv, NEW t \in Threads, ReadCas(t), state = s[t]
    PROVE  /\ RWInv' /\ Writers = {} /\ Writers' = {}
           /\ t \notin Readers /\ Readers' = Readers \cup {t}
<1> USE DEF RWInv, Labels, Goto
<1>1. /\ pc[t] = "rcas" /\ pc' = [pc EXCEPT ![t] = "reading"]
      /\ state' = state + 1 /\ s' = s /\ state < WRITER_BIT
  BY DEF ReadCas
<1>2. Writers = {}
  BY <1>1 DEF WordCountsHolders, ThreadsFit
<1>3. t \notin Readers /\ Readers' = Readers \cup {t} /\ Writers' = {}
  BY <1>1, <1>2 DEF Readers, Writers
<1>4. Cardinality(Readers') = Cardinality(Readers) + 1
  BY <1>3, ReadersFinite, FS_AddElement
<1>5. WordCountsHolders'
  BY <1>1, <1>2, <1>3, <1>4 DEF WordCountsHolders
<1> QED
  BY <1>1, <1>2, <1>3, <1>5

LEMMA ReaderGoes ==
    ASSUME ThreadsFit, RWInv, NEW t \in Threads, ReadUnlock(t)
    PROVE  /\ RWInv' /\ Writers = {} /\ Writers' = {}
           /\ t \in Readers /\ Readers' = Readers \ {t}
<1> USE DEF RWInv, Labels, Goto
<1>1. /\ pc[t] = "reading" /\ pc' = [pc EXCEPT ![t] = "idle"]
      /\ state' = state - 1 /\ s' = s
  BY DEF ReadUnlock
<1>2. Writers = {} /\ t \in Readers
  BY <1>1 DEF Readers
<1>3. Readers' = Readers \ {t} /\ Writers' = {}
  BY <1>1, <1>2 DEF Readers, Writers
<1>4. /\ Cardinality(Readers') = Cardinality(Readers) - 1
      /\ Cardinality(Readers) > 0
  <2>1. Cardinality(Readers \ {t}) = Cardinality(Readers) - 1
    BY <1>2, ReadersFinite, FS_RemoveElement
  <2>2. Cardinality(Readers) > 0
    BY <1>2, ReadersFinite
  <2> QED BY <1>3, <2>1, <2>2
<1>5. WordCountsHolders' /\ state' \in Nat
  BY <1>1, <1>2, <1>3, <1>4, ReadersFinite DEF WordCountsHolders
<1> QED
  BY <1>1, <1>2, <1>3, <1>5

LEMMA WriterComes ==
    ASSUME ThreadsFit, RWInv, NEW t \in Threads, WriteCas(t)
    PROVE  /\ RWInv' /\ Writers = {} /\ Readers = {}
           /\ Writers' = {t} /\ Readers' = {}
<1> USE DEF RWInv, Labels, Goto
<1>1. /\ pc[t] = "wcas" /\ pc' = [pc EXCEPT ![t] = "writing"]
      /\ state = 0 /\ state' = WRITER_BIT /\ s' = s
  BY DEF WriteCas
<1>2. WRITER_BIT > 0 /\ WRITER_BIT \in Nat
  BY ReadersFinite DEF ThreadsFit
<1>3. Writers = {} /\ Readers = {}
  BY <1>1, <1>2, ReadersFinite DEF WordCountsHolders
<1>4. Writers' = {t} /\ Readers' = {}
  BY <1>1, <1>3 DEF Readers, Writers
<1>5. WordCountsHolders'
  BY <1>1, <1>4 DEF WordCountsHolders
<1> QED
  BY <1>1, <1>2, <1>3, <1>4, <1>5

LEMMA WriterGoes ==
    ASSUME ThreadsFit, RWInv, NEW t \in Threads, WriteUnlock(t)
    PROVE  /\ RWInv' /\ Writers = {t} /\ Readers = {}
           /\ Writers' = {} /\ Readers' = {}
<1> USE DEF RWInv, Labels, Goto
<1>1. /\ pc[t] = "writing" /\ pc' = [pc EXCEPT ![t] = "idle"]
      /\ state' = 0 /\ s' = s
  BY DEF WriteUnlock
<1>2. Writers = {t} /\ Readers = {}
  BY <1>1 DEF Writers
<1>3. Writers' = {} /\ Readers' = {}
  BY <1>1, <1>2 DEF Readers, Writers
<1>4. WordCountsHolders'
  BY <1>1, <1>3, FS_EmptySet DEF WordCountsHolders
<1> QED
  BY <1>1, <1>2, <1>3, <1>4

LEMMA RWStep == ASSUME ThreadsFit, RWInv, [Next]_vars
                PROVE  RWInv' /\ [Lock!Next]_Lock!vars
<1> USE DEF Lock!Next, Lock!vars, Lock!AcquireRead, Lock!AcquireWrite, Lock!ReleaseRead,
            Lock!ReleaseWrite
<1>1. ASSUME NEW t \in Threads,
             ReadCall(t) \/ WriteCall(t) \/ ReadLoad(t) \/ SpuriousFailure(t)
               \/ (ReadCas(t) /\ state # s[t])
      PROVE  RWInv' /\ [Lock!Next]_Lock!vars
  BY <1>1, SameHolders
<1>2. ASSUME NEW t \in Threads, ReadCas(t), state = s[t]
      PROVE  RWInv' /\ [Lock!Next]_Lock!vars
  BY <1>2, ReaderComes
<1>3. ASSUME NEW t \in Threads, ReadUnlock(t)
      PROVE  RWInv' /\ [Lock!Next]_Lock!vars
  BY <1>3, ReaderGoes
<1>4. ASSUME NEW t \in Threads, WriteCas(t)
      PROVE  RWInv' /\ [Lock!Next]_Lock!vars
  BY <1>4, WriterComes
<1>5. ASSUME NEW t \in Threads, WriteUnlock(t)
      PROVE  RWInv' /\ [Lock!Next]_Lock!vars
  BY <1>5, WriterGoes
<1>6. CASE UNCHANGED vars
  <2>1. Readers' = Readers /\ Writers' = Writers
    BY <1>6 DEF vars, Readers, Writers
  <2> QED
    BY <1>6, <2>1 DEF vars, RWInv, WordCountsHolders
<1> QED
  BY <1>1, <1>2, <1>3, <1>4, <1>5, <1>6 DEF Next, Continue

\* The word is the writer bit under a writer and the number of readers
\* otherwise, for any number of threads (lines 809-854).
THEOREM RWWordCounts == ASSUME ThreadsFit PROVE Spec => []WordCountsHolders
<1>1. RWInv /\ [Next]_vars => RWInv'
  BY RWStep
<1>2. RWInv => WordCountsHolders
  BY DEF RWInv
<1> QED
  BY <1>1, <1>2, RWInit, PTL DEF Spec

\* A writer excludes everybody and readers exclude writers: the read-write lock
\* implements the abstract lock for any number of threads (lines 809-854).
THEOREM RWImplementsLock == ASSUME ThreadsFit PROVE Spec => RWIsLock
<1>1. RWInv /\ [Next]_vars => RWInv' /\ [Lock!Next]_Lock!vars
  BY RWStep
<1>2. Init => Lock!Init
  BY DEF Init, Lock!Init, Readers, Writers
<1> QED
  BY <1>1, <1>2, RWInit, PTL DEF Spec, RWIsLock, Lock!Spec
=============================================================================
