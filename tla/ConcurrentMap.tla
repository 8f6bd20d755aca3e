--------------------------- MODULE ConcurrentMap ----------------------------
(***************************************************************************)
(* lgx_concurrent_map_t: chained buckets, a mutex on each, and one atomic  *)
(* counter that size reads without any lock.  The mutex is used as the     *)
(* lock it is shown to be in FutexMutex; what is done under it takes       *)
(* several steps, so that a call without the lock would show.              *)
(***************************************************************************)
EXTENDS Integers, Sequences, FiniteSets, SequencesExt

CONSTANTS Threads, Keys, Values, Nothing,
          Buckets, Hash         \* map_hash(key) & mask, Hash \in [Keys -> Buckets]

VARIABLES lock,         \* bucket -> the thread that holds its mutex
          chain,        \* bucket -> its entries, head first
          count,
          pc, op,       \* next step, and the call being made
          found         \* position of the key in the chain, 0 if not there

vars == <<lock, chain, count, pc, op, found>>

Goto(t, l) == pc' = [pc EXCEPT ![t] = l]

NoCall == [name |-> "none", key |-> Nothing, value |-> Nothing]

BucketOf(t) == Hash[op[t].key]

\* lgx_concurrent_map_create
Init == /\ lock = [b \in Buckets |-> Nothing]
        /\ chain = [b \in Buckets |-> <<>>]
        /\ count = 0
        /\ pc = [t \in Threads |-> "idle"]
        /\ op = [t \in Threads |-> NoCall]
        /\ found = [t \in Threads |-> 0]

Calls == [name : {"insert"}, key : Keys, value : Values]
           \union [name : {"lookup", "remove"}, key : Keys, value : {Nothing}]

\* Mutant of LockBucket: nobody is waited for.
EnterUnlocked(t, c) == /\ pc[t] = "idle"
                       /\ op' = [op EXCEPT ![t] = c]
                       /\ lock' = [lock EXCEPT ![Hash[c.key]] = t]
                       /\ Goto(t, "find")
                       /\ UNCHANGED <<chain, count, found>>

LockBucket(t, c) == /\ pc[t] = "idle"
                    /\ lock[Hash[c.key]] = Nothing
                    /\ op' = [op EXCEPT ![t] = c]
                    /\ lock' = [lock EXCEPT ![Hash[c.key]] = t]
                    /\ Goto(t, "find")
                    /\ UNCHANGED <<chain, count, found>>

\* The loop over the chain, and where each call goes from there.
Find(t) == LET hits == {i \in DOMAIN chain[BucketOf(t)] :
                            chain[BucketOf(t)][i].key = op[t].key}
               pos == IF hits = {} THEN 0 ELSE CHOOSE i \in hits : \A j \in hits : i <= j
           IN  /\ pc[t] = "find"
               /\ found' = [found EXCEPT ![t] = pos]
               /\ Goto(t, CASE op[t].name = "insert" -> IF pos = 0 THEN "link" ELSE "update"
                            [] op[t].name = "remove" -> IF pos = 0 THEN "unlock" ELSE "unlink"
                            [] OTHER -> "unlock")
               /\ UNCHANGED <<lock, chain, count, op>>

\* insert, the key is there: replace its value.
Update(t) == /\ pc[t] = "update"
             /\ chain' = [chain EXCEPT ![BucketOf(t)][found[t]].value = op[t].value]
             /\ Goto(t, "unlock")
             /\ UNCHANGED <<lock, count, op, found>>

\* insert, it is not: a new entry at the head (malloc failing changes nothing).
Link(t) == /\ pc[t] = "link"
           /\ chain' = [chain EXCEPT ![BucketOf(t)] =
                            <<[key |-> op[t].key, value |-> op[t].value]>> \o @]
           /\ Goto(t, "added")
           /\ UNCHANGED <<lock, count, op, found>>

CountAdded(t) == /\ pc[t] = "added"
                 /\ count' = count + 1
                 /\ Goto(t, "unlock")
                 /\ UNCHANGED <<lock, chain, op, found>>

Unlink(t) == /\ pc[t] = "unlink"
             /\ chain' = [chain EXCEPT ![BucketOf(t)] = RemoveAt(@, found[t])]
             /\ Goto(t, "removed")
             /\ UNCHANGED <<lock, count, op, found>>

CountRemoved(t) == /\ pc[t] = "removed"
                   /\ count' = count - 1
                   /\ Goto(t, "unlock")
                   /\ UNCHANGED <<lock, chain, op, found>>

Unlock(t) == /\ pc[t] = "unlock"
             /\ lock' = [lock EXCEPT ![BucketOf(t)] = Nothing]
             /\ op' = [op EXCEPT ![t] = NoCall]
             /\ found' = [found EXCEPT ![t] = 0]
             /\ Goto(t, "idle")
             /\ UNCHANGED <<chain, count>>

Next == \E t \in Threads :
          \/ \E c \in Calls : LockBucket(t, c)
          \/ Find(t) \/ Update(t) \/ Link(t) \/ CountAdded(t) \/ Unlink(t)
          \/ CountRemoved(t) \/ Unlock(t)

Spec == Init /\ [][Next]_vars

-----------------------------------------------------------------------------

Entries == {<<b, i>> \in Buckets \X (1..Cardinality(Keys) + 1) : i \in DOMAIN chain[b]}

KeyAt(e) == chain[e[1]][e[2]].key

\* A key has at most one entry, in its own bucket: two inserts of a key that
\* is not there cannot both link one (lines 1310-1338).
OneEntryPerKey ==
    \A e, f \in Entries : /\ Hash[KeyAt(e)] = e[1]
                          /\ KeyAt(e) = KeyAt(f) => e = f

At(label) == Cardinality({t \in Threads : pc[t] = label})

\* size, read without a lock, is off by the calls that have changed a chain
\* and not yet the counter, and never negative.
SizeAccountsForCalls ==
    /\ count = Cardinality(Entries) - At("added") + At("removed")
    /\ count >= 0

=============================================================================
