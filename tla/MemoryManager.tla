--------------------------- MODULE MemoryManager ---------------------------
(***************************************************************************)
(* lgx_memory_manager.c and the lock-free pool behind it.  A thread first  *)
(* uses up the preallocated blocks of its hot-path cache, then the slots   *)
(* of its cache, then the shared pool of the size class, then malloc.      *)
(* Freed blocks go to the slots of the freeing thread and, when these are  *)
(* full, to the shared pool; hot blocks stay until the cache is destroyed. *)
(*                                                                         *)
(* The eight hot classes are alike and independent; the one that serves    *)
(* 2049..4096 bytes is modelled.  Nothing but the two compare-exchange     *)
(* loops of the pool is shared between threads, so everything else a call  *)
(* does is one step.                                                       *)
(***************************************************************************)
EXTENDS Integers, SequencesExt

CONSTANTS Threads, Allocators,  \* the threads; those that call lgx_alloc
          Blocks,               \* the addresses malloc can return, numbers
          RequestSizes,
          HOT_PATH_CACHE_SIZE, Capacity,
          AnyThread             \* hot blocks are freed by any thread
NULL == 0

VARIABLES up,         \* the manager is initialised
          usable,     \* malloc_usable_size of a block, 0 when it is not malloc'd
          next,       \* free_block_t.next
          head,       \* head of each size class in the lock-free pool
          cache,      \* the thread has a thread_cache_t
          hot,        \* preallocated_blocks of the thread
          next_free,
          slots,      \* slots of each size class
          held,       \* bytes the application asked for, 0 when it has no right to the block
          pc, cls, block, old_head, new_head, asked

vars == <<up, usable, next, head, cache, hot, next_free, slots, held,
          pc, cls, block, old_head, new_head, asked>>

size_classes == <<16, 32, 48, 64, 96, 128, 192, 256,
                  384, 512, 768, 1024, 1536, 2048, 3072, 4096>>
Classes == DOMAIN size_classes
HotSize == 4096
MaxHot == 8192

\* glibc: chunks are multiples of 16 bytes with 8 bytes of header.
MallocUsable(n) == ((n + 23) \div 16) * 16 - 8

\* 0 stands for the -1 of the code.
get_size_class_index(size) ==
    LET fits == {i \in Classes : size <= size_classes[i]}
    IN IF fits = {} THEN 0 ELSE Min(fits)

Malloced == {b \in Blocks : usable[b] > 0}
Unused == Blocks \ Malloced

Init ==
    /\ up = TRUE
    /\ usable = [b \in Blocks |-> 0]
    /\ next = [b \in Blocks |-> NULL]
    /\ head = [k \in Classes |-> NULL]
    /\ cache = [t \in Threads |-> FALSE]
    /\ hot = [t \in Threads |-> <<>>]
    /\ next_free = [t \in Threads |-> 0]
    /\ slots = [t \in Threads |-> [k \in Classes |-> <<>>]]
    /\ held = [b \in Blocks |-> 0]
    /\ pc = [t \in Threads |-> "idle"]
    /\ cls = [t \in Threads |-> 0]
    /\ block = [t \in Threads |-> NULL]
    /\ old_head = [t \in Threads |-> NULL]
    /\ new_head = [t \in Threads |-> NULL]
    /\ asked = [t \in Threads |-> 0]

localVars == <<pc, cls, block, old_head, new_head, asked>>
poolVars == <<next, head>>
cacheVars == <<cache, hot, next_free, slots>>

\* lgx_memory_manager_init: the pool's lists are empty, no thread has a cache.
ManagerInit ==
    /\ ~up
    /\ up' = TRUE
    /\ UNCHANGED <<usable, poolVars, cacheVars, held, localVars>>

\* get_thread_cache in the first call of a thread, before the call goes on: the
\* cache with its preallocated blocks.  malloc may run out, then watermark is
\* lower and the remaining entries stay NULL.
CreateCache(t) ==
    /\ up /\ pc[t] = "idle" /\ ~cache[t]
    /\ t \in Allocators \/ \E b \in Blocks : held[b] > 0
    /\ LET n == IF Cardinality(Unused) < HOT_PATH_CACHE_SIZE
                THEN Cardinality(Unused) ELSE HOT_PATH_CACHE_SIZE
           blocks == SubSeq(SetToSortSeq(Unused, <), 1, n)
       IN /\ hot' = [hot EXCEPT ![t] = blocks]
          /\ usable' = [b \in Blocks |-> IF b \in Range(blocks)
                                         THEN MallocUsable(HotSize) ELSE usable[b]]
    /\ cache' = [cache EXCEPT ![t] = TRUE]
    /\ next_free' = [next_free EXCEPT ![t] = 0]
    /\ UNCHANGED <<up, poolVars, slots, held, localVars>>

\* allocate_ultra_fast: the next preallocated block.
AllocHot(t, size) ==
    /\ up /\ pc[t] = "idle" /\ t \in Allocators /\ cache[t]
    /\ size <= MaxHot
    /\ next_free[t] < Len(hot[t])
    /\ held' = [held EXCEPT ![hot[t][next_free[t] + 1]] = size]
    /\ next_free' = [next_free EXCEPT ![t] = @ + 1]
    /\ UNCHANGED <<up, usable, poolVars, cache, hot, slots, localVars>>

\* The failed index is kept below its wrap-around: once past the cache every
\* value says the same.
HotExhausted(t) == cache[t] /\ next_free[t] >= Len(hot[t])

\* allocate_small, cache hit: the last of the slots.
AllocSlot(t, size) ==
    LET k == get_size_class_index(size) IN
    /\ up /\ pc[t] = "idle" /\ t \in Allocators
    /\ size <= MaxHot /\ HotExhausted(t)
    /\ k > 0 /\ slots[t][k] # <<>>
    /\ held' = [held EXCEPT ![Last(slots[t][k])] = size]
    /\ slots' = [slots EXCEPT ![t][k] = Front(@)]
    /\ UNCHANGED <<up, usable, poolVars, cache, hot, next_free, localVars>>

\* malloc hands the application a new block of n bytes, or NULL when it has none.
Malloc(n, size) ==
    IF Unused = {} THEN UNCHANGED <<usable, held>>
    ELSE /\ usable' = [usable EXCEPT ![Min(Unused)] = MallocUsable(n)]
         /\ held' = [held EXCEPT ![Min(Unused)] = size]

\* Requests beyond the hot sizes are malloc'd (line 685); allocate_medium and
\* allocate_large do the same.
AllocDirect(t, size) ==
    /\ up /\ pc[t] = "idle" /\ t \in Allocators
    /\ size > MaxHot
    /\ Malloc(size, size)
    /\ UNCHANGED <<up, poolVars, cacheVars, localVars>>

\* allocate_small, cache miss: lgx_lockfree_pop loads the head.
PopLoad(t, size) ==
    LET k == get_size_class_index(size) IN
    /\ up /\ pc[t] = "idle" /\ t \in Allocators
    /\ size <= MaxHot /\ HotExhausted(t)
    /\ k > 0 /\ slots[t][k] = <<>>
    /\ cls' = [cls EXCEPT ![t] = k]
    /\ asked' = [asked EXCEPT ![t] = size]
    /\ old_head' = [old_head EXCEPT ![t] = head[k]]
    /\ pc' = [pc EXCEPT ![t] = "pop"]
    /\ UNCHANGED <<up, usable, poolVars, cacheVars, held, block, new_head>>

Returns(t) ==
    /\ pc' = [pc EXCEPT ![t] = "idle"]
    /\ cls' = [cls EXCEPT ![t] = 0]
    /\ block' = [block EXCEPT ![t] = NULL]
    /\ old_head' = [old_head EXCEPT ![t] = NULL]
    /\ new_head' = [new_head EXCEPT ![t] = NULL]
    /\ asked' = [asked EXCEPT ![t] = 0]

\* The pool is empty: malloc a block of the size class.
PopEmpty(t) ==
    /\ pc[t] = "pop" /\ old_head[t] = NULL
    /\ Malloc(size_classes[cls[t]], asked[t])
    /\ Returns(t)
    /\ UNCHANGED <<up, poolVars, cacheVars>>

\* new_head = block->next, read from a block another thread may be taking.
PopNext(t) ==
    /\ pc[t] = "pop" /\ old_head[t] # NULL
    /\ new_head' = [new_head EXCEPT ![t] = next[old_head[t]]]
    /\ pc' = [pc EXCEPT ![t] = "popcas"]
    /\ UNCHANGED <<up, usable, poolVars, cacheVars, held, cls, block, old_head, asked>>

\* Mutant of PopCAS: the exchange is a plain store.
PopStore(t) ==
    /\ pc[t] = "popcas"
    /\ head' = [head EXCEPT ![cls[t]] = new_head[t]]
    /\ next' = [next EXCEPT ![old_head[t]] = NULL]
    /\ held' = [held EXCEPT ![old_head[t]] = asked[t]]
    /\ Returns(t)
    /\ UNCHANGED <<up, usable, cacheVars>>

\* The compare-exchange; when it fails old_head is the current head.
PopCAS(t) ==
    /\ pc[t] = "popcas"
    /\ \/ /\ head[cls[t]] = old_head[t]
          /\ head' = [head EXCEPT ![cls[t]] = new_head[t]]
          /\ next' = [next EXCEPT ![old_head[t]] = NULL]
          /\ held' = [held EXCEPT ![old_head[t]] = asked[t]]
          /\ Returns(t)
       \/ /\ head[cls[t]] # old_head[t]
          /\ old_head' = [old_head EXCEPT ![t] = head[cls[t]]]
          /\ pc' = [pc EXCEPT ![t] = "pop"]
          /\ UNCHANGED <<poolVars, held, cls, block, new_head, asked>>
    /\ UNCHANGED <<up, usable, cacheVars>>

\* The application gives up a block it has: a hot block of the freeing thread is
\* left where it is, any other goes by its usable size.
Frees(t, b) ==
    /\ up /\ pc[t] = "idle" /\ cache[t]
    /\ held[b] > 0
    /\ AnyThread \/ \A u \in Threads \ {t} : b \notin Range(hot[u])
    /\ held' = [held EXCEPT ![b] = 0]

FreeHot(t, b) ==
    /\ Frees(t, b)
    /\ b \in Range(hot[t])
    /\ UNCHANGED <<up, usable, poolVars, cacheVars, localVars>>

FreeToSlot(t, b) ==
    LET k == get_size_class_index(usable[b]) IN
    /\ Frees(t, b)
    /\ b \notin Range(hot[t])
    /\ k > 0 /\ Len(slots[t][k]) < Capacity
    /\ slots' = [slots EXCEPT ![t][k] = Append(@, b)]
    /\ UNCHANGED <<up, usable, poolVars, cache, hot, next_free, localVars>>

\* No size class holds it: free(ptr).
FreeToSystem(t, b) ==
    /\ Frees(t, b)
    /\ b \notin Range(hot[t])
    /\ get_size_class_index(usable[b]) = 0
    /\ usable' = [usable EXCEPT ![b] = 0]
    /\ UNCHANGED <<up, poolVars, cacheVars, localVars>>

\* The slots are full: lgx_lockfree_push loads the head ...
PushLoad(t, b) ==
    LET k == get_size_class_index(usable[b]) IN
    /\ Frees(t, b)
    /\ b \notin Range(hot[t])
    /\ k > 0 /\ Len(slots[t][k]) >= Capacity
    /\ cls' = [cls EXCEPT ![t] = k]
    /\ block' = [block EXCEPT ![t] = b]
    /\ old_head' = [old_head EXCEPT ![t] = head[k]]
    /\ pc' = [pc EXCEPT ![t] = "push"]
    /\ UNCHANGED <<up, usable, poolVars, cacheVars, new_head, asked>>

\* ... links the block to it ...
PushLink(t) ==
    /\ pc[t] = "push"
    /\ next' = [next EXCEPT ![block[t]] = old_head[t]]
    /\ pc' = [pc EXCEPT ![t] = "pushcas"]
    /\ UNCHANGED <<up, usable, head, cacheVars, held, cls, block, old_head, new_head, asked>>

\* ... and exchanges the head, starting over with the current one on failure.
PushCAS(t) ==
    /\ pc[t] = "pushcas"
    /\ \/ /\ head[cls[t]] = old_head[t]
          /\ head' = [head EXCEPT ![cls[t]] = block[t]]
          /\ Returns(t)
       \/ /\ head[cls[t]] # old_head[t]
          /\ old_head' = [old_head EXCEPT ![t] = head[cls[t]]]
          /\ pc' = [pc EXCEPT ![t] = "push"]
          /\ UNCHANGED <<head, cls, block, new_head, asked>>
    /\ UNCHANGED <<up, usable, next, cacheVars, held>>

\* Blocks of the pool's lists.
Reached(k) == LET walk[n \in 0..Cardinality(Blocks)] ==
                      IF n = 0 THEN head[k]
                      ELSE IF walk[n - 1] = NULL THEN NULL ELSE next[walk[n - 1]]
              IN walk
Pooled(k) == Range(Reached(k)) \ {NULL}

InSlots(t) == UNION {Range(slots[t][k]) : k \in Classes}
CacheBlocks(t) == InSlots(t) \cup Range(hot[t])

\* What is left of the cache of t, and of the blocks `gone', once they are freed.
NoCaches(ts, gone) ==
    /\ usable' = [b \in Blocks |-> IF b \in gone THEN 0 ELSE usable[b]]
    /\ cache' = [t \in Threads |-> IF t \in ts THEN FALSE ELSE cache[t]]
    /\ hot' = [t \in Threads |-> IF t \in ts THEN <<>> ELSE hot[t]]
    /\ next_free' = [t \in Threads |-> IF t \in ts THEN 0 ELSE next_free[t]]
    /\ slots' = [t \in Threads |-> IF t \in ts THEN [k \in Classes |-> <<>>] ELSE slots[t]]

\* cache_destructor, when a thread ends.  Its comment expects the hot blocks to
\* have been given up ("should have already been freed by users").
ThreadExits(t) ==
    /\ up /\ pc[t] = "idle" /\ cache[t]
    /\ \A b \in Range(hot[t]) : held[b] = 0
    /\ NoCaches({t}, CacheBlocks(t))
    /\ UNCHANGED <<up, poolVars, held, localVars>>

\* lgx_memory_manager_shutdown: no thread is in a call, hot blocks are given up.
Shutdown ==
    /\ up /\ \A t \in Threads : pc[t] = "idle"
    /\ \A t \in Threads, b \in Blocks : b \in Range(hot[t]) => held[b] = 0
    /\ up' = FALSE
    /\ NoCaches(Threads, UNION {CacheBlocks(t) : t \in Threads}
                         \cup UNION {Pooled(k) : k \in Classes})
    /\ head' = [k \in Classes |-> NULL]
    /\ next' = [b \in Blocks |-> NULL]
    /\ UNCHANGED <<held, localVars>>

Next ==
    \/ ManagerInit \/ Shutdown
    \/ \E t \in Threads :
        \/ CreateCache(t) \/ ThreadExits(t)
        \/ PopEmpty(t) \/ PopNext(t) \/ PopCAS(t) \/ PushLink(t) \/ PushCAS(t)
        \/ \E size \in RequestSizes :
            AllocHot(t, size) \/ AllocSlot(t, size) \/ AllocDirect(t, size) \/ PopLoad(t, size)
        \/ \E b \in Blocks :
            FreeHot(t, b) \/ FreeToSlot(t, b) \/ FreeToSystem(t, b) \/ PushLoad(t, b)

Spec == Init /\ [][Next]_vars

-----------------------------------------------------------------------------
\* The places that own a block: the application, slots, lists of the pool, and a
\* push that has not linked it yet.
Owners(b) ==
    (IF held[b] > 0 THEN {<<"application">>} ELSE {})
    \cup UNION {{<<t, k, i>> : i \in {j \in DOMAIN slots[t][k] : slots[t][k][j] = b}} :
                    t \in Threads, k \in Classes}
    \cup {<<"pool", k>> : k \in {j \in Classes : head[j] # NULL /\ b \in Pooled(j)}}
    \cup {<<"push", t>> : t \in {u \in Threads : block[u] = b}}

\* A block has one owner: it is not handed out while it is cached or pooled, is
\* never in two caches, and every malloc'd block outside the hot caches has an
\* owner, so that none leaks, through thread exits and shutdowns.  A hot block is
\* owned by its cache, by one thread, and by nothing else than the application.
BlockInOnePlace ==
    /\ \A b \in Blocks : LET hots == {t \in Threads : b \in Range(hot[t])} IN
        /\ Cardinality(hots) <= 1
        /\ IF hots # {} THEN usable[b] > 0 /\ Owners(b) \subseteq {<<"application">>}
           ELSE Cardinality(Owners(b)) = IF usable[b] > 0 THEN 1 ELSE 0
    /\ \A k \in Classes : head[k] # NULL => Reached(k)[Cardinality(Blocks)] = NULL

\* A block the application is given is at least as large as it asked for.
HandedOutFits == \A b \in Blocks : held[b] > 0 => usable[b] >= held[b]
=============================================================================
