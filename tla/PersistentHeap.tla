--------------------------- MODULE PersistentHeap ---------------------------
(***************************************************************************)
(* lgx_persistent_heap.c: size classes served from slabs through a free    *)
(* list, larger requests from a buddy allocator.  Every call runs under    *)
(* g_heap.mutex, so a call is a step.  A buddy block's header (order,      *)
(* is_free) is in the memory it describes: a header is there once a split  *)
(* or a merge has written it, and is lost when the memory is handed out.   *)
(* Large sizes are in units of the smallest block, headers included.       *)
(***************************************************************************)
EXTENDS Integers, Sequences, SequencesExt, FiniteSets, FiniteSetsExt

CONSTANTS MaxOrder,        \* BUDDY_NUM_ORDERS - 1
          BUDDY_POOL_SIZE, \* in smallest blocks
          LargeSizes,      \* sizes of large requests
          Classes,         \* size classes
          Capacity,        \* objects of a slab, SLAB_SIZE / object_size
          Batch,           \* objects put on the free list with a new slab; hot: twice that
          AnalysisPeriod,  \* allocations between two analyses of the pattern
          MAX_ACTIVE_ALLOCATIONS, MAX_HEAP_SIZE,
          MaxSlabs,        \* bound: slabs of a class
          MaxAllocations,  \* bound: allocations whose size class is recorded
          Garbage          \* contents of memory that is no header

Orders == 0..MaxOrder
Units == 0..(BUDDY_POOL_SIZE - 1)

\* buddy_init lists one block of the largest order, whatever the pool's size.
ASSUME PoolHoldsBlock == BUDDY_POOL_SIZE >= 2^MaxOrder

VARIABLES initialized,
          free_lists,      \* free_lists[order]: offsets of free blocks, first first
          header,          \* header[unit]: what a read of a header there returns
          large,           \* history: large allocations, [at, size, order]
          free_list,       \* free_list[class]: free objects
          slabs,           \* slabs[class]: allocation bitmaps, newest slab first
          small,           \* history: objects handed out
          histogram, analysed, hot,    \* size_class_histogram, pattern_analysis_count, hotness
          num_active_allocations, current_bytes

buddyVars == <<free_lists, header, large>>
classVars == <<free_list, slabs, small, histogram, analysed, hot>>
countVars == <<num_active_allocations, current_bytes>>
vars == <<initialized, buddyVars, classVars, countVars>>

\* buddy_init: one free block; the rest of the memory is uninitialised.
OneBlock == [o \in Orders |-> IF o = MaxOrder THEN <<0>> ELSE <<>>]
OneHeader == [u \in Units |-> IF u = 0 THEN [order |-> MaxOrder, is_free |-> TRUE]
                                       ELSE Garbage]
NoObjects == [c \in Classes |-> <<>>]
NoHistory == [c \in Classes |-> 0]

Init == /\ initialized = FALSE
        /\ free_lists = OneBlock
        /\ header = OneHeader
        /\ large = {}
        /\ free_list = NoObjects
        /\ slabs = NoObjects
        /\ small = {}
        /\ histogram = NoHistory
        /\ analysed = 0
        /\ hot = {}
        /\ num_active_allocations = 0
        /\ current_bytes = 0

-----------------------------------------------------------------------------
(* The buddy allocator *)

\* The smallest order that holds size; the largest one for anything larger.
size_to_order(size) == Min({o \in Orders : 2^o >= size} \cup {MaxOrder})

\* order_to_size
order_to_size(order) == 2^order

\* The order whose free list serves a request of order: buddy_split is called,
\* order by order, up to the first list that is not empty.
Source(order) == {o \in order..MaxOrder : free_lists[o] # <<>>
                                          /\ \A p \in order..(o - 1) : free_lists[p] = <<>>}

\* The first block of list `from' is split down to order; each split leaves
\* the upper half on its list.  The lower half is handed out.
buddy_alloc(size, order, from) ==
  LET b == Head(free_lists[from])
  IN /\ free_lists' = [o \in Orders |->
                         CASE o = from -> Tail(free_lists[o])
                           [] o \in order..(from - 1) -> <<b + order_to_size(o)>> \o free_lists[o]
                           [] OTHER -> free_lists[o]]
     /\ header' = [u \in Units |->
                     CASE u = b -> [order |-> order, is_free |-> FALSE]
                       [] u \in (b + 1)..(b + Max({size, order_to_size(order)}) - 1) -> Garbage
                       [] \E o \in order..(from - 1) : u = b + order_to_size(o) ->
                            [order |-> CHOOSE o \in Orders : u = b + order_to_size(o),
                             is_free |-> TRUE]
                       [] OTHER -> header[u]]
     /\ large' = large \cup {[at |-> b, size |-> size, order |-> order]}

\* The block of an order that a unit lies in, and that block's buddy (XOR).
Aligned(u, order) == u - (u % order_to_size(order))
get_buddy_address(u, order) ==
  LET at == Aligned(u, order)
  IN IF (at \div order_to_size(order)) % 2 = 0 THEN at + order_to_size(order)
                                               ELSE at - order_to_size(order)

\* The buddy met at order is free and whole, by its header and by its list.
Mergeable(u, order) ==
  LET buddy == get_buddy_address(u, order)
  IN /\ order < MaxOrder
     /\ header[buddy] = [order |-> order, is_free |-> TRUE]
     /\ Contains(free_lists[order], buddy)

\* buddy_coalesce: the order a freed block ends with.
Coalesced(p) == Max({o \in p.order..MaxOrder : \A k \in p.order..(o - 1) : Mergeable(p.at, k)})

\* Mutant of buddy_free: only one merge.
FreeMergesOnce(p) ==
  LET top == Min({Coalesced(p), p.order + 1})
  IN /\ free_lists' = [o \in Orders |->
          CASE o = top -> <<Aligned(p.at, o)>> \o free_lists[o]
            [] o \in p.order..(top - 1) ->
                 SelectSeq(free_lists[o], LAMBDA b : b # get_buddy_address(p.at, o))
            [] OTHER -> free_lists[o]]
     /\ header' = [u \in Units |->
          IF \E o \in p.order..top : u = Aligned(p.at, o)
          THEN [order |-> Max({o \in p.order..top : u = Aligned(p.at, o)}), is_free |-> TRUE]
          ELSE header[u]]

\* Mutant of buddy_free: a merged buddy stays on its free list.
FreeKeepsBuddy(p) ==
  LET top == Coalesced(p)
  IN /\ free_lists' = [free_lists EXCEPT ![top] = <<Aligned(p.at, top)>> \o @]
     /\ header' = [u \in Units |->
          IF \E o \in p.order..top : u = Aligned(p.at, o)
          THEN [order |-> Max({o \in p.order..top : u = Aligned(p.at, o)}), is_free |-> TRUE]
          ELSE header[u]]

\* Every buddy merged leaves its list; the lower half of each merge gets the
\* header of the merged block, the upper half keeps a stale one.
buddy_free(p) ==
  LET top == Coalesced(p)
  IN /\ free_lists' = [o \in Orders |->
          CASE o = top -> <<Aligned(p.at, o)>> \o free_lists[o]
            [] o \in p.order..(top - 1) ->
                 SelectSeq(free_lists[o], LAMBDA b : b # get_buddy_address(p.at, o))
            [] OTHER -> free_lists[o]]
     /\ header' = [u \in Units |->
          IF \E o \in p.order..top : u = Aligned(p.at, o)
          THEN [order |-> Max({o \in p.order..top : u = Aligned(p.at, o)}), is_free |-> TRUE]
          ELSE header[u]]

-----------------------------------------------------------------------------
(* The size classes.  An object is [class, slab, index].                    *)

\* The lowest clear bits of a slab's bitmap, n of them or as many as there are.
ClearBits(bitmap, n) == {i \in 0..(Capacity - 1) \ bitmap :
                           Cardinality({k \in 0..(i - 1) : k \notin bitmap}) < n}

Object(c, position, index) ==   \* slabs are numbered from the oldest
  [class |-> c, slab |-> Len(slabs[c]) - position + 1, index |-> index]

\* Slabs with a free slot, by position.
Open(c) == {i \in DOMAIN slabs[c] : Cardinality(slabs[c][i]) < Capacity}

PopFreeList(c) == /\ free_list[c] # <<>>
                  /\ free_list' = [free_list EXCEPT ![c] = Tail(@)]
                  /\ small' = small \cup {Head(free_list[c])}
                  /\ UNCHANGED slabs

slab_alloc(c) ==
  /\ free_list[c] = <<>> /\ Open(c) # {}
  /\ LET i == Min(Open(c))
         bits == ClearBits(slabs[c][i], 1)
     IN /\ slabs' = [slabs EXCEPT ![c][i] = @ \cup bits]
        /\ small' = small \cup {Object(c, i, b) : b \in bits}
  /\ UNCHANGED free_list

batch_size(c) == Min({IF c \in hot THEN 2 * Batch ELSE Batch, Capacity \div 2})

\* Mutant of NewSlab: the batch starts at the object that is handed out.
NewSlabRepeats(c) ==
  /\ free_list[c] = <<>> /\ Open(c) = {}
  /\ Len(slabs[c]) < MaxSlabs
  /\ slabs' = [slabs EXCEPT ![c] = <<0..batch_size(c)>> \o @]
  /\ small' = small \cup {Object(c, 0, 0)}
  /\ free_list' = [free_list EXCEPT ![c] = [k \in 1..batch_size(c) |->
                                              Object(c, 0, batch_size(c) - k)]]

\* A new slab: its first object is handed out, the next batch_size objects
\* are pushed on the free list one by one.
NewSlab(c) ==
  /\ free_list[c] = <<>> /\ Open(c) = {}
  /\ Len(slabs[c]) < MaxSlabs
  /\ slabs' = [slabs EXCEPT ![c] = <<0..batch_size(c)>> \o @]
  /\ small' = small \cup {Object(c, 0, 0)}
  /\ free_list' = [free_list EXCEPT ![c] = [k \in 1..batch_size(c) |->
                                              Object(c, 0, batch_size(c) - k + 1)]]

\* The pattern of the last AnalysisPeriod allocations, never forgotten: a class
\* is hot above a fifth of all allocations.
RecordPattern(c) ==
  /\ histogram[c] < MaxAllocations
  /\ histogram' = [histogram EXCEPT ![c] = @ + 1]
  /\ LET total == MapThenSumSet(LAMBDA d : histogram'[d], Classes)
     IN IF analysed + 1 >= AnalysisPeriod
        THEN analysed' = 0 /\ hot' = {d \in Classes : 5 * histogram'[d] > total}
        ELSE analysed' = analysed + 1 /\ UNCHANGED hot

-----------------------------------------------------------------------------
(* lgx_heap_alloc and lgx_heap_free.  A call that is refused (not initialised, *)
(* a limit, no memory) changes error counters only.                          *)

lgx_persistent_heap_init ==
  /\ ~initialized
  /\ free_lists' = OneBlock
  /\ header' = OneHeader
  /\ free_list' = NoObjects
  /\ slabs' = NoObjects
  /\ histogram' = NoHistory
  /\ analysed' = 0
  /\ hot' = {}
  /\ num_active_allocations' = 0
  /\ current_bytes' = 0
  /\ initialized' = TRUE
  /\ UNCHANGED <<large, small>>

\* Slabs and pool are given back, with whatever is still allocated.
lgx_persistent_heap_shutdown ==
  /\ initialized
  /\ free_list' = NoObjects
  /\ slabs' = NoObjects
  /\ large' = {}
  /\ small' = {}
  /\ initialized' = FALSE
  /\ UNCHANGED <<free_lists, header, histogram, analysed, hot, countVars>>

\* The limits let size through.
Admitted(size) == /\ num_active_allocations < MAX_ACTIVE_ALLOCATIONS
                  /\ current_bytes + size <= MAX_HEAP_SIZE

Count(size) == /\ num_active_allocations' = num_active_allocations + 1
               /\ current_bytes' = current_bytes + size

AllocLarge(size) ==
  /\ initialized
  /\ Admitted(size)
  /\ \E from \in Source(size_to_order(size)) :
       /\ Head(free_lists[from]) + size <= BUDDY_POOL_SIZE
       /\ buddy_alloc(size, size_to_order(size), from)
  /\ Count(size)
  /\ UNCHANGED <<initialized, classVars>>

AllocSmall(c) ==
  /\ initialized
  /\ Admitted(1)
  /\ PopFreeList(c) \/ slab_alloc(c) \/ NewSlab(c)
  /\ RecordPattern(c)
  /\ Count(1)
  /\ UNCHANGED <<initialized, buddyVars>>

\* Mutant of FreeLarge: the bytes of a freed block stay counted.
FreeKeepsBytes(p) ==
  /\ initialized
  /\ p \in large
  /\ buddy_free(p)
  /\ large' = large \ {p}
  /\ num_active_allocations' = num_active_allocations - 1
  /\ UNCHANGED <<initialized, current_bytes, classVars>>

FreeLarge(p) ==
  /\ initialized
  /\ p \in large
  /\ buddy_free(p)
  /\ large' = large \ {p}
  /\ num_active_allocations' = num_active_allocations - 1
  /\ current_bytes' = current_bytes - p.size
  /\ UNCHANGED <<initialized, classVars>>

FreeSmall(o) ==
  /\ initialized
  /\ o \in small
  /\ free_list' = [free_list EXCEPT ![o.class] = <<o>> \o @]
  /\ small' = small \ {o}
  /\ num_active_allocations' = num_active_allocations - 1
  /\ current_bytes' = current_bytes - 1
  /\ UNCHANGED <<initialized, slabs, histogram, analysed, hot, buddyVars>>

Next == \/ lgx_persistent_heap_init
        \/ lgx_persistent_heap_shutdown
        \/ \E size \in LargeSizes : AllocLarge(size)
        \/ \E c \in Classes : AllocSmall(c)
        \/ \E p \in large : FreeLarge(p)
        \/ \E o \in small : FreeSmall(o)

Spec == Init /\ [][Next]_vars

-----------------------------------------------------------------------------

Allocator == INSTANCE ExtentAllocator WITH total_size <- BUDDY_POOL_SIZE,
               live <- {[at |-> p.at, size |-> p.size] : p \in large}

\* A large allocation lies in the pool and overlaps no other, also when it is
\* larger than the largest block and size_to_order gave it a smaller one than
\* it asked for (lines 377-392, 557-606).
HeapIsAllocator == Allocator!Spec

\* The blocks on the free lists, as [at, order].
FreeBlocks == UNION {{[at |-> b, order |-> o] : b \in ToSet(free_lists[o])} : o \in Orders}

Blocks == FreeBlocks \cup {[at |-> p.at, order |-> p.order] : p \in large}

\* Free and allocated blocks tile the memory that buddy_init listed; each is
\* once on the list its header names; and no two buddies are both free: what
\* can be merged has been merged (lines 680-733, "keeps fragmentation low").
BlocksTile == initialized =>
  /\ \A u \in 0..(2^MaxOrder - 1) :
       Cardinality({b \in Blocks : u \in b.at..(b.at + 2^b.order - 1)}) = 1
  /\ \A o \in Orders : IsInjective(free_lists[o])
  /\ \A b \in Blocks : header[b.at] = [order |-> b.order, is_free |-> b \in FreeBlocks]
  /\ \A b \in FreeBlocks : b.order < MaxOrder =>
       [at |-> get_buddy_address(b.at, b.order), order |-> b.order] \notin FreeBlocks

\* An object of a slab is handed out, on the free list or still in the slab,
\* and only one of these (lines 831-880, 1146-1218, 1417-1435).
ObjectsOnce ==
  \A c \in Classes :
    LET taken == {Object(c, i, k) : i \in DOMAIN slabs[c], k \in 0..(Capacity - 1)}
                   \ UNION {{Object(c, i, k) : k \in 0..(Capacity - 1) \ slabs[c][i]} :
                            i \in DOMAIN slabs[c]}
    IN /\ IsInjective(free_list[c])
       /\ ToSet(free_list[c]) \cap small = {}
       /\ ToSet(free_list[c]) \cup {o \in small : o.class = c} = taken

\* The counters the limits are checked against are those of what is out
\* (lines 1119-1138, 1248-1253, 1442-1445).
CountsExact == initialized =>
  /\ num_active_allocations = Cardinality(large) + Cardinality(small)
  /\ current_bytes = Cardinality(small) + MapThenSumSet(LAMBDA p : p.size, large)

\* Small objects have one place each, and the counters that the limits are checked
\* against agree with what is handed out (lines 831-880, 1119-1253, 1417-1445).
SlabsSound == ObjectsOnce /\ CountsExact

=============================================================================
