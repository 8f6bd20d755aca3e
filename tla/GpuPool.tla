------------------------------ MODULE GpuPool -------------------------------
(***************************************************************************)
(* lgx_gpu_pool.c, the buddy allocator of one memory type.  Blocks are     *)
(* records in an array (all_blocks) that grows by realloc; a handle names  *)
(* its block by index, and the slot of a merged block is recycled through  *)
(* dead_blocks.  Every call runs under g_gpu_pool.mutex, so a call is a    *)
(* step.  Sizes are in units of MIN_BLOCK_SIZE; the doubly linked free     *)
(* lists are sequences of indices, first first.  And the initialisation    *)
(* and shutdown of the pool, over all memory types.                        *)
(***************************************************************************)
EXTENDS Integers, Sequences, SequencesExt, FiniteSets, FiniteSetsExt

CONSTANTS MaxLevel,       \* NUM_BUDDY_LEVELS - 1: MAX_BLOCK_SIZE is 2^MaxLevel
          total_size,     \* the memory type's budget
          RequestSizes, Alignments,   \* what callers ask for
          InitialBlocks,  \* max_blocks at first
          MaxHandles,     \* bound: handles at a time
          Types,          \* memory types, numbers in the order init takes them
          HostTypes,      \* the types that are mapped
          Memories,       \* values of VkDeviceMemory
          VK_NULL_HANDLE

Requests == [size : RequestSizes, alignment : Alignments]

Levels == 0..MaxLevel
MAX_BLOCK_SIZE == 2^MaxLevel

VARIABLES all_blocks,      \* sequence of [offset, size, level, is_free]
          free_lists,      \* free_lists[level]
          dead_blocks,     \* stack of recycled slots
          max_blocks,
          allocated_bytes, used_budget,
          handles          \* history: handles not freed, [block_index, offset, size, asked]

blockVars == <<all_blocks, free_lists, dead_blocks, max_blocks, allocated_bytes>>
buddyVars == <<blockVars, used_budget, handles>>

level_to_size(level) == 2^level
size_to_level(size) == Min({l \in Levels : 2^l >= size} \cup {MaxLevel})

get_buddy_offset(offset, level) ==
  IF (offset \div level_to_size(level)) % 2 = 0 THEN offset + level_to_size(level)
                                                ELSE offset - level_to_size(level)

\* buddy_init: one block as large as the budget, at the level that holds it or
\* at the highest.
BuddyInit == LET l == size_to_level(total_size)
             IN /\ all_blocks = <<[offset |-> 0, size |-> total_size, level |-> l, is_free |-> TRUE]>>
                /\ free_lists = [k \in Levels |-> IF k = l THEN <<1>> ELSE <<>>]
                /\ dead_blocks = <<>>
                /\ max_blocks = InitialBlocks
                /\ allocated_bytes = 0
                /\ used_budget = 0
                /\ handles = {}

-----------------------------------------------------------------------------
(* The allocator's functions take and return its state as a record.          *)

Here == [blocks |-> all_blocks, lists |-> free_lists, dead |-> dead_blocks,
         max |-> max_blocks, bytes |-> allocated_bytes]

Become(s) == /\ all_blocks' = s.blocks
             /\ free_lists' = s.lists
             /\ dead_blocks' = s.dead
             /\ max_blocks' = s.max
             /\ allocated_bytes' = s.bytes

Unlink(lists, i, level) == [lists EXCEPT ![level] = SelectSeq(@, LAMBDA j : j # i)]
Link(lists, i, level) == [lists EXCEPT ![level] = <<i>> \o @]

\* The lists as a scan of the array by index leaves them: last slot first.
buddy_rebuild_free_lists(blocks) ==
  [l \in Levels |-> SetToSortSeq({i \in DOMAIN blocks : blocks[i].is_free /\ blocks[i].level = l},
                                 LAMBDA i, j : i > j)]

\* No slot to recycle and none left in the array.
MustGrow(s) == s.dead = <<>> /\ Len(s.blocks) >= s.max

Grown(s) == IF MustGrow(s)
            THEN [s EXCEPT !.max = 2 * @, !.lists = buddy_rebuild_free_lists(s.blocks)]
            ELSE s

\* Block i, which is free, in two; the upper half takes a recycled slot or a
\* new one, the lower half stays in slot i.
buddy_split(s0, i) ==
  LET s     == Grown(s0)
      level == s.blocks[i].level - 1
      slot  == IF s.dead # <<>> THEN Head(s.dead) ELSE Len(s.blocks) + 1
      lower == [s.blocks[i] EXCEPT !.level = level, !.size = level_to_size(level)]
      upper == [offset |-> lower.offset + lower.size, size |-> lower.size,
                level |-> level, is_free |-> TRUE]
      cut   == [s.blocks EXCEPT ![i] = lower]
  IN [s EXCEPT !.blocks = IF s.dead # <<>> THEN [cut EXCEPT ![slot] = upper]
                                           ELSE Append(cut, upper),
               !.dead = IF s.dead # <<>> THEN Tail(@) ELSE @,
               !.lists = Link(Link(Unlink(@, i, level + 1), slot, level), i, level)]

\* Block i split down to level.  Where the array must grow and realloc fails
\* the block stays as it is, free and listed, and so do the halves cut before.
SplitDown(i, level, realloc) ==
  LET top == all_blocks[i].level
      at[l \in level..top] ==
        IF l = top THEN Here
        ELSE LET s == at[l + 1]
             IN IF s.blocks[i].level > l + 1 \/ (MustGrow(s) /\ ~realloc) THEN s
                ELSE buddy_split(s, i)
  IN at[level]

\* buddy_alloc's last part: block i leaves its list.
Take(s, i) ==
  [s EXCEPT !.blocks[i].is_free = FALSE,
            !.lists = Unlink(@, i, s.blocks[i].level),
            !.bytes = @ + s.blocks[i].size]

\* Free blocks that make up a larger one with block i.
Buddies(s, i) == {j \in DOMAIN s.blocks :
                    /\ s.blocks[j].offset = get_buddy_offset(s.blocks[i].offset, s.blocks[i].level)
                    /\ s.blocks[j].level = s.blocks[i].level
                    /\ s.blocks[j].is_free}

\* Mutant of Merge: the slot of the merged buddy is not recycled.
MergeLosesSlot(s, i, j) ==
  LET level == s.blocks[i].level
      low   == IF s.blocks[i].offset > s.blocks[j].offset THEN j ELSE i
      high  == IF low = i THEN j ELSE i
  IN [s EXCEPT !.blocks[low].level = level + 1,
               !.blocks[low].size = level_to_size(level + 1),
               !.blocks[high].is_free = FALSE,
               !.lists = Link(Unlink(Unlink(@, i, level), j, level), low, level + 1)]

\* Blocks i and j become one in the slot of the lower; the other slot is recycled.
Merge(s, i, j) ==
  LET level == s.blocks[i].level
      low   == IF s.blocks[i].offset > s.blocks[j].offset THEN j ELSE i
      high  == IF low = i THEN j ELSE i
  IN [s EXCEPT !.blocks[low].level = level + 1,
               !.blocks[low].size = level_to_size(level + 1),
               !.blocks[high].is_free = FALSE,
               !.dead = <<high>> \o @,
               !.lists = Link(Unlink(Unlink(@, i, level), j, level), low, level + 1)]

\* buddy_coalesce, level by level, from block i on.
buddy_coalesce(s0, i0) ==
  LET bottom == s0.blocks[i0].level
      at[l \in bottom..MaxLevel] ==
        IF l = bottom THEN [s |-> s0, i |-> i0]
        ELSE LET s == at[l - 1].s
                 i == at[l - 1].i
             IN IF s.blocks[i].level < l - 1 \/ Buddies(s, i) = {} THEN at[l - 1]
                ELSE LET j == Min(Buddies(s, i))
                     IN [s |-> Merge(s, i, j),
                         i |-> IF s.blocks[i].offset > s.blocks[j].offset THEN j ELSE i]
  IN at[MaxLevel].s

buddy_free(s, i) ==
  IF s.blocks[i].is_free THEN s
  ELSE buddy_coalesce([s EXCEPT !.blocks[i].is_free = TRUE,
                                !.bytes = @ - s.blocks[i].size,
                                !.lists = Link(@, i, s.blocks[i].level)], i)

-----------------------------------------------------------------------------
(* lgx_gpu_alloc and lgx_gpu_free.  A request that is refused at once (chaos  *)
(* testing, larger than MAX_BLOCK_SIZE, no free block) changes nothing but    *)
(* allocation_failures.                                                     *)

\* The level a request needs, and the lists that could serve it.
LevelOf(r) == size_to_level(Max({r.size, r.alignment}))
Lists(r) == {l \in LevelOf(r)..MaxLevel : free_lists[l] # <<>>}

Servable(r) == /\ r.size <= MAX_BLOCK_SIZE /\ r.alignment <= MAX_BLOCK_SIZE
               /\ Lists(r) # {}

\* The free block that serves r: the first of the lowest list.
BlockFor(r) == Head(free_lists[Min(Lists(r))])

lgx_gpu_alloc(r, realloc) ==
  /\ Cardinality(handles) < MaxHandles
  /\ Servable(r)
  /\ LET i == BlockFor(r)
         s == SplitDown(i, LevelOf(r), realloc)
     IN /\ s.blocks[i].level = LevelOf(r)
        /\ Become(Take(s, i))
        /\ used_budget' = used_budget + s.blocks[i].size
        /\ handles' = handles \cup {[block_index |-> i, offset |-> s.blocks[i].offset,
                                     size |-> s.blocks[i].size, asked |-> r]}

\* A realloc failed on the way: the blocks cut so far stay cut.
AllocCutShort(r) ==
  /\ Servable(r)
  /\ LET s == SplitDown(BlockFor(r), LevelOf(r), FALSE)
     IN s.blocks[BlockFor(r)].level > LevelOf(r) /\ Become(s)
  /\ UNCHANGED <<used_budget, handles>>

\* There is no memory for the handle: the block is freed again.
AllocNoHandle(r) ==
  /\ Servable(r)
  /\ LET i == BlockFor(r)
     IN Become(buddy_free(Take(SplitDown(i, LevelOf(r), TRUE), i), i))
  /\ UNCHANGED <<used_budget, handles>>

lgx_gpu_free(h) ==
  /\ used_budget' = used_budget - h.size
  /\ Become(buddy_free(Here, h.block_index))
  /\ handles' = handles \ {h}

BuddyNext == \/ \E r \in Requests : \/ \E realloc \in BOOLEAN : lgx_gpu_alloc(r, realloc)
                                   \/ AllocCutShort(r)
                                   \/ AllocNoHandle(r)
             \/ \E h \in handles : lgx_gpu_free(h)

-----------------------------------------------------------------------------
(* lgx_gpu_pool_init and lgx_gpu_pool_shutdown: the device memory and the    *)
(* mapping that each type's allocator structure refers to.  The structures   *)
(* are static and survive a shutdown; init clears the one of a type only     *)
(* when it reaches that type.                                                *)

VARIABLES initialized,
          available,     \* memory_type_available
          memory,        \* allocators[i].memory
          mapped_ptr,    \* allocators[i].mapped_ptr # NULL
          step,          \* the type init has come to, or 0
          allocated      \* device memory that vkAllocateMemory gave and nobody freed

poolVars == <<initialized, available, memory, mapped_ptr, step, allocated>>

PoolInit == /\ initialized = FALSE
            /\ available = {}
            /\ memory = [i \in Types |-> VK_NULL_HANDLE]
            /\ mapped_ptr = [i \in Types |-> FALSE]
            /\ step = 0
            /\ allocated = {}

\* detect_memory_types and query_memory_budget: any set of types may be there.
InitBegin(types) ==
  /\ ~initialized /\ step = 0
  /\ available' = types
  /\ initialized' = TRUE
  /\ step' = 1
  /\ UNCHANGED <<memory, mapped_ptr, allocated>>

InitSkip == /\ step \in Types \ available
            /\ step' = IF step + 1 \in Types THEN step + 1 ELSE 0
            /\ UNCHANGED <<initialized, available, memory, mapped_ptr, allocated>>

\* buddy_init clears the structure, vkAllocateMemory succeeds, vkMapMemory may not.
InitType(m, mapped) ==
  /\ step \in available
  /\ m \notin allocated
  /\ mapped => step \in HostTypes
  /\ memory' = [memory EXCEPT ![step] = m]
  /\ mapped_ptr' = [mapped_ptr EXCEPT ![step] = mapped]
  /\ allocated' = allocated \cup {m}
  /\ step' = IF step + 1 \in Types THEN step + 1 ELSE 0
  /\ UNCHANGED <<initialized, available>>

\* lgx_gpu_pool_shutdown with the structures as given: every available type's
\* memory that is not VK_NULL_HANDLE is freed; the structures keep it.
Shutdown(held) ==
  LET freed == {held[i] : i \in available} \ {VK_NULL_HANDLE}
  IN /\ allocated' = allocated \ freed
     /\ memory' = held
     /\ initialized' = FALSE
     /\ step' = 0
     /\ UNCHANGED available

\* Mutant of InitFails: init returns without a shutdown.
InitFailsPlain ==
  /\ step \in available
  /\ mapped_ptr' = [mapped_ptr EXCEPT ![step] = FALSE]
  /\ memory' = [memory EXCEPT ![step] = VK_NULL_HANDLE]
  /\ initialized' = FALSE
  /\ step' = 0
  /\ UNCHANGED <<available, allocated>>

\* buddy_init or vkAllocateMemory failed for the type; both clear its structure.
InitFails ==
  /\ step \in available
  /\ mapped_ptr' = [mapped_ptr EXCEPT ![step] = FALSE]
  /\ Shutdown([memory EXCEPT ![step] = VK_NULL_HANDLE])

lgx_gpu_pool_shutdown == /\ initialized /\ step = 0
                         /\ Shutdown(memory)
                         /\ UNCHANGED mapped_ptr

PoolNext == \/ \E types \in SUBSET Types : InitBegin(types)
            \/ InitSkip
            \/ \E m \in Memories, mapped \in BOOLEAN : InitType(m, mapped)
            \/ InitFails
            \/ lgx_gpu_pool_shutdown

vars == <<buddyVars, poolVars>>

Init == BuddyInit /\ PoolInit

Next == \/ BuddyNext /\ UNCHANGED poolVars
        \/ PoolNext /\ UNCHANGED buddyVars

Spec == Init /\ [][Next]_vars

-----------------------------------------------------------------------------

Allocator == INSTANCE ExtentAllocator
               WITH live <- {[at |-> h.offset, size |-> h.size] : h \in handles}

\* A handle's range lies in the memory and overlaps no other handle's, across
\* every growth of the block array (lines 228-302, 345-433, 907-1008).
GpuIsAllocator == Allocator!Spec

\* A handle serves what was asked for, aligned as asked (lines 440-499).
RequestsServed == \A h \in handles : /\ h.size >= h.asked.size
                                     /\ h.offset % h.asked.alignment = 0

Listed == UNION {ToSet(free_lists[l]) : l \in Levels}
Held == {h.block_index : h \in handles}

\* Every slot of the array is a free block, on the list of its level once, a
\* handle's block, which still is what the handle says, or dead; the array never
\* has more slots than the memory has smallest blocks (lines 228-302, 345-433:
\* "instead of growing all_blocks forever"); and both counts of bytes agree.
SlotsSound ==
  /\ \A l \in Levels : /\ IsInjective(free_lists[l])
                       /\ \A i \in ToSet(free_lists[l]) : /\ all_blocks[i].is_free
                                                          /\ all_blocks[i].level = l
  /\ \A h \in handles : /\ ~all_blocks[h.block_index].is_free
                        /\ all_blocks[h.block_index].offset = h.offset
                        /\ all_blocks[h.block_index].size = h.size
  /\ Cardinality(Held) = Cardinality(handles)
  /\ IsInjective(dead_blocks)
  /\ Listed \cap Held = {} /\ Listed \cap ToSet(dead_blocks) = {}
  /\ Held \cap ToSet(dead_blocks) = {}
  /\ Listed \cup Held \cup ToSet(dead_blocks) = DOMAIN all_blocks
  /\ Len(all_blocks) <= 2^size_to_level(total_size)
  /\ used_budget = allocated_bytes
  /\ used_budget = MapThenSumSet(LAMBDA h : h.size, handles)

\* A pool that is not initialised holds no device memory, whichever call of
\* the initialisation failed (lines 748-750, 817-850).
NothingLeftAllocated == ~initialized => allocated = {}

=============================================================================
