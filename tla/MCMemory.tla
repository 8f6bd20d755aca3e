------------------------------ MODULE MCMemory ------------------------------
(***************************************************************************)
(* The memory allocators of src/runtime for TLC.  One behaviour exercises  *)
(* one of them (`target') and the others stay as they start.               *)
(***************************************************************************)
EXTENDS PersistentHeap

CONSTANTS Threads, Chunks, Sizes, ConfiguredSizes, NULL, MaxFrame,
          MaxLevel, total_size, RequestSizes, Alignments, InitialBlocks, MaxHandles,
          Memories, VK_NULL_HANDLE

VARIABLES target,
          fa_initialized, current_frame, base, capacity, max_capacity, offset, allocations,
          retired, retired_bytes, usage_history, history_index, usage_sum, resetting, call,
          pointers,
          all_blocks, gp_free_lists, dead_blocks, max_blocks, allocated_bytes, used_budget,
          handles,
          gl_initialized, available, memory, mapped_ptr, step, allocated

faVars == <<fa_initialized, current_frame, base, capacity, max_capacity, offset, allocations,
            retired, retired_bytes, usage_history, history_index, usage_sum, resetting, call,
            pointers>>
gpVars == <<all_blocks, gp_free_lists, dead_blocks, max_blocks, allocated_bytes, used_budget,
            handles>>
glVars == <<gl_initialized, available, memory, mapped_ptr, step, allocated>>
memoryVars == <<target, vars, faVars, gpVars, glVars>>

\* The default arena holds the smaller request, twice that the larger one; a
\* window of one frame makes every average evict the one before.
FA == INSTANCE FrameArena WITH FRAME_ARENA_MIN_SIZE <- 2, FRAME_ARENA_DEFAULT_SIZE <- 2,
                               FRAME_ARENA_MAX_SIZE <- 4, ROLLING_AVERAGE_WINDOW <- 1,
                               initialized <- fa_initialized

GP == INSTANCE GpuPool WITH free_lists <- gp_free_lists, Types <- {1, 2, 3},
                            HostTypes <- {2, 3}, initialized <- gl_initialized

MemoryInit == /\ Init /\ FA!Init /\ GP!Init
              /\ target \in {"heap", "arena", "gpu", "gpu lifecycle"}

HeapNext == target = "heap" /\ Next /\ UNCHANGED <<faVars, gpVars, glVars>>

ArenaNext == target = "arena" /\ FA!Next /\ UNCHANGED <<vars, gpVars, glVars>>

GpuNext == target = "gpu" /\ GP!BuddyNext /\ UNCHANGED <<vars, faVars, glVars>>

LifecycleNext == target = "gpu lifecycle" /\ GP!PoolNext /\ UNCHANGED <<vars, faVars, gpVars>>

MemoryNext == /\ HeapNext \/ ArenaNext \/ GpuNext \/ LifecycleNext
              /\ UNCHANGED target

MemorySpec == MemoryInit /\ [][MemoryNext]_memoryVars

-----------------------------------------------------------------------------

\* What was allocated for the last three frames is mapped and not shared, and the
\* offsets, retired bytes and the running sum agree with what was handed out
\* (FrameArena, lines 299-385, 549-844).
FramesSound == FA!FramePointersValid /\ FA!ArenasAccounted

\* Large allocations of the heap own disjoint ranges of its pool, handles of the
\* GPU pool disjoint ranges of the device memory (PersistentHeap, lines 377-392,
\* 557-606; GpuPool, lines 228-532).
PoolsAreAllocators == HeapIsAllocator /\ GP!GpuIsAllocator

\* Every slot of the block array is free, held or recycled, handles are served as
\* asked, and a pool that is not initialised holds no device memory, whichever of
\* its memory types failed (GpuPool, lines 197-532, 705-850).
GpuSound == GP!SlotsSound /\ GP!RequestsServed /\ GP!NothingLeftAllocated

=============================================================================
