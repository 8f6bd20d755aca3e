-------------------------- MODULE IntentAllocator --------------------------
(***************************************************************************)
(* lgx_alloc_with_intent (lgx_intent_allocator.c), which chooses an        *)
(* allocator, and lgx_free (lgx_memory_manager.c), which has to find out   *)
(* from the address alone which one it was.  The allocators are reduced to *)
(* the areas they own, one object each; areas given back to the system     *)
(* serve another allocator later.  The thread Main allocates frames, as    *)
(* the frame arena requires; the other threads use the rest.               *)
(***************************************************************************)
EXTENDS Integers, FiniteSets, FiniteSetsExt

CONSTANTS Threads, Main,
          Pages,                \* areas of memory, numbers
          None,
          FRAME_ARENA_COUNT,
          MaxMade               \* bound: allocations between two starts

Arenas == 0..(FRAME_ARENA_COUNT - 1)

VARIABLES initialized,
          base, used, retired,  \* chunk of each arena, whether it is full, older chunks
          current_frame,        \* modulo FRAME_ARENA_COUNT
          slabs, magic,         \* areas of the heap, and the header before the object
          malloced,             \* areas of malloc: the manager's, and GPU handles
          lifetime, frame,      \* what the application has: kind, and arena if it is a frame's
          pc, ptr,              \* of each thread inside lgx_free
          tls, global,          \* total_intent_allocations of each thread, and aggregated
          made                  \* history: what the statistics should add up to

arenaVars == <<base, used, retired, current_frame>>
heapVars == <<slabs, magic>>
appVars == <<lifetime, frame>>
callVars == <<pc, ptr>>
statVars == <<tls, global, made>>
vars == <<initialized, arenaVars, heapVars, malloced, appVars, callVars, statVars>>

Chunks == {base[a] : a \in Arenas} \ {None}
Retired == UNION {retired[a] : a \in Arenas}
Unmapped == Pages \ (Chunks \cup Retired \cup slabs \cup malloced)

\* What the system maps next: an area that was given back serves again at once.
Mapped == IF Unmapped = {} THEN {} ELSE {Min(Unmapped)}

Init == /\ initialized = FALSE
        /\ base = [a \in Arenas |-> None]
        /\ used = [a \in Arenas |-> FALSE]
        /\ retired = [a \in Arenas |-> {}]
        /\ current_frame = 0
        /\ slabs = {} /\ magic = [p \in Pages |-> "none"]
        /\ malloced = {}
        /\ lifetime = [p \in Pages |-> "none"] /\ frame = [p \in Pages |-> 0]
        /\ pc = [t \in Threads |-> "idle"] /\ ptr = [t \in Threads |-> None]
        /\ tls = [t \in Threads |-> 0] /\ global = 0 /\ made = 0

\* lgx_intent_allocator_init: the aggregated statistics are reset, those the
\* threads have not aggregated are not.  The arenas get the lowest areas.
Start == /\ ~initialized
         /\ initialized' = TRUE
         /\ base' = [a \in Arenas |-> a]
         /\ global' = 0
         /\ made' = MapThenSumSet(LAMBDA t : tls[t], Threads)
         /\ UNCHANGED <<used, retired, current_frame, heapVars, malloced, appVars, callVars, tls>>

\* lgx_intent_allocator_shutdown and the shutdown of the memory manager, once
\* the threads are done.
Stop == /\ initialized
        /\ \A t \in Threads : pc[t] = "idle"
        /\ initialized' = FALSE
        /\ base' = [a \in Arenas |-> None]
        /\ used' = [a \in Arenas |-> FALSE]
        /\ retired' = [a \in Arenas |-> {}]
        /\ current_frame' = 0
        /\ slabs' = {} /\ magic' = [p \in Pages |-> "none"]
        /\ malloced' = {}
        /\ lifetime' = [p \in Pages |-> "none"] /\ frame' = [p \in Pages |-> 0]
        /\ UNCHANGED <<callVars, statVars>>

-----------------------------------------------------------------------------
\* t may call, and the pointer that it is given is the application's.
Ready(t) == initialized /\ pc[t] = "idle" /\ made < MaxMade
Gives(t, p, kind) == /\ lifetime' = [lifetime EXCEPT ![p] = kind]
                     /\ frame' = [frame EXCEPT ![p] = current_frame]
                     /\ tls' = [tls EXCEPT ![t] = @ + 1]
                     /\ made' = made + 1
                     /\ UNCHANGED <<initialized, callVars, global>>

\* lgx_frame_alloc: the chunk of the current arena has room.
AllocFrame == /\ Ready(Main)
              /\ ~used[current_frame]
              /\ used' = [used EXCEPT ![current_frame] = TRUE]
              /\ Gives(Main, base[current_frame], "frame")
              /\ UNCHANGED <<base, retired, current_frame, heapVars, malloced>>

\* It has none, and the arena grows: the chunk is retired.
AllocGrown(p) == /\ Ready(Main)
                 /\ used[current_frame]
                 /\ p \in Mapped
                 /\ retired' = [retired EXCEPT ![current_frame] = @ \cup {base[current_frame]}]
                 /\ base' = [base EXCEPT ![current_frame] = p]
                 /\ Gives(Main, p, "frame")
                 /\ UNCHANGED <<used, current_frame, heapVars, malloced>>

\* lgx_heap_alloc: an object that was freed, or a new slab.
HeapAlloc(p) == /\ \/ p \in slabs /\ magic[p] # "ALLOC_MAGIC" /\ UNCHANGED slabs
                   \/ p \in Mapped /\ slabs' = slabs \cup {p}
                /\ magic' = [magic EXCEPT ![p] = "ALLOC_MAGIC"]

\* The arena cannot grow: a frame allocation from the heap.
AllocFallback(p) == /\ Ready(Main)
                    /\ used[current_frame]
                    /\ HeapAlloc(p)
                    /\ Gives(Main, p, "frame")
                    /\ UNCHANGED <<arenaVars, malloced>>

\* Level, session and unknown lifetimes.
AllocPersistent(t, p) == /\ Ready(t)
                         /\ HeapAlloc(p)
                         /\ Gives(t, p, "persistent")
                         /\ UNCHANGED <<arenaVars, malloced>>

\* The GPU hint goes first: lgx_gpu_alloc returns a handle that it has malloc'd.
AllocGpu(t, p) == /\ Ready(t)
                  /\ p \in Mapped
                  /\ malloced' = malloced \cup {p}
                  /\ Gives(t, p, "gpu")
                  /\ UNCHANGED <<arenaVars, heapVars>>

\* lgx_alloc, which the statistics leave out.
AllocManager(t, p) == /\ Ready(t)
                      /\ p \in Mapped
                      /\ malloced' = malloced \cup {p}
                      /\ lifetime' = [lifetime EXCEPT ![p] = "manager"]
                      /\ UNCHANGED <<initialized, arenaVars, heapVars, frame, callVars, statVars>>

-----------------------------------------------------------------------------

lgx_frame_is_frame_pointer(p) == p \in Chunks \cup Retired

lgx_heap_is_heap_pointer(p) == p \in slabs /\ magic[p] = "ALLOC_MAGIC"

\* The application gives up a pointer, any but a GPU handle; a pointer into an
\* arena is left alone, others are looked up in the heap next.
Free(t, p) == /\ initialized /\ pc[t] = "idle"
              /\ lifetime[p] \in {"frame", "persistent", "manager"}
              /\ lifetime' = [lifetime EXCEPT ![p] = "none"]
              /\ frame' = [frame EXCEPT ![p] = 0]
              /\ IF lgx_frame_is_frame_pointer(p) THEN UNCHANGED callVars
                 ELSE pc' = [pc EXCEPT ![t] = "heap?"] /\ ptr' = [ptr EXCEPT ![t] = p]
              /\ UNCHANGED <<initialized, arenaVars, heapVars, malloced, statVars>>

HeapTest(t) == /\ pc[t] = "heap?"
               /\ pc' = [pc EXCEPT ![t] = IF lgx_heap_is_heap_pointer(ptr[t]) THEN "heap"
                                                                              ELSE "manager"]
               /\ UNCHANGED <<initialized, arenaVars, heapVars, malloced, appVars, ptr, statVars>>

Returns(t) == pc' = [pc EXCEPT ![t] = "idle"] /\ ptr' = [ptr EXCEPT ![t] = None]

\* lgx_heap_free marks the header.
HeapFree(t) == /\ pc[t] = "heap"
               /\ magic' = [magic EXCEPT ![ptr[t]] = "FREE_MAGIC"]
               /\ Returns(t)
               /\ UNCHANGED <<initialized, arenaVars, slabs, malloced, appVars, statVars>>

\* lgx_memory_manager_free gives the block to malloc, at once or later.
ManagerFree(t) == /\ pc[t] = "manager"
                  /\ malloced' = malloced \ {ptr[t]}
                  /\ Returns(t)
                  /\ UNCHANGED <<initialized, arenaVars, heapVars, appVars, statVars>>

\* lgx_gpu_free, for handles.
GpuFree(t, p) == /\ initialized /\ pc[t] = "idle"
                 /\ lifetime[p] = "gpu"
                 /\ lifetime' = [lifetime EXCEPT ![p] = "none"]
                 /\ frame' = [frame EXCEPT ![p] = 0]
                 /\ malloced' = malloced \ {p}
                 /\ UNCHANGED <<initialized, arenaVars, heapVars, callVars, statVars>>

\* lgx_frame_reset: the next arena is emptied and its retired chunks unmapped.
\* The application has no use for what it allocated for that frame.
FrameReset ==
    /\ initialized /\ pc[Main] = "idle"
    /\ LET next == (current_frame + 1) % FRAME_ARENA_COUNT
           old(p) == lifetime[p] = "frame" /\ frame[p] = next
       IN /\ current_frame' = next
          /\ used' = [used EXCEPT ![next] = FALSE]
          /\ retired' = [retired EXCEPT ![next] = {}]
          /\ lifetime' = [p \in Pages |-> IF old(p) THEN "none" ELSE lifetime[p]]
          /\ frame' = [p \in Pages |-> IF old(p) THEN 0 ELSE frame[p]]
    /\ UNCHANGED <<initialized, base, heapVars, malloced, callVars, statVars>>

\* lgx_intent_aggregate_stats
Aggregate(t) == /\ pc[t] = "idle"
                /\ global' = global + tls[t]
                /\ tls' = [tls EXCEPT ![t] = 0]
                /\ UNCHANGED <<initialized, arenaVars, heapVars, malloced, appVars, callVars, made>>

Next == \/ Start \/ Stop \/ AllocFrame \/ FrameReset
        \/ \E p \in Pages : AllocGrown(p) \/ AllocFallback(p)
        \/ \E t \in Threads : HeapTest(t) \/ HeapFree(t) \/ ManagerFree(t) \/ Aggregate(t)
        \/ \E t \in Threads, p \in Pages :
              \/ AllocPersistent(t, p) \/ AllocGpu(t, p) \/ AllocManager(t, p)
              \/ Free(t, p) \/ GpuFree(t, p)

Spec == Init /\ [][Next]_vars

-----------------------------------------------------------------------------
\* Whatever grows, resets or is unmapped meanwhile, lgx_free hands a pointer to
\* the allocator it came from, so no object is the application's twice and
\* memory in use stays mapped; and the statistics, aggregated by each thread
\* when it likes, add up (lgx_memory_manager.c lines 625-656,
\* lgx_intent_allocator.c lines 230-312, 400-417).
FreedWhereMade ==
    /\ \A t \in Threads :
          /\ pc[t] = "heap" => ptr[t] \in slabs /\ magic[ptr[t]] = "ALLOC_MAGIC"
          /\ pc[t] = "manager" => ptr[t] \in malloced
    /\ \A t, u \in Threads : ptr[t] = ptr[u] /\ ptr[t] # None => t = u
    /\ \A p \in Pages : lifetime[p] # "none" =>
          /\ p \notin Unmapped
          /\ lifetime[p] = "persistent" => magic[p] = "ALLOC_MAGIC"
          /\ \A t \in Threads : ptr[t] # p
    /\ global + MapThenSumSet(LAMBDA t : tls[t], Threads) = made
=============================================================================
