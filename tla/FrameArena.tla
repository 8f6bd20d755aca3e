----------------------------- MODULE FrameArena -----------------------------
(***************************************************************************)
(* lgx_frame_arena.c: three arenas used in turn, one per frame.  An arena  *)
(* is a chunk with a bump offset; a full chunk is retired, still mapped,   *)
(* behind one twice as large, and lgx_frame_reset empties the arena that   *)
(* was used three frames ago.  No lock is taken by an allocation, so it is *)
(* two steps: it reads current_frame and the offset, and stores the new    *)
(* offset.  Memory is counted in units of FRAME_ARENA_ALIGNMENT.           *)
(***************************************************************************)
EXTENDS Integers, FiniteSets, FiniteSetsExt

CONSTANTS Threads,
          Chunks,           \* address ranges mmap may return, numbers
          Sizes,            \* aligned sizes callers ask for
          ConfiguredSizes,  \* configured_arena_size, configured_max_size; 0: not set
          FRAME_ARENA_MIN_SIZE, FRAME_ARENA_DEFAULT_SIZE, FRAME_ARENA_MAX_SIZE,
          ROLLING_AVERAGE_WINDOW,
          NULL,
          MaxFrame          \* bound: frames between an init and its shutdown

FRAME_ARENA_COUNT == 3
Arenas == 0..(FRAME_ARENA_COUNT - 1)

VARIABLES initialized, current_frame,
          base, capacity, max_capacity, offset, allocations,
          retired,          \* retired_chunks
          retired_bytes,
          usage_history, history_index, usage_sum,
          resetting,        \* the thread in lgx_frame_reset (reset_mutex), or NULL
          call,             \* call[t]: what the allocation of t has read, or NULL
          pointers          \* history: pointers handed out for the last three frames

arenaVars == <<base, capacity, max_capacity, offset, allocations, retired, retired_bytes>>
usageVars == <<usage_history, history_index, usage_sum>>
vars == <<initialized, current_frame, arenaVars, usageVars, resetting, call, pointers>>

arena_of(frame) == frame % FRAME_ARENA_COUNT

Clamp(x, low, high) == IF x < low THEN low ELSE IF x > high THEN high ELSE x

Mapped == ({base[a] : a \in Arenas} \ {NULL}) \cup UNION {retired[a] : a \in Arenas}

\* The lowest free range: a range given back is handed out again at once.
mmap == Min(Chunks \ Mapped)

Init == /\ initialized = FALSE
        /\ current_frame = 0
        /\ base = [a \in Arenas |-> NULL]
        /\ capacity = [a \in Arenas |-> 0]
        /\ max_capacity = [a \in Arenas |-> 0]
        /\ offset = [a \in Arenas |-> 0]
        /\ allocations = [a \in Arenas |-> 0]
        /\ retired = [a \in Arenas |-> {}]
        /\ retired_bytes = [a \in Arenas |-> 0]
        /\ usage_history = [a \in Arenas |-> [i \in 0..(ROLLING_AVERAGE_WINDOW - 1) |-> 0]]
        /\ history_index = [a \in Arenas |-> 0]
        /\ usage_sum = [a \in Arenas |-> 0]
        /\ resetting = NULL
        /\ call = [t \in Threads |-> NULL]
        /\ pointers = {}

-----------------------------------------------------------------------------
(* Start and end.  Both are called while no other call is under way; an     *)
(* init that cannot map its three arenas unmaps those it mapped and leaves  *)
(* the allocator uninitialised, which is a step without effect here.        *)

Quiet == resetting = NULL /\ \A t \in Threads : call[t] = NULL

\* The configured sizes, 0 standing for the default, brought into range.
arena_size(configured) ==
  Clamp(IF configured = 0 THEN FRAME_ARENA_DEFAULT_SIZE ELSE configured,
        FRAME_ARENA_MIN_SIZE, FRAME_ARENA_MAX_SIZE)

max_size(configured, size) ==
  Clamp(IF configured = 0 THEN FRAME_ARENA_MAX_SIZE ELSE configured,
        size, FRAME_ARENA_MAX_SIZE)

lgx_frame_arena_init(size, max) ==
  /\ ~initialized
  /\ base' = [a \in Arenas |-> CHOOSE c \in Chunks : Cardinality({d \in Chunks : d < c}) = a]
  /\ capacity' = [a \in Arenas |-> arena_size(size)]
  /\ max_capacity' = [a \in Arenas |-> max_size(max, arena_size(size))]
  /\ offset' = [a \in Arenas |-> 0]
  /\ allocations' = [a \in Arenas |-> 0]
  /\ usage_history' = [a \in Arenas |-> [i \in 0..(ROLLING_AVERAGE_WINDOW - 1) |-> 0]]
  /\ history_index' = [a \in Arenas |-> 0]
  /\ usage_sum' = [a \in Arenas |-> 0]
  /\ current_frame' = 0
  /\ initialized' = TRUE
  /\ UNCHANGED <<retired, retired_bytes, resetting, call, pointers>>

lgx_frame_arena_shutdown ==
  /\ initialized /\ Quiet
  /\ retired' = [a \in Arenas |-> {}]
  /\ retired_bytes' = [a \in Arenas |-> 0]
  /\ base' = [a \in Arenas |-> NULL]
  /\ initialized' = FALSE
  /\ pointers' = {}
  /\ UNCHANGED <<current_frame, capacity, max_capacity, offset, allocations, usageVars,
                 resetting, call>>

-----------------------------------------------------------------------------
(* lgx_frame_alloc_internal.  An allocation that does not fit grows the      *)
(* arena or, when it cannot, is served by the persistent heap: no arena     *)
(* changes then.                                                            *)

\* t has read which arena it allocates from, and its offset.
AllocLoad(t, size) ==
  /\ initialized
  /\ call[t] = NULL /\ resetting # t
  /\ LET a == arena_of(current_frame)
     IN call' = [call EXCEPT ![t] = [arena |-> a, frame |-> current_frame,
                                     old_offset |-> offset[a], size |-> size]]
  /\ UNCHANGED <<initialized, current_frame, arenaVars, usageVars, resetting, pointers>>

Fits(c) == c.old_offset + c.size <= capacity[c.arena]

\* allocation_succeeded: old_offset of chunk is handed out.
HandOut(t, chunk, old_offset) ==
  LET c == call[t]
  IN /\ offset' = [offset EXCEPT ![c.arena] = old_offset + c.size]
     /\ allocations' = [allocations EXCEPT ![c.arena] = @ + 1]
     /\ pointers' = pointers \cup
          {[frame |-> c.frame, nth |-> allocations[c.arena], chunk |-> chunk,
            offset |-> old_offset, size |-> c.size]}
     /\ call' = [call EXCEPT ![t] = NULL]

AllocBump(t) ==
  /\ call[t] # NULL
  /\ Fits(call[t])
  /\ HandOut(t, base[call[t].arena], call[t].old_offset)
  /\ UNCHANGED <<initialized, current_frame, base, capacity, max_capacity, retired,
                 retired_bytes, usageVars, resetting>>

\* grow_arena's new_capacity.
new_capacity(a) == Min({capacity[a] * 2, max_capacity[a]})

\* Mutant of grow_arena: the full chunk is unmapped.
GrowUnmaps(a) ==
  /\ new_capacity(a) > capacity[a]
  /\ Chunks \ Mapped # {}
  /\ retired_bytes' = [retired_bytes EXCEPT ![a] = @ + offset[a]]
  /\ base' = [base EXCEPT ![a] = mmap]
  /\ capacity' = [capacity EXCEPT ![a] = new_capacity(a)]
  /\ UNCHANGED retired

\* The chunk is retired with its bytes and a new one takes its place.
grow_arena(a) ==
  /\ new_capacity(a) > capacity[a]
  /\ Chunks \ Mapped # {}
  /\ retired' = [retired EXCEPT ![a] = @ \cup {base[a]}]
  /\ retired_bytes' = [retired_bytes EXCEPT ![a] = @ + offset[a]]
  /\ base' = [base EXCEPT ![a] = mmap]
  /\ capacity' = [capacity EXCEPT ![a] = new_capacity(a)]

\* Growth succeeds; the allocation is retried at the start of the new chunk
\* and, should it still not fit, goes to the persistent heap.
AllocGrow(t) ==
  /\ call[t] # NULL
  /\ ~Fits(call[t])
  /\ grow_arena(call[t].arena)
  /\ IF call[t].size <= new_capacity(call[t].arena)
     THEN HandOut(t, mmap, 0)
     ELSE /\ offset' = [offset EXCEPT ![call[t].arena] = 0]
          /\ call' = [call EXCEPT ![t] = NULL]
          /\ UNCHANGED <<allocations, pointers>>
  /\ UNCHANGED <<initialized, current_frame, max_capacity, usageVars, resetting>>

\* The arena is at its maximum, or mmap or malloc failed.
AllocFallback(t) ==
  /\ call[t] # NULL
  /\ ~Fits(call[t])
  /\ call' = [call EXCEPT ![t] = NULL]
  /\ UNCHANGED <<initialized, current_frame, arenaVars, usageVars, resetting, pointers>>

-----------------------------------------------------------------------------
(* lgx_frame_reset, under reset_mutex: the frame counter moves on first, the  *)
(* arena it moves on to is emptied afterwards.                              *)

ResetBegin(t) ==
  /\ initialized
  /\ resetting = NULL /\ call[t] = NULL
  /\ current_frame < MaxFrame
  /\ resetting' = t
  /\ current_frame' = current_frame + 1
  /\ pointers' = {p \in pointers : p.frame + FRAME_ARENA_COUNT > current_frame'}
  /\ UNCHANGED <<initialized, arenaVars, usageVars, call>>

\* Mutant of update_rolling_average: what leaves the window stays in the sum.
AverageWithoutEviction(a) ==
  LET entering == retired_bytes[a] + offset[a]
  IN /\ usage_history' = [usage_history EXCEPT ![a][history_index[a]] = entering]
     /\ history_index' = [history_index EXCEPT ![a] = (@ + 1) % ROLLING_AVERAGE_WINDOW]
     /\ usage_sum' = [usage_sum EXCEPT ![a] = @ + entering]

\* update_rolling_average, before the arena is emptied.
update_rolling_average(a) ==
  LET entering == retired_bytes[a] + offset[a]
      leaving == usage_history[a][history_index[a]]
  IN /\ usage_history' = [usage_history EXCEPT ![a][history_index[a]] = entering]
     /\ history_index' = [history_index EXCEPT ![a] = (@ + 1) % ROLLING_AVERAGE_WINDOW]
     /\ usage_sum' = [usage_sum EXCEPT ![a] = @ - leaving + entering]

ResetArena(t) ==
  LET a == arena_of(current_frame)
  IN /\ resetting = t
     /\ update_rolling_average(a)
     /\ retired' = [retired EXCEPT ![a] = {}]
     /\ retired_bytes' = [retired_bytes EXCEPT ![a] = 0]
     /\ offset' = [offset EXCEPT ![a] = 0]
     /\ allocations' = [allocations EXCEPT ![a] = 0]
     /\ resetting' = NULL
     /\ UNCHANGED <<initialized, current_frame, base, capacity, max_capacity, call, pointers>>

Next == \/ \E size, max \in ConfiguredSizes : lgx_frame_arena_init(size, max)
        \/ lgx_frame_arena_shutdown
        \/ \E t \in Threads : \/ \E size \in Sizes : AllocLoad(t, size)
                              \/ AllocBump(t)
                              \/ AllocGrow(t)
                              \/ AllocFallback(t)
                              \/ ResetBegin(t)
                              \/ ResetArena(t)

Spec == Init /\ [][Next]_vars

-----------------------------------------------------------------------------
(* lgx_frame_is_frame_pointer: the pointer is in a chunk of some arena.      *)
is_frame_pointer(p) == p.chunk \in Mapped

\* Pointers of different allocations share no unit.
Overlap(p, q) == /\ p.chunk = q.chunk
                 /\ p.offset < q.offset + q.size
                 /\ q.offset < p.offset + p.size

\* What was allocated for this frame and the two before it is still mapped, is
\* recognised as the arena's and belongs to nobody else, however the arenas
\* grew since (grow_arena keeps full chunks; lgx_frame_reset, lines 738-739:
\* "previous frames' data is still valid for the GPU").
FramePointersValid ==
  /\ \A p \in pointers : is_frame_pointer(p)
  /\ \A p, q \in pointers : p # q => ~Overlap(p, q)

\* The bytes of an arena's pointers since it was last emptied.
Bytes(a) == MapThenSumSet(LAMBDA p : p.size, {p \in pointers : arena_of(p.frame) = a})

\* The offset and the retired bytes account for every pointer of the arena,
\* and the running sum of lgx_frame_arena.c:383 is the sum of the window.
ArenasAccounted ==
  \A a \in Arenas :
    /\ initialized /\ ~(resetting # NULL /\ a = arena_of(current_frame)) =>
         /\ retired_bytes[a] + offset[a] = Bytes(a)
         /\ offset[a] <= capacity[a] /\ capacity[a] <= max_capacity[a]
    /\ usage_sum[a] = MapThenSumSet(LAMBDA i : usage_history[a][i],
                                     DOMAIN usage_history[a])

=============================================================================
