---------------------------- MODULE MemorySafety ----------------------------
(***************************************************************************)
(* lgx_memory_safety.c in a debug build: allocations are tracked, a freed  *)
(* block is held back for three frames, and freeing a pointer again is     *)
(* noticed.  Threads free concurrently with the frame advancing.           *)
(***************************************************************************)
EXTENDS Integers, FiniteSets

CONSTANTS Threads, Blocks, None,
          LGX_DELAYED_FRAMES, LGX_MAX_DELAYED_ALLOCS,
          FrameModulus          \* 2^32: frame numbers wrap

VARIABLES malloced,             \* blocks malloc has given out
          active_allocations, active_count,
          delayed_queue,        \* [ptr, frame_freed] of the blocks held back
          delayed_count, current_frame,
          freeing,              \* block each thread is inside free with, or None
          since                 \* history: frames since each block was queued

vars == <<malloced, active_allocations, active_count, delayed_queue, delayed_count,
          current_frame, freeing, since>>

Init == /\ malloced = {}
        /\ active_allocations = {}
        /\ active_count = 0
        /\ delayed_queue = {}
        /\ delayed_count = 0
        /\ current_frame = 0
        /\ freeing = [t \in Threads |-> None]
        /\ since = [b \in Blocks |-> 0]

\* lgx_memory_safety_alloc: malloc may return any block that is not out.
Alloc(b) == /\ b \notin malloced
            /\ malloced' = malloced \cup {b}
            /\ active_allocations' = active_allocations \cup {b}
            /\ active_count' = active_count + 1
            /\ UNCHANGED <<delayed_queue, delayed_count, current_frame, freeing, since>>

\* lgx_memory_safety_free up to untrack_allocation.  The pointer may be live,
\* or freed before and still held back: then it is not in the list, and the
\* call returns.
Untrack(t, b) == /\ freeing[t] = None
                 /\ b \in active_allocations
                 /\ active_allocations' = active_allocations \ {b}
                 /\ active_count' = active_count - 1
                 /\ freeing' = [freeing EXCEPT ![t] = b]
                 /\ UNCHANGED <<malloced, delayed_queue, delayed_count, current_frame,
                                since>>

\* The rest of it, for a queue with room; its malloc may fail.
Delay(t) == /\ freeing[t] # None
            /\ delayed_count < LGX_MAX_DELAYED_ALLOCS
            /\ delayed_queue' =
                  delayed_queue \cup {[ptr |-> freeing[t], frame_freed |-> current_frame]}
            /\ delayed_count' = delayed_count + 1
            /\ since' = [since EXCEPT ![freeing[t]] = 0]
            /\ freeing' = [freeing EXCEPT ![t] = None]
            /\ UNCHANGED <<malloced, active_allocations, active_count, current_frame>>

FreeNow(t) == /\ freeing[t] # None
              /\ malloced' = malloced \ {freeing[t]}
              /\ freeing' = [freeing EXCEPT ![t] = None]
              /\ UNCHANGED <<active_allocations, active_count, delayed_queue, delayed_count,
                             current_frame, since>>


\* uint32_t arithmetic.
Due(d, frame) == (frame - d.frame_freed) % FrameModulus >= LGX_DELAYED_FRAMES

\* lgx_memory_safety_advance_frame
AdvanceFrame == /\ current_frame' = (current_frame + 1) % FrameModulus
                /\ LET due == {d \in delayed_queue : Due(d, current_frame')}
                   IN  /\ delayed_queue' = delayed_queue \ due
                       /\ delayed_count' = delayed_count - Cardinality(due)
                       /\ malloced' = malloced \ {d.ptr : d \in due}
                /\ since' = [b \in Blocks |->
                               IF \E d \in delayed_queue' : d.ptr = b THEN since[b] + 1
                                                                      ELSE 0]
                /\ UNCHANGED <<active_allocations, active_count, freeing>>

Next == \/ \E b \in Blocks : Alloc(b)
        \/ \E t \in Threads, b \in Blocks : Untrack(t, b)
        \/ \E t \in Threads : Delay(t) \/ FreeNow(t)
        \/ AdvanceFrame

Spec == Init /\ [][Next]_vars

-----------------------------------------------------------------------------

Held == {d.ptr : d \in delayed_queue}
InHand == {freeing[t] : t \in Threads} \ {None}

\* A block that malloc has given out is in exactly one place: tracked, with one
\* thread that is freeing it, or held back once; the counts are exact, and
\* every block leaves the queue with the third frame after it was queued, no
\* earlier and no later (lines 203-248, 301-384).
DelayedExactly ==
    /\ [] /\ malloced = active_allocations \cup InHand \cup Held
          /\ active_allocations \cap (InHand \cup Held) = {} /\ InHand \cap Held = {}
          /\ \A t, u \in Threads : freeing[t] = freeing[u] /\ freeing[t] # None => t = u
          /\ active_count = Cardinality(active_allocations)
          /\ delayed_count = Cardinality(Held)
          /\ delayed_count = Cardinality(delayed_queue)
          /\ \A b \in Held : since[b] < LGX_DELAYED_FRAMES
    /\ [][\A b \in Held \ Held' : since[b] = LGX_DELAYED_FRAMES - 1]_vars

=============================================================================
