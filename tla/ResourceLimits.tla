--------------------------- MODULE ResourceLimits ---------------------------
(***************************************************************************)
(* lgx_resource_limits.c: threads ask whether an allocation or a file fits *)
(* the limit, and account for it afterwards; a peak is kept with a         *)
(* compare-and-swap loop that resets of the statistics run into.           *)
(***************************************************************************)
EXTENDS Integers, FiniteSets, FiniteSetsExt

CONSTANTS Threads,
          Sizes,                \* sizes allocations ask for
          max_memory_bytes, max_file_handles

VARIABLES current_memory_bytes, peak_memory_bytes, current_file_handles,
          pc, size,             \* next step of each thread, the size it asks for
          new_total, current_peak,
          held, open,           \* history: bytes and files of each thread
          seen                  \* history: largest total accounted for since a reset

counters == <<current_memory_bytes, peak_memory_bytes, current_file_handles>>
vars == <<counters, pc, size, new_total, current_peak, held, open, seen>>

Init == /\ current_memory_bytes = 0
        /\ peak_memory_bytes = 0
        /\ current_file_handles = 0
        /\ pc = [t \in Threads |-> "idle"]
        /\ size = [t \in Threads |-> 0]
        /\ new_total = [t \in Threads |-> 0]
        /\ current_peak = [t \in Threads |-> 0]
        /\ held = [t \in Threads |-> 0]
        /\ open = [t \in Threads |-> 0]
        /\ seen = 0

-----------------------------------------------------------------------------
(* Memory *)

\* Mutant of CheckMemory: the size asked for is left out.
CheckWithoutSize(t, s) == /\ pc[t] = "idle"
                          /\ current_memory_bytes <= max_memory_bytes
                          /\ size' = [size EXCEPT ![t] = s]
                          /\ pc' = [pc EXCEPT ![t] = "allowed"]
                          /\ UNCHANGED <<counters, new_total, current_peak, held, open,
                                         seen>>

\* lgx_resource_limits_check_memory, when it answers true.
CheckMemory(t, s) == /\ pc[t] = "idle"
                     /\ current_memory_bytes + s <= max_memory_bytes
                     /\ size' = [size EXCEPT ![t] = s]
                     /\ pc' = [pc EXCEPT ![t] = "allowed"]
                     /\ UNCHANGED <<counters, new_total, current_peak, held, open, seen>>

\* lgx_resource_limits_track_allocation
Track(t) == /\ pc[t] = "allowed"
            /\ current_memory_bytes' = current_memory_bytes + size[t]
            /\ new_total' = [new_total EXCEPT ![t] = current_memory_bytes']
            /\ held' = [held EXCEPT ![t] = @ + size[t]]
            /\ pc' = [pc EXCEPT ![t] = "load"]
            /\ UNCHANGED <<peak_memory_bytes, current_file_handles, size, current_peak,
                           open, seen>>

\* The call returns, and its local variables are gone.
Returns(t) == /\ pc' = [pc EXCEPT ![t] = "idle"]
              /\ size' = [size EXCEPT ![t] = 0]
              /\ new_total' = [new_total EXCEPT ![t] = 0]
              /\ current_peak' = [current_peak EXCEPT ![t] = 0]

LoadPeak(t) == /\ pc[t] = "load"
               /\ IF new_total[t] > peak_memory_bytes
                  THEN /\ current_peak' = [current_peak EXCEPT ![t] = peak_memory_bytes]
                       /\ pc' = [pc EXCEPT ![t] = "swap"]
                       /\ UNCHANGED <<seen, size, new_total>>
                  ELSE /\ seen' = Max({seen, new_total[t]})
                       /\ Returns(t)
               /\ UNCHANGED <<counters, held, open>>


\* atomic_compare_exchange_weak: a failure reloads the peak.
SwapPeak(t) == /\ pc[t] = "swap"
               /\ IF peak_memory_bytes = current_peak[t]
                  THEN /\ peak_memory_bytes' = new_total[t]
                       /\ seen' = Max({seen, new_total[t]})
                       /\ Returns(t)
                  ELSE /\ pc' = [pc EXCEPT ![t] = "load"]
                       /\ UNCHANGED <<peak_memory_bytes, seen, size, new_total,
                                      current_peak>>
               /\ UNCHANGED <<current_memory_bytes, current_file_handles, held, open>>

\* lgx_resource_limits_track_deallocation
Untrack(t, s) == /\ pc[t] = "idle"
                 /\ s <= held[t]
                 /\ current_memory_bytes' = current_memory_bytes - s
                 /\ held' = [held EXCEPT ![t] = @ - s]
                 /\ UNCHANGED <<peak_memory_bytes, current_file_handles, pc, size, new_total,
                                current_peak, open, seen>>

\* lgx_resource_limits_reset_stats: the load, then the store.
ResetLoad(t) == /\ pc[t] = "idle"
                /\ current_peak' = [current_peak EXCEPT ![t] = current_memory_bytes]
                /\ pc' = [pc EXCEPT ![t] = "reset"]
                /\ UNCHANGED <<counters, size, new_total, held, open, seen>>

ResetStore(t) == /\ pc[t] = "reset"
                 /\ peak_memory_bytes' = current_peak[t]
                 /\ seen' = current_peak[t]
                 /\ Returns(t)
                 /\ UNCHANGED <<current_memory_bytes, current_file_handles, held, open>>

-----------------------------------------------------------------------------
(* Files *)

\* lgx_resource_limits_check_file_handle, _track_file_open, _track_file_close
CheckFile(t) == /\ pc[t] = "idle"
                /\ current_file_handles < max_file_handles
                /\ pc' = [pc EXCEPT ![t] = "open"]
                /\ UNCHANGED <<counters, size, new_total, current_peak, held, open, seen>>

TrackOpen(t) == /\ pc[t] = "open"
                /\ current_file_handles' = current_file_handles + 1
                /\ open' = [open EXCEPT ![t] = @ + 1]
                /\ pc' = [pc EXCEPT ![t] = "idle"]
                /\ UNCHANGED <<current_memory_bytes, peak_memory_bytes, size, new_total,
                               current_peak, held, seen>>

TrackClose(t) == /\ pc[t] = "idle"
                 /\ open[t] > 0
                 /\ current_file_handles' = current_file_handles - 1
                 /\ open' = [open EXCEPT ![t] = @ - 1]
                 /\ UNCHANGED <<current_memory_bytes, peak_memory_bytes, pc, size, new_total,
                                current_peak, held, seen>>

Next == \/ \E t \in Threads, s \in Sizes : CheckMemory(t, s) \/ Untrack(t, s)
        \/ \E t \in Threads : \/ Track(t) \/ LoadPeak(t) \/ SwapPeak(t)
                              \/ ResetLoad(t) \/ ResetStore(t)
                              \/ CheckFile(t) \/ TrackOpen(t) \/ TrackClose(t)

Spec == Init /\ [][Next]_vars

-----------------------------------------------------------------------------

\* A check and the accounting that follows it are two steps: the limits can be
\* overrun, but by no more than one request of each other thread (lines 181-225, 260-295).
OvershootBounded ==
    LET others == Cardinality(Threads) - 1
        allowed(p) == {t \in Threads : pc[t] = p}
    IN  /\ current_memory_bytes
              + MapThenSumSet(LAMBDA t : size[t], allowed("allowed"))
              <= max_memory_bytes + others * Max(Sizes)
        /\ current_file_handles + Cardinality(allowed("open"))
              <= max_file_handles + others

\* The counters are what the threads hold, and once a thread is through its
\* loop the peak covers its total until the next reset (lines 200-225, 406).
PeakCovers == /\ current_memory_bytes = MapThenSumSet(LAMBDA t : held[t], Threads)
              /\ current_file_handles = MapThenSumSet(LAMBDA t : open[t], Threads)
              /\ peak_memory_bytes >= seen

=============================================================================
