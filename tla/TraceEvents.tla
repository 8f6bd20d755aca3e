---------------------------- MODULE TraceEvents ----------------------------
(***************************************************************************)
(* The trace buffer of lgx_trace_events.c.  Threads add events without a   *)
(* lock: a slot is reserved by fetch-and-add and filled later.  Export and *)
(* clear hold the mutex, which excludes each other but not the adds.       *)
(* Nothing advances read_index: a full buffer drops events until cleared.  *)
(***************************************************************************)
EXTENDS Integers, FiniteSets

CONSTANTS Threads,
          TRACE_RING_BUFFER_SIZE,
          MaxEvents,            \* bound: events recorded
          QuietClear            \* lgx_trace_clear runs while no thread adds

VARIABLES enabled, events, write_index, dropped_events, total_events,
          pc, write_idx, event, \* of each adding thread
          epc, count, i,        \* of lgx_trace_export
          made, cleared         \* events made, and made before the last clear

vars == <<enabled, events, write_index, dropped_events, total_events,
          pc, write_idx, event, epc, count, i, made, cleared>>
adds == <<pc, write_idx, event>>
export == <<epc, count, i>>
Slots == 0..(TRACE_RING_BUFFER_SIZE - 1)

\* calloc'd events are no events: 0.
Init == /\ enabled = FALSE
        /\ events = [s \in Slots |-> 0]
        /\ write_index = 0 /\ dropped_events = 0 /\ total_events = 0
        /\ pc = [t \in Threads |-> "idle"]
        /\ write_idx = [t \in Threads |-> 0]
        /\ event = [t \in Threads |-> 0]
        /\ epc = "idle" /\ count = 0 /\ i = 0
        /\ made = 0 /\ cleared = 0

Enable == /\ epc = "idle"
          /\ enabled' = ~enabled
          /\ UNCHANGED <<events, write_index, dropped_events, total_events,
                         adds, export, made, cleared>>

\* lgx_trace_begin, _end and _instant differ in the counters they add to.
Reserve(t) == /\ pc[t] = "idle" /\ enabled /\ made < MaxEvents
              /\ made' = made + 1
              /\ event' = [event EXCEPT ![t] = made + 1]
              /\ write_idx' = [write_idx EXCEPT ![t] = write_index]
              /\ write_index' = write_index + 1
              /\ pc' = [pc EXCEPT ![t] = "check"]
              /\ UNCHANGED <<enabled, events, dropped_events, total_events, export, cleared>>

\* Mutant of Full: one event more than there are slots is accepted.
FullLate(idx) == idx > TRACE_RING_BUFFER_SIZE

\* read_index is 0 throughout.
Full(idx) == idx >= TRACE_RING_BUFFER_SIZE

Drop(t) == /\ pc[t] = "check" /\ Full(write_idx[t])
           /\ dropped_events' = dropped_events + 1
           /\ pc' = [pc EXCEPT ![t] = "count"]
           /\ UNCHANGED <<enabled, events, write_index, total_events,
                          write_idx, event, export, made, cleared>>

Write(t) == /\ pc[t] = "check" /\ ~Full(write_idx[t])
            /\ events' = [events EXCEPT ![write_idx[t] % TRACE_RING_BUFFER_SIZE] = event[t]]
            /\ pc' = [pc EXCEPT ![t] = "count"]
            /\ UNCHANGED <<enabled, write_index, dropped_events, total_events,
                           write_idx, event, export, made, cleared>>

Count(t) == /\ pc[t] = "count"
            /\ total_events' = total_events + 1
            /\ pc' = [pc EXCEPT ![t] = "idle"]
            /\ write_idx' = [write_idx EXCEPT ![t] = 0]
            /\ event' = [event EXCEPT ![t] = 0]
            /\ UNCHANGED <<enabled, events, write_index, dropped_events, export, made, cleared>>

\* lgx_trace_clear resets the counters and leaves the slots as they are.
Clear == /\ epc = "idle"
         /\ QuietClear => \A t \in Threads : pc[t] = "idle"
         /\ write_index' = 0 /\ dropped_events' = 0 /\ total_events' = 0
         /\ cleared' = made
         /\ UNCHANGED <<enabled, events, adds, export, made>>

Recorded == IF write_index < TRACE_RING_BUFFER_SIZE
            THEN write_index ELSE TRACE_RING_BUFFER_SIZE

ExportBegin == /\ epc = "idle"
               /\ epc' = "read" /\ count' = Recorded /\ i' = 0
               /\ UNCHANGED <<enabled, events, write_index, dropped_events, total_events,
                              adds, made, cleared>>

\* Slot i is written to the file.
ExportRead == /\ epc = "read" /\ i < count
              /\ i' = i + 1
              /\ UNCHANGED <<enabled, events, write_index, dropped_events, total_events,
                             adds, epc, count, made, cleared>>

ExportEnd == /\ epc = "read" /\ i = count
             /\ epc' = "idle" /\ count' = 0 /\ i' = 0
             /\ UNCHANGED <<enabled, events, write_index, dropped_events, total_events,
                            adds, made, cleared>>

Next == \/ Enable \/ Clear \/ ExportBegin \/ ExportRead \/ ExportEnd
        \/ \E t \in Threads : Reserve(t) \/ Drop(t) \/ Write(t) \/ Count(t)

Spec == Init /\ [][Next]_vars

-----------------------------------------------------------------------------
Current(s) == events[s] > cleared

Settled == \A t \in Threads : pc[t] = "idle"

\* What an export reads is an event recorded since the last clear, unless the
\* very add that reserved the slot is still on its way; slots never change
\* owner, and when no add is on its way every event is in a slot or was counted
\* as dropped (lines 110-124, 352-420).
TraceAccountsForEvents ==
    /\ epc = "read" /\ i < count =>
           \/ Current(i)
           \/ \E t \in Threads : pc[t] = "check" /\ write_idx[t] = i
    /\ \A s, r \in Slots : Current(s) /\ events[s] = events[r] => s = r
    /\ Settled => /\ total_events = made - cleared
                  /\ Cardinality({s \in Slots : Current(s)}) + dropped_events = total_events

=============================================================================
