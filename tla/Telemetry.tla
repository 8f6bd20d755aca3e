----------------------------- MODULE Telemetry ------------------------------
(***************************************************************************)
(* lgx_telemetry.c: the ring of recorded events, with sampling, the three  *)
(* overflow policies, consent and reconfiguration while events are inside. *)
(* Every operation holds the mutex throughout, so each is one step.        *)
(***************************************************************************)
EXTENDS Integers, Sequences

CONSTANTS TELEMETRY_RING_BUFFER_SIZE,   \* slots allocated by lgx_telemetry_init
          ConfigSizes,                  \* ring sizes lgx_telemetry_configure is given
          MaxOffered                    \* bound: events that reach the ring

VARIABLES enabled, user_consent,
          ring_buffer_size, overflow_policy, adaptive_sampling,
          collects,     \* the event types the privacy policy lets through
          ring,         \* [slots, head, tail, count, dropped, window]
          frame_count, spike_count,
          offered       \* history: events given to add_telemetry_event

configVars == <<enabled, user_consent, ring_buffer_size, overflow_policy,
                adaptive_sampling, collects>>
vars == <<configVars, ring, frame_count, spike_count, offered>>

Policies == {"DROP_OLDEST", "DROP_NEWEST", "SAMPLE"}

\* Types the privacy policy can switch off, and the others.
Optional == {"frame", "allocation"}
Always == {"memory", "failure", "overflow"}

Init == /\ enabled = FALSE
        /\ user_consent = FALSE
        /\ ring_buffer_size = TELEMETRY_RING_BUFFER_SIZE
        /\ overflow_policy = "SAMPLE"
        /\ adaptive_sampling = TRUE
        /\ collects = Optional \cup Always
        /\ ring = [slots |-> [i \in 0..(TELEMETRY_RING_BUFFER_SIZE - 1) |-> 0],
                   head |-> 0, tail |-> 0, count |-> 0, dropped |-> 0,
                   window |-> <<>>]
        /\ frame_count = 0
        /\ spike_count = 0
        /\ offered = 0

-----------------------------------------------------------------------------
(* add_telemetry_event on ring r; `window' is what the ring should hold:   *)
(* the accepted events, oldest first, less the oldest ones given up.       *)

Dropped(r) == [r EXCEPT !.dropped = @ + 1]

\* Mutant of WithoutOldest: tail stays where it is.
TailStays(r) == [r EXCEPT !.count = @ - 1, !.dropped = @ + 1, !.window = Tail(@)]

WithoutOldest(r) == [r EXCEPT !.tail = (@ + 1) % ring_buffer_size,
                              !.count = @ - 1,
                              !.dropped = @ + 1,
                              !.window = Tail(@)]

Written(r, e) == [r EXCEPT !.slots[r.head] = e,
                           !.head = (@ + 1) % ring_buffer_size,
                           !.count = @ + 1,
                           !.window = Append(@, e)]

Add(r, e, sampled) ==
    IF ~sampled THEN Dropped(r)
    ELSE IF r.count < ring_buffer_size THEN Written(r, e)
    ELSE IF overflow_policy = "DROP_OLDEST" THEN Written(WithoutOldest(r), e)
    ELSE Dropped(r)

\* should_sample_event: at every rate a draw may refuse the event; without
\* adaptive sampling there is none.
Samples == IF adaptive_sampling THEN BOOLEAN ELSE {TRUE}

-----------------------------------------------------------------------------

\* lgx_telemetry_record_memory_usage, _allocation, _allocation_failure and
\* _arena_overflow.  Events are numbered in the order they are offered.
Record(type) == /\ type # "frame"
                /\ enabled
                /\ type \in collects
                /\ offered < MaxOffered
                /\ offered' = offered + 1
                /\ \E s \in Samples : ring' = Add(ring, offered + 1, s)
                /\ UNCHANGED <<configVars, frame_count, spike_count>>

\* lgx_telemetry_record_frame_time, with or without a spike: the spike's event
\* comes first and may fill the last slot.
RecordFrame == /\ enabled
               /\ "frame" \in collects
               /\ frame_count' = frame_count + 1
               /\ \/ /\ offered < MaxOffered
                     /\ offered' = offered + 1
                     /\ \E s \in Samples : ring' = Add(ring, offered + 1, s)
                     /\ UNCHANGED spike_count
                  \/ /\ offered < MaxOffered - 1
                     /\ offered' = offered + 2
                     /\ spike_count' = spike_count + 1
                     /\ \E s1, s2 \in Samples :
                           ring' = Add(Add(ring, offered + 1, s1), offered + 2, s2)
               /\ UNCHANGED configVars

\* lgx_telemetry_enable
Enable(consent) == /\ user_consent' = consent
                   /\ enabled' = consent
                   /\ UNCHANGED <<ring_buffer_size, overflow_policy, adaptive_sampling,
                                  collects, ring, frame_count, spike_count, offered>>

\* lgx_telemetry_configure: the buffer itself is not reallocated.
Configure(size, policy) ==
    /\ enabled' \in BOOLEAN
    /\ ring_buffer_size' = size
    /\ overflow_policy' = policy
    /\ adaptive_sampling' \in BOOLEAN
    /\ collects' \in {Always, Optional \cup Always}
    /\ UNCHANGED <<user_consent, ring, frame_count, spike_count, offered>>

Next == \/ \E type \in Optional \cup Always : Record(type)
        \/ RecordFrame
        \/ \E consent \in BOOLEAN : Enable(consent)
        \/ \E size \in ConfigSizes, policy \in Policies : Configure(size, policy)

Spec == Init /\ [][Next]_vars

-----------------------------------------------------------------------------

\* Through every mix of policies, sampling and wrap-around the ring holds
\* exactly the accepted events, oldest first, no more of them than it has
\* slots, and each event offered is inside or counted as dropped
\* (lines 458-525, read back at lines 854-870).
RingHoldsLatest ==
    /\ ring.head < TELEMETRY_RING_BUFFER_SIZE
    /\ [i \in 1..ring.count |->
          ring.slots[(ring.tail + i - 1) % TELEMETRY_RING_BUFFER_SIZE]] = ring.window
    /\ ring.count <= TELEMETRY_RING_BUFFER_SIZE
    /\ offered = ring.count + ring.dropped

=============================================================================
