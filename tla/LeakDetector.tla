---------------------------- MODULE LeakDetector ----------------------------
(***************************************************************************)
(* lgx_leak_detector.c: samples of the memory in use go into a circular    *)
(* window, and an alert is raised once for each period of sustained        *)
(* growth.  The alert callback runs with the mutex released, so threads    *)
(* add samples, reset or change the callback meanwhile.  Of a sample the   *)
(* total is modelled; the suspected allocator decides nothing.             *)
(***************************************************************************)
EXTENDS Integers, Sequences

CONSTANTS Threads,
          Totals,       \* values of total_bytes
          WINDOW_SIZE, SUSTAINED_GROWTH_COUNT,
          MaxSamples,   \* bound: samples between two resets
          MaxPeriods    \* bound: periods of growth

VARIABLES initialized, samples, sample_count, sample_index,
          leak_detected, consecutive_growth_count, leak_alerts,
          alert_callback,       \* whether one is registered
          pc,                   \* of each thread: idle, or in the callback
          series, periods       \* history: totals since a reset, periods of growth

stateVars == <<samples, sample_count, sample_index, leak_detected, consecutive_growth_count>>
vars == <<initialized, stateVars, leak_alerts, alert_callback, pc, series, periods>>

Window == 0..(WINDOW_SIZE - 1)

Init == /\ initialized = FALSE
        /\ samples = [k \in Window |-> 0]
        /\ sample_count = 0 /\ sample_index = 0
        /\ leak_detected = FALSE /\ consecutive_growth_count = 0
        /\ leak_alerts = 0 /\ alert_callback = FALSE
        /\ pc = [t \in Threads |-> "idle"]
        /\ series = <<>> /\ periods = 0

\* lgx_leak_detector_init clears the structure.
Start == /\ ~initialized
         /\ initialized' = TRUE
         /\ samples' = [k \in Window |-> 0]
         /\ sample_count' = 0 /\ sample_index' = 0
         /\ leak_detected' = FALSE /\ consecutive_growth_count' = 0
         /\ leak_alerts' = 0 /\ alert_callback' = FALSE
         /\ series' = <<>> /\ periods' = 0
         /\ UNCHANGED pc

\* lgx_leak_detector_shutdown, while nobody is in a call: it destroys the mutex.
Shutdown == /\ initialized
            /\ \A t \in Threads : pc[t] = "idle"
            /\ initialized' = FALSE
            /\ UNCHANGED <<stateVars, leak_alerts, alert_callback, pc, series, periods>>

\* The quotient is a float, the threshold a double: 1.05 itself stays below it.
Significant(prev, total) == total > prev /\ 100 * total > 105 * prev

\* How many samples at the end of s each grew significantly.
Growths(s) == LET from == {k \in 1..Len(s) : \A j \in k..(Len(s) - 1) :
                                                Significant(s[j], s[j + 1])}
              IN Len(s) - CHOOSE k \in from : \A j \in from : k <= j

\* Mutant of Previous: the slot written next, which is the oldest sample.
PreviousOldest == sample_index

\* The sample before the one that goes to sample_index.
Previous == (sample_index - 1 + WINDOW_SIZE) % WINDOW_SIZE

\* lgx_leak_detector_add_sample, up to the callback.
AddSample(t, total) ==
    LET compared == sample_count >= 1
        grows == compared /\ Significant(samples[Previous], total)
        run == IF grows THEN consecutive_growth_count + 1
               ELSE IF compared THEN 0 ELSE consecutive_growth_count
        leak == run >= SUSTAINED_GROWTH_COUNT
        alert == grows /\ leak /\ ~leak_detected
    IN /\ initialized /\ pc[t] = "idle"
       /\ Len(series) < MaxSamples /\ periods < MaxPeriods
       /\ samples' = [samples EXCEPT ![sample_index] = total]
       /\ sample_index' = (sample_index + 1) % WINDOW_SIZE
       /\ sample_count' = IF sample_count < WINDOW_SIZE THEN sample_count + 1 ELSE sample_count
       /\ consecutive_growth_count' = run
       /\ leak_detected' = IF grows THEN leak_detected \/ leak
                           ELSE leak_detected /\ ~compared
       /\ leak_alerts' = IF alert THEN leak_alerts + 1 ELSE leak_alerts
       /\ pc' = [pc EXCEPT ![t] = IF alert /\ alert_callback THEN "callback" ELSE "idle"]
       /\ series' = Append(series, total)
       /\ periods' = periods + (IF Growths(series') = SUSTAINED_GROWTH_COUNT THEN 1 ELSE 0)
       /\ UNCHANGED <<initialized, alert_callback>>

\* The callback returns; the mutex is taken again and nothing done under it.
CallbackReturns(t) == /\ pc[t] = "callback"
                      /\ pc' = [pc EXCEPT ![t] = "idle"]
                      /\ UNCHANGED <<initialized, stateVars, leak_alerts, alert_callback,
                                     series, periods>>

SetAlertCallback == /\ initialized
                    /\ alert_callback' = ~alert_callback
                    /\ UNCHANGED <<initialized, stateVars, leak_alerts, pc, series, periods>>

\* lgx_leak_detector_reset
Reset == /\ initialized
         /\ sample_count' = 0 /\ sample_index' = 0
         /\ leak_detected' = FALSE /\ consecutive_growth_count' = 0
         /\ series' = <<>>
         /\ UNCHANGED <<initialized, samples, leak_alerts, alert_callback, pc, periods>>

Next == \/ Start \/ Shutdown \/ SetAlertCallback \/ Reset
        \/ \E t \in Threads : CallbackReturns(t) \/ \E total \in Totals : AddSample(t, total)

Spec == Init /\ [][Next]_vars

-----------------------------------------------------------------------------
\* Through the wrapping of the window, resets, and samples added while a
\* callback runs: the count is that of the growths at the end of the samples, a
\* leak is reported exactly while there are enough, and there was one alert
\* for each period of growth (lines 92-178).
OneAlertPerLeak ==
    /\ series # <<>> => consecutive_growth_count = Growths(series)
    /\ leak_detected <=> consecutive_growth_count >= SUSTAINED_GROWTH_COUNT
    /\ leak_alerts = periods
=============================================================================
