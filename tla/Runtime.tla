------------------------------ MODULE Runtime -------------------------------
(***************************************************************************)
(* lgx_runtime_core.c, lgx_lifecycle_manager.c and lgx_health_monitor.c:   *)
(* the main thread brings the subsystems up and down, one at a time, and   *)
(* the monitoring thread of the health monitor runs beside it.  The alert  *)
(* callback, application code on that thread, may call the runtime back.   *)
(* A section under a mutex of one object is one step.                      *)
(***************************************************************************)
EXTENDS Integers, Sequences

CONSTANTS Monitors,     \* monitoring threads that can be created
          None

ASSUME RuntimeConstants == None \notin Monitors

VARIABLES up,                   \* the subsystems that are initialised
          initialized,
          app,                  \* what the main thread is doing
          at,                   \* next entry of the list it is working through
          handlers,             \* signals whose handler is the runtime's
          suspended, has_saved_state,
          tier,                 \* what the hardware adapter detected
          monitoring_enabled, monitoring_thread_running, monitoring_thread,
          alert_callback,       \* whether one is registered
          last_status,
          pc,                   \* next step of each monitoring thread
          status                \* the health it found, until it has acted on it

coreVars == <<up, initialized, app, at>>
lifeVars == <<handlers, suspended, has_saved_state>>
flagVars == <<monitoring_enabled, monitoring_thread_running, monitoring_thread,
              alert_callback>>
vars == <<coreVars, lifeVars, tier, flagVars, last_status, pc, status>>

\* The calls of lgx_runtime_init and initialize_subsystems, in order; the
\* intent allocator stands for the two allocators it initialises.
InitOrder == <<"error_handler", "memory_monitor", "namespace", "counters",
               "hardware_adapter", "capability_detector", "memory_manager",
               "frame_arena", "persistent_heap", "platform_services",
               "lifecycle_manager", "health_monitor", "telemetry", "trace">>

\* Mutant of ShutdownOrder: the lifecycle manager goes first.
LifecycleFirst == <<"trace", "telemetry", "lifecycle_manager", "health_monitor",
                    "namespace", "platform_services", "persistent_heap", "frame_arena",
                    "memory_manager", "capability_detector", "hardware_adapter",
                    "error_handler", "memory_monitor", "counters">>

ShutdownOrder == <<"trace", "telemetry", "health_monitor", "lifecycle_manager",
                   "namespace", "platform_services", "persistent_heap", "frame_arena",
                   "memory_manager", "capability_detector", "hardware_adapter",
                   "error_handler", "memory_monitor", "counters">>

Subsystems == {InitOrder[i] : i \in 1..Len(InitOrder)}

\* Failures that initialize_subsystems survives; a memory monitor cannot fail.
Optional == {"namespace", "telemetry", "trace"}

Fatal == Subsystems \ (Optional \cup {"memory_monitor"})

Signals == <<"SIGTERM", "SIGSEGV", "SIGABRT">>

GoodStatus == [overall |-> "GOOD", degraded_features |-> {}]

Init == /\ up = {}
        /\ initialized = FALSE
        /\ app = "idle"
        /\ at = 1
        /\ handlers = {}
        /\ suspended = FALSE
        /\ has_saved_state = FALSE
        /\ tier = "OPTIMAL"
        /\ monitoring_enabled = FALSE
        /\ monitoring_thread_running = FALSE
        /\ monitoring_thread = None
        /\ alert_callback = FALSE
        /\ last_status = GoodStatus
        /\ pc = [m \in Monitors |-> "none"]
        /\ status = [m \in Monitors |-> "GOOD"]

-----------------------------------------------------------------------------
(* lgx_runtime_init *)

\* The error handler comes first, before the configuration is looked at.
BeginInit == /\ app = "idle"
             /\ ~initialized
             /\ up' = {"error_handler"}
             /\ app' = "validate"
             /\ UNCHANGED <<initialized, at, lifeVars, tier, flagVars, last_status, pc,
                            status>>

ValidateConfig == /\ app = "validate"
                  /\ \/ /\ app' = "init"
                        /\ at' = 2
                        /\ UNCHANGED up
                     \/ /\ app' = "idle"
                        /\ up' = up \ {"error_handler"}
                        /\ UNCHANGED at
                  /\ UNCHANGED <<initialized, lifeVars, tier, flagVars, last_status, pc,
                                 status>>

\* What the subsystem that comes up sets: the manager is calloc'ed.
Starts(s) ==
    /\ IF s = "lifecycle_manager"
       THEN /\ handlers' = {Signals[i] : i \in 1..Len(Signals)}
            /\ suspended' = FALSE
            /\ has_saved_state' = FALSE
       ELSE UNCHANGED lifeVars
    /\ IF s = "hardware_adapter"
       THEN tier' \in {"OPTIMAL", "COMPATIBLE", "DEGRADED"}
       ELSE UNCHANGED tier
    /\ IF s = "health_monitor"
       THEN /\ monitoring_enabled' = FALSE
            /\ monitoring_thread_running' = FALSE
            /\ alert_callback' = FALSE
            /\ last_status' = GoodStatus
            /\ UNCHANGED monitoring_thread
       ELSE UNCHANGED <<flagVars, last_status>>

InitStep == /\ app = "init"
            /\ at <= Len(InitOrder)
            /\ LET s == InitOrder[at]
               IN  \/ up' = up \cup {s} /\ Starts(s)
                   \/ /\ s \in Optional
                      /\ UNCHANGED <<up, lifeVars, tier, flagVars, last_status>>
            /\ at' = at + 1
            /\ UNCHANGED <<initialized, app, pc, status>>

\* Mutant of Restored: the handler of SIGTERM is not put back.
TermKept(i) == {Signals[k] : k \in 2..(i - 1)}

\* install_signal_handlers puts back what it replaced before the i-th failed.
Restored(i) == {Signals[k] : k \in 1..(i - 1)}

InstallFails == \E i \in 1..Len(Signals) :
                   handlers' = {Signals[k] : k \in 1..(i - 1)} \ Restored(i)

\* A fatal failure: everything is shut down.
InitFails == /\ app = "init"
             /\ at <= Len(InitOrder)
             /\ InitOrder[at] \in Fatal
             /\ up' = IF InitOrder[at] = "persistent_heap" THEN up \ {"frame_arena"} ELSE up
             /\ IF InitOrder[at] = "lifecycle_manager" THEN InstallFails
                                                       ELSE UNCHANGED handlers
             /\ app' = "shutdown"
             /\ at' = 1
             /\ UNCHANGED <<initialized, suspended, has_saved_state, tier, flagVars,
                            last_status, pc, status>>

InitDone == /\ app = "init"
            /\ at > Len(InitOrder)
            /\ initialized' = TRUE
            /\ app' = "idle"
            /\ at' = 1
            /\ UNCHANGED <<up, lifeVars, tier, flagVars, last_status, pc, status>>

-----------------------------------------------------------------------------
(* lgx_runtime_shutdown and shutdown_subsystems *)

BeginShutdown == /\ app = "idle"
                 /\ initialized
                 /\ app' = "shutdown"
                 /\ at' = 1
                 /\ UNCHANGED <<up, initialized, lifeVars, tier, flagVars, last_status, pc,
                                status>>

\* A monitor that is monitoring is stopped first.
MustStop == ShutdownOrder[at] = "health_monitor" /\ "health_monitor" \in up
            /\ monitoring_enabled

\* What goes with the structure of the subsystem that is freed.
Ends(s) ==
    /\ IF s = "lifecycle_manager"
       THEN handlers' = {} /\ suspended' = FALSE /\ has_saved_state' = FALSE
       ELSE UNCHANGED lifeVars
    /\ IF s = "hardware_adapter" THEN tier' = "OPTIMAL" ELSE UNCHANGED tier
    /\ IF s = "health_monitor"
       THEN /\ monitoring_thread_running' = FALSE
            /\ monitoring_thread' = None
            /\ alert_callback' = FALSE
            /\ last_status' = GoodStatus
            /\ UNCHANGED monitoring_enabled
       ELSE UNCHANGED <<flagVars, last_status>>

ShutdownStep ==
    /\ app = "shutdown"
    /\ at <= Len(ShutdownOrder)
    /\ ~MustStop
    /\ up' = up \ {ShutdownOrder[at]}
    /\ IF ShutdownOrder[at] \in up THEN Ends(ShutdownOrder[at])
                                   ELSE UNCHANGED <<lifeVars, tier, flagVars, last_status>>
    /\ at' = at + 1
    /\ UNCHANGED <<initialized, app, pc, status>>

ShutdownDone == /\ app = "shutdown"
                /\ at > Len(ShutdownOrder)
                /\ initialized' = FALSE
                /\ app' = "idle"
                /\ at' = 1
                /\ UNCHANGED <<up, lifeVars, tier, flagVars, last_status, pc, status>>

-----------------------------------------------------------------------------
(* lgx_lifecycle_manager_suspend and _resume, refused in the wrong state    *)

SuspendManager == /\ ~suspended
                  /\ suspended' = TRUE
                  /\ has_saved_state' = TRUE
                  /\ UNCHANGED handlers

ResumeManager == /\ suspended
                 /\ has_saved_state
                 /\ suspended' = FALSE
                 /\ has_saved_state' = FALSE
                 /\ UNCHANGED handlers

\* lgx_runtime_suspend, lgx_runtime_resume on the main thread.
Suspend == /\ app = "idle"
           /\ initialized
           /\ "lifecycle_manager" \in up
           /\ SuspendManager \/ ResumeManager
           /\ UNCHANGED <<coreVars, tier, flagVars, last_status, pc, status>>

-----------------------------------------------------------------------------
(* lgx_health_monitor.c *)

\* Mutant of Overall: an elevated rate hides degraded hardware.
OverallOfLast(t, rate) == IF rate = "high" THEN "CRITICAL"
                          ELSE IF rate = "elevated" THEN "WARNING"
                          ELSE IF t = "DEGRADED" THEN "CRITICAL"
                          ELSE IF t = "COMPATIBLE" THEN "WARNING" ELSE "GOOD"

\* overall_health after the hardware tier and the rate of failed allocations;
\* memory and processor use are constants that trigger nothing.
Overall(t, rate) ==
    LET hardware == IF t = "DEGRADED" THEN "CRITICAL"
                    ELSE IF t = "COMPATIBLE" THEN "WARNING" ELSE "GOOD"
    IN  IF rate = "high" THEN "CRITICAL"
        ELSE IF rate = "elevated" /\ hardware = "GOOD" THEN "WARNING" ELSE hardware

Degraded(t, rate) == {b \in 0..3 : \/ b = 0 /\ t = "DEGRADED"
                                   \/ b = 1 /\ t = "COMPATIBLE"
                                   \/ b = 2 /\ rate = "high"
                                   \/ b = 3 /\ rate = "elevated"}

\* lgx_health_monitor_check, once it has accepted struct_size.
Check(rate) == last_status' = [overall |-> Overall(tier, rate),
                               degraded_features |-> Degraded(tier, rate)]

Rates == {"low", "elevated", "high"}

HealthCheck == /\ app = "idle"
               /\ initialized
               /\ \E rate \in Rates : Check(rate)
               /\ UNCHANGED <<coreVars, lifeVars, tier, flagVars, pc, status>>

SetAlertCallback == /\ app = "idle"
                    /\ "health_monitor" \in up
                    /\ alert_callback' \in BOOLEAN
                    /\ UNCHANGED <<coreVars, lifeVars, tier, monitoring_enabled,
                                   monitoring_thread_running, monitoring_thread,
                                   last_status, pc, status>>

\* lgx_health_monitor_start_monitoring, when pthread_create succeeds; when it
\* does not, the flags are put back.
StartMonitoring(m) == /\ app = "idle"
                      /\ "health_monitor" \in up
                      /\ ~monitoring_enabled
                      /\ pc[m] = "none"
                      /\ monitoring_enabled' = TRUE
                      /\ monitoring_thread_running' = TRUE
                      /\ monitoring_thread' = m
                      /\ pc' = [pc EXCEPT ![m] = "loop"]
                      /\ UNCHANGED <<coreVars, lifeVars, tier, alert_callback, last_status,
                                     status>>

\* lgx_health_monitor_stop_monitoring, for the application or the shutdown.
StopMonitoring == /\ \/ app = "idle" /\ monitoring_enabled /\ "health_monitor" \in up
                        /\ app' = "join"
                     \/ app = "shutdown" /\ at <= Len(ShutdownOrder) /\ MustStop
                        /\ app' = "join_shutdown"
                  /\ monitoring_thread_running' = FALSE
                  /\ UNCHANGED <<up, initialized, at, lifeVars, tier, monitoring_enabled,
                                 monitoring_thread, alert_callback, last_status, pc,
                                 status>>

Join == /\ app \in {"join", "join_shutdown"}
        /\ pc[monitoring_thread] = "exited"
        /\ pc' = [pc EXCEPT ![monitoring_thread] = "none"]
        /\ monitoring_enabled' = FALSE
        /\ app' = IF app = "join" THEN "idle" ELSE "shutdown"
        /\ UNCHANGED <<up, initialized, at, lifeVars, tier, monitoring_thread_running,
                       monitoring_thread, alert_callback, last_status, status>>

-----------------------------------------------------------------------------
(* health_monitoring_thread *)

Stays == UNCHANGED <<coreVars, tier, flagVars>>

Loop(m) == /\ pc[m] = "loop"
           /\ pc' = [pc EXCEPT ![m] = IF monitoring_thread_running THEN "check"
                                                                   ELSE "exited"]
           /\ Stays /\ UNCHANGED <<lifeVars, last_status, status>>

\* status.struct_size is whatever the stack holds: the check may refuse it.
CheckRefused(m) == /\ pc[m] = "check"
                   /\ pc' = [pc EXCEPT ![m] = "loop"]
                   /\ Stays /\ UNCHANGED <<lifeVars, last_status, status>>

CheckDone(m) == /\ pc[m] = "check"
                /\ \E rate \in Rates : Check(rate)
                /\ status' = [status EXCEPT ![m] = last_status'.overall]
                /\ pc' = [pc EXCEPT ![m] = "alert"]
                /\ Stays /\ UNCHANGED lifeVars

Alert(m) == /\ pc[m] = "alert"
            /\ pc' = [pc EXCEPT ![m] = IF status[m] # "GOOD" /\ alert_callback
                                       THEN "callback" ELSE "loop"]
            /\ status' = [status EXCEPT ![m] = "GOOD"]
            /\ Stays /\ UNCHANGED <<lifeVars, last_status>>

\* The callback suspends or resumes the runtime (tests g_runtime without its
\* mutex), asks for a health check, or returns.
CallbackTests(m) == /\ pc[m] = "callback"
                    /\ initialized
                    /\ "lifecycle_manager" \in up
                    /\ pc' = [pc EXCEPT ![m] = "lifecycle"]
                    /\ Stays /\ UNCHANGED <<lifeVars, last_status, status>>

CallbackSuspends(m) == /\ pc[m] = "lifecycle"
                       /\ SuspendManager \/ ResumeManager \/ UNCHANGED lifeVars
                       /\ pc' = [pc EXCEPT ![m] = "loop"]
                       /\ Stays /\ UNCHANGED <<last_status, status>>

CallbackChecks(m) == /\ pc[m] = "callback"
                     /\ initialized
                     /\ \E rate \in Rates : Check(rate)
                     /\ pc' = [pc EXCEPT ![m] = "loop"]
                     /\ Stays /\ UNCHANGED <<lifeVars, status>>

CallbackReturns(m) == /\ pc[m] = "callback"
                      /\ pc' = [pc EXCEPT ![m] = "loop"]
                      /\ Stays /\ UNCHANGED <<lifeVars, last_status, status>>

Monitoring(m) == \/ Loop(m) \/ CheckRefused(m) \/ CheckDone(m) \/ Alert(m)
                 \/ CallbackTests(m) \/ CallbackSuspends(m) \/ CallbackChecks(m)
                 \/ CallbackReturns(m)

\* The main thread inside a call; stopping is its own choice only when idle.
AppContinues == \/ ValidateConfig \/ InitStep \/ InitFails \/ InitDone
                \/ ShutdownStep \/ ShutdownDone \/ Join
                \/ app # "idle" /\ StopMonitoring

AppCalls == \/ BeginInit \/ BeginShutdown \/ Suspend \/ HealthCheck \/ SetAlertCallback
            \/ app = "idle" /\ StopMonitoring
            \/ \E m \in Monitors : StartMonitoring(m)

Next == AppContinues \/ AppCalls \/ \E m \in Monitors : Monitoring(m)

\* A thread inside a library call keeps running, and callbacks return.
Fairness == WF_vars(AppContinues) /\ \A m \in Monitors : WF_vars(Monitoring(m))

Spec == Init /\ [][Next]_vars /\ Fairness

-----------------------------------------------------------------------------

TypeOK == /\ up \subseteq Subsystems
          /\ app \in {"idle", "validate", "init", "shutdown", "join", "join_shutdown"}
          /\ handlers \subseteq {Signals[i] : i \in 1..Len(Signals)}
          /\ pc \in [Monitors -> {"none", "loop", "check", "alert", "callback",
                                  "lifecycle", "exited"}]

\* Whenever the runtime is not initialised and no call is under way - after a
\* shutdown, or an initialisation that failed at any subsystem or signal -
\* nothing is left: no subsystem, no signal handler, no thread
\* (lgx_runtime_core.c lines 42-110, 554-726; lgx_lifecycle_manager.c 361-426).
NothingLeftBehind == app = "idle" /\ ~initialized =>
                        /\ up = {}
                        /\ handlers = {}
                        /\ \A m \in Monitors : pc[m] = "none"

\* A monitoring thread, callback included, runs only while the monitor and
\* everything it looks at or calls are up, and there is one at most
\* (lgx_health_monitor.c lines 102-115, 294-405).
MonitorTouchesLive ==
    /\ \A m \in Monitors : pc[m] # "none" =>
          {"health_monitor", "lifecycle_manager", "hardware_adapter", "memory_manager",
           "counters"} \subseteq up
    /\ \A m, n \in Monitors : pc[m] # "none" /\ pc[n] # "none" => m = n

\* The reported health is the worst of the conditions it lists, in whatever
\* order they were found (lgx_health_monitor.c lines 146-252).
WorstReported ==
    /\ last_status.overall = "CRITICAL" <=> last_status.degraded_features \cap {0, 2} # {}
    /\ last_status.overall = "GOOD" <=> last_status.degraded_features = {}

\* Every call of the main thread returns, whatever the monitoring thread is
\* doing when it is stopped (lgx_health_monitor.c lines 381-405).
RuntimeReturns == app # "idle" ~> app = "idle"

=============================================================================
