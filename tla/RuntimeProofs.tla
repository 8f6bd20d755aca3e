--------------------------- MODULE RuntimeProofs ---------------------------
(***************************************************************************)
(* Start and stop of the runtime for any set of monitoring threads: what   *)
(* a monitoring thread uses is up as long as it runs, and nothing is left  *)
(* once the runtime is down.                                               *)
(***************************************************************************)
EXTENDS Runtime, TLAPS

\* What MonitorTouchesLive asks for.
Needed == {"health_monitor", "lifecycle_manager", "hardware_adapter", "memory_manager",
           "counters"}

\* Going up, the subsystems that cannot be done without are there as far as the
\* list has been worked through; going down, those passed are gone.
UpTo(i) == \A k \in 1..(i - 1) : InitOrder[k] \in up \cup Optional
DownTo(i) == \A s \in up : \E k \in i..Len(ShutdownOrder) : s = ShutdownOrder[k]

\* The invariant, and the facts that make it inductive: a monitoring thread is
\* the one that the flags speak of, and exists only between the end of an
\* initialisation and the entry of the health monitor in ShutdownOrder.
RuntimeInv ==
    /\ up \subseteq Subsystems
    /\ at \in Nat
    /\ app \in {"idle", "validate", "init", "shutdown", "join", "join_shutdown"}
    /\ pc \in [Monitors -> {"none", "loop", "check", "alert", "callback",
                            "lifecycle", "exited"}]
    /\ initialized \in BOOLEAN
    /\ app \in {"validate", "init"} => ~initialized
    /\ app \in {"join", "join_shutdown"} => initialized
    /\ app = "idle" /\ ~initialized => up = {}
    /\ app = "validate" => up = {"error_handler"}
    /\ app = "init" => UpTo(at) /\ at >= 2
    /\ app \in {"idle", "join"} /\ initialized => Needed \subseteq up
    /\ app \in {"shutdown", "join_shutdown"} => DownTo(at) /\ at >= 1
    /\ handlers # {} => "lifecycle_manager" \in up
    /\ monitoring_enabled \in BOOLEAN
    /\ monitoring_enabled /\ "health_monitor" \in up => initialized
    /\ \A m \in Monitors : pc[m] # "none" =>
          /\ initialized
          /\ Needed \subseteq up
          /\ monitoring_enabled
          /\ monitoring_thread = m
          /\ app \in {"shutdown", "join_shutdown"} => at <= 3

-----------------------------------------------------------------------------
(* The two lists.                                                          *)

LEMMA InitList ==
    /\ Len(InitOrder) = 14
    /\ Subsystems = {"error_handler", "memory_monitor", "namespace", "counters",
                     "hardware_adapter", "capability_detector", "memory_manager",
                     "frame_arena", "persistent_heap", "platform_services",
                     "lifecycle_manager", "health_monitor", "telemetry", "trace"}
BY DEF InitOrder, Subsystems

LEMMA ShutdownList ==
    /\ Len(ShutdownOrder) = 14
    /\ ShutdownOrder[1] = "trace"
    /\ ShutdownOrder[2] = "telemetry"
    /\ ShutdownOrder[3] = "health_monitor"
    /\ \A s \in Subsystems : \E k \in 1..14 : s = ShutdownOrder[k]
<1>1. \A k \in 1..14 : ShutdownOrder[k] \in {ShutdownOrder[i] : i \in 1..14}
  OBVIOUS
<1>2. /\ Len(ShutdownOrder) = 14
      /\ ShutdownOrder[1] = "trace"
      /\ ShutdownOrder[2] = "telemetry"
      /\ ShutdownOrder[3] = "health_monitor"
  BY DEF ShutdownOrder
<1>3. ASSUME NEW s \in Subsystems PROVE s \in {ShutdownOrder[i] : i \in 1..14}
  BY InitList DEF ShutdownOrder
<1> QED
  BY <1>2, <1>3

\* An initialisation that has worked through its list has all that is needed.
LEMMA AllUp == ASSUME UpTo(Len(InitOrder) + 1) PROVE Needed \subseteq up
<1>1. \A k \in 1..14 : InitOrder[k] \in up \cup Optional
  BY InitList DEF UpTo
<1>2. /\ InitOrder[4] = "counters" /\ InitOrder[5] = "hardware_adapter"
      /\ InitOrder[7] = "memory_manager" /\ InitOrder[11] = "lifecycle_manager"
      /\ InitOrder[12] = "health_monitor"
  BY DEF InitOrder
<1> QED
  BY <1>1, <1>2 DEF Needed, Optional

\* A shutdown that has worked through its list has left nothing.
LEMMA AllDown == ASSUME NEW i \in Nat, i > Len(ShutdownOrder), DownTo(i) PROVE up = {}
BY ShutdownList DEF DownTo

-----------------------------------------------------------------------------
(* One step preserves the invariant.                                       *)

LEMMA RuntimeInit == Init => RuntimeInv
<1> SUFFICES ASSUME Init PROVE RuntimeInv
  OBVIOUS
<1>1. initialized \in BOOLEAN /\ monitoring_enabled \in BOOLEAN
  BY Zenon DEF Init
<1>2. ~initialized /\ ~monitoring_enabled
  BY DEF Init
<1>3. /\ up = {} /\ at \in Nat /\ app = "idle" /\ handlers = {}
      /\ pc = [m \in Monitors |-> "none"]
  BY DEF Init
<1> QED
  BY <1>1, <1>2, <1>3 DEF RuntimeInv

LEMMA GoingUp == RuntimeInv /\ (BeginInit \/ ValidateConfig \/ InitStep \/ InitDone) => RuntimeInv'
<1> SUFFICES ASSUME RuntimeInv, BeginInit \/ ValidateConfig \/ InitStep \/ InitDone
             PROVE  RuntimeInv'
  OBVIOUS
<1> USE DEF RuntimeInv, lifeVars, flagVars, coreVars
<1>1. CASE BeginInit
  BY <1>1, InitList DEF BeginInit, Needed
<1>2. CASE ValidateConfig
  <2>1. InitOrder[1] = "error_handler"
    BY DEF InitOrder
  <2>2. app' = "init" => UpTo(at)'
    BY <1>2, <2>1 DEF ValidateConfig, UpTo
  <2> QED
    BY <1>2, <2>2, InitList DEF ValidateConfig, Needed
<1>3. CASE InitStep
  <2>1. /\ at \in 2..14 /\ app = "init" /\ app' = "init" /\ at' = at + 1
        /\ up' = up \cup {InitOrder[at]} \/ (InitOrder[at] \in Optional /\ up' = up)
        /\ pc' = pc /\ initialized' = initialized
    BY <1>3, InitList DEF InitStep
  <2>2. UpTo(at)'
    BY <2>1 DEF UpTo
  <2>3. InitOrder[at] \in Subsystems
    BY <2>1, InitList DEF Subsystems
  <2>4. handlers' # {} => "lifecycle_manager" \in up'
    BY <1>3 DEF InitStep, Starts
  <2>5. \A m \in Monitors : pc[m] = "none"
    BY <2>1
  <2>6. /\ monitoring_enabled' \in BOOLEAN
        /\ monitoring_enabled' => "health_monitor" \notin up'
    <3>1. \/ monitoring_enabled' = FALSE
          \/ monitoring_enabled' = monitoring_enabled /\ InitOrder[at] # "health_monitor"
          \/ monitoring_enabled' = monitoring_enabled /\ up' = up
      BY <1>3 DEF InitStep, Starts
    <3>2. ~initialized /\ (monitoring_enabled => "health_monitor" \notin up)
      BY <2>1
    <3>3. monitoring_enabled' \in BOOLEAN
      <4>1. monitoring_enabled \in BOOLEAN
        OBVIOUS
      <4> QED BY <3>1, <4>1, Zenon
    <3>4. monitoring_enabled' => "health_monitor" \notin up'
      BY <2>1, <3>1, <3>2
    <3> QED BY <3>3, <3>4
  <2> QED
    BY <2>1, <2>2, <2>3, <2>4, <2>5, <2>6
<1>4. CASE InitDone
  <2>1. UpTo(Len(InitOrder) + 1)
    BY <1>4, InitList DEF InitDone, UpTo
  <2>2. Needed \subseteq up
    BY <2>1, AllUp
  <2> QED
    BY <1>4, <2>2 DEF InitDone
<1> QED
  BY <1>1, <1>2, <1>3, <1>4

LEMMA GoingDown ==
    RuntimeInv /\ (InitFails \/ BeginShutdown \/ ShutdownStep \/ ShutdownDone) => RuntimeInv'
<1> SUFFICES ASSUME RuntimeInv, InitFails \/ BeginShutdown \/ ShutdownStep \/ ShutdownDone
             PROVE  RuntimeInv'
  OBVIOUS
<1> USE DEF RuntimeInv, lifeVars, flagVars, coreVars
<1>1. CASE InitFails
  <2>1. \A k \in 1..3 : Restored(k) = {Signals[j] : j \in 1..(k - 1)}
    BY DEF Restored
  <2>2. up' \subseteq up
    BY <1>1 DEF InitFails
  <2>3. DownTo(at)'
    BY <1>1, <2>2, ShutdownList DEF InitFails, DownTo
  <2>4. InitOrder[at] = "lifecycle_manager" => handlers' = {}
    BY <1>1, <2>1 DEF InitFails, InstallFails, Signals
  <2>5. InitOrder[at] # "lifecycle_manager" => handlers' = handlers
    BY <1>1 DEF InitFails
  <2>6. "lifecycle_manager" \in up => "lifecycle_manager" \in up'
    BY <1>1 DEF InitFails
  <2>7. \A m \in Monitors : pc'[m] = "none"
    BY <1>1 DEF InitFails
  <2> QED
    BY <1>1, <2>2, <2>3, <2>4, <2>5, <2>6, <2>7 DEF InitFails
<1>2. CASE BeginShutdown
  <2>1. DownTo(at)'
    BY <1>2, ShutdownList DEF BeginShutdown, DownTo
  <2> QED
    BY <1>2, <2>1 DEF BeginShutdown
<1>3. CASE ShutdownStep
  <2>1. /\ at \in 1..14 /\ app = "shutdown" /\ app' = "shutdown" /\ at' = at + 1
        /\ up' = up \ {ShutdownOrder[at]} /\ ~MustStop
        /\ pc' = pc /\ initialized' = initialized
    BY <1>3, ShutdownList DEF ShutdownStep
  <2>2. DownTo(at)'
    BY <2>1 DEF DownTo
  <2>3. handlers' # {} => "lifecycle_manager" \in up'
    BY <1>3 DEF ShutdownStep, Ends
  <2>4. ASSUME NEW m \in Monitors, pc[m] # "none"
        PROVE  /\ Needed \subseteq up'
               /\ monitoring_enabled' /\ monitoring_thread' = m
               /\ at' <= 3
    <3>1. at # 3
      BY <2>1, <2>4, ShutdownList DEF MustStop, Needed
    <3>2. ShutdownOrder[at] \in {"trace", "telemetry"}
      BY <2>1, <2>4, <3>1, ShutdownList
    <3> QED
      BY <1>3, <2>1, <2>4, <3>1, <3>2 DEF ShutdownStep, Ends, Needed
  <2>5. monitoring_enabled' = monitoring_enabled
    BY <1>3 DEF ShutdownStep, Ends
  <2> QED
    BY <2>1, <2>2, <2>3, <2>4, <2>5
<1>4. CASE ShutdownDone
  <2>1. up = {}
    BY <1>4, AllDown DEF ShutdownDone
  <2> QED
    BY <1>4, <2>1 DEF ShutdownDone, Needed
<1> QED
  BY <1>1, <1>2, <1>3, <1>4

\* Calls that start or stop a monitoring thread.
LEMMA Threading ==
    ASSUME RuntimeInv, StopMonitoring \/ Join \/ \E m \in Monitors : StartMonitoring(m)
    PROVE  RuntimeInv'
<1> USE DEF RuntimeInv, lifeVars, flagVars, coreVars
<1>1. CASE StopMonitoring
  <2>1. DownTo(at)' <=> DownTo(at)
    BY <1>1 DEF StopMonitoring, DownTo
  <2>2. initialized
    BY <1>1 DEF StopMonitoring, MustStop
  <2> QED
    BY <1>1, <2>1, <2>2 DEF StopMonitoring
<1>2. CASE Join
  <2>1. DownTo(at)' <=> DownTo(at)
    BY <1>2 DEF Join, DownTo
  <2> QED
    BY <1>2, <2>1 DEF Join
<1>3. ASSUME NEW m \in Monitors, StartMonitoring(m) PROVE RuntimeInv'
  BY <1>3 DEF StartMonitoring
<1> QED
  BY <1>1, <1>2, <1>3

\* Calls and monitoring steps that leave the subsystems and the thread as they are.
LEMMA Staying ==
    ASSUME RuntimeInv,
           \/ Suspend \/ HealthCheck \/ SetAlertCallback \/ UNCHANGED vars
           \/ \E m \in Monitors : Monitoring(m)
    PROVE  RuntimeInv'
<1>1. /\ UNCHANGED <<coreVars, monitoring_enabled, monitoring_thread, handlers>>
      /\ pc' \in [Monitors -> {"none", "loop", "check", "alert", "callback",
                               "lifecycle", "exited"}]
      /\ \A m \in Monitors : pc'[m] = "none" <=> pc[m] = "none"
  <2> USE DEF RuntimeInv, lifeVars, flagVars, Stays
  <2>1. CASE Suspend \/ HealthCheck \/ SetAlertCallback \/ UNCHANGED vars
    BY <2>1 DEF Suspend, SuspendManager, ResumeManager, HealthCheck, SetAlertCallback, vars
  <2>2. ASSUME NEW m \in Monitors, Monitoring(m)
        PROVE  /\ UNCHANGED <<coreVars, flagVars, handlers>>
               /\ pc[m] # "none"
               /\ \E l \in {"loop", "check", "alert", "callback", "lifecycle", "exited"} :
                     pc' = [pc EXCEPT ![m] = l]
    BY <2>2 DEF Monitoring, Loop, CheckRefused, CheckDone, Alert, CallbackTests,
                CallbackSuspends, CallbackChecks, CallbackReturns, SuspendManager,
                ResumeManager
  <2> QED
    BY <2>1, <2>2
<1>2. UNCHANGED <<up, initialized, app, at>>
  BY <1>1 DEF coreVars
<1>3. (UpTo(at)' <=> UpTo(at)) /\ (DownTo(at)' <=> DownTo(at))
  BY <1>2 DEF UpTo, DownTo
<1> QED
  BY <1>1, <1>2, <1>3 DEF RuntimeInv

LEMMA RuntimeStep == RuntimeInv /\ [Next]_vars => RuntimeInv'
BY GoingUp, GoingDown, Threading, Staying DEF Next, AppContinues, AppCalls

\* For any number of monitoring threads: while one runs, its callback included,
\* the monitor and what it uses are up, and there is no other
\* (lgx_runtime_core.c lines 665-726, lgx_health_monitor.c lines 102-115).
THEOREM MonitorSafe == Spec => []MonitorTouchesLive
<1>1. RuntimeInv => MonitorTouchesLive
  BY DEF RuntimeInv, MonitorTouchesLive, Needed
<1> QED
  BY <1>1, RuntimeInit, RuntimeStep, PTL DEF Spec

\* After a shutdown, or an initialisation that failed anywhere, no subsystem,
\* signal handler or thread is left (lgx_runtime_core.c lines 42-110, 554-726).
THEOREM NothingLeft == Spec => []NothingLeftBehind
<1>1. RuntimeInv => NothingLeftBehind
  BY DEF RuntimeInv, NothingLeftBehind
<1> QED
  BY <1>1, RuntimeInit, RuntimeStep, PTL DEF Spec
=============================================================================
