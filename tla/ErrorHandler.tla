---------------------------- MODULE ErrorHandler ----------------------------
(***************************************************************************)
(* lgx_error_handler.c: threads report errors through two callbacks, the   *)
(* global one and the one of the runtime's handler, each under its own     *)
(* mutex, while the application replaces both with lgx_set_error_handler.  *)
(* One thread at a time calls lgx_set_error_handler and brings the runtime *)
(* up and down, the latter when nobody reports; a callback makes no call   *)
(* into LGX.                                                               *)
(***************************************************************************)
EXTENDS Integers, TLAPS

CONSTANTS Threads,      \* threads that report errors
          Callbacks,    \* pairs of a function and its user data
          None

ASSUME NoneIsNone == None \notin Threads \cup Callbacks

VARIABLES up,                      \* the runtime's handler exists
          callback,                \* handler->callback
          g_global_callback,
          mutex,                   \* who holds handler->mutex
          g_global_callback_mutex,
          pc, running,             \* of each thread: step, and callback under way
          spc, wanted,             \* lgx_set_error_handler: step and argument
          installed                \* history: argument of its last call to return

vars == <<up, callback, g_global_callback, mutex, g_global_callback_mutex,
          pc, running, spc, wanted, installed>>

locks == <<mutex, g_global_callback_mutex>>
callbacks == <<callback, g_global_callback>>
setter == <<spc, wanted, installed>>

-----------------------------------------------------------------------------

Init == /\ up = FALSE
        /\ callback = None
        /\ g_global_callback = None
        /\ mutex = None
        /\ g_global_callback_mutex = None
        /\ pc = [t \in Threads |-> "idle"]
        /\ running = [t \in Threads |-> None]
        /\ spc = "idle"
        /\ wanted = None
        /\ installed = None

\* lgx_error_handler_set_error, after it has filled in the thread's own context.
Report(t) ==
    /\ pc[t] = "idle"
    /\ pc' = [pc EXCEPT ![t] = IF up THEN "lock_handler" ELSE "lock_global"]
    /\ UNCHANGED <<up, callbacks, locks, running, setter>>

LockHandler(t) ==
    /\ pc[t] = "lock_handler"
    /\ mutex = None
    /\ mutex' = t
    /\ running' = [running EXCEPT ![t] = callback]
    /\ pc' = [pc EXCEPT ![t] = "in_handler"]
    /\ UNCHANGED <<up, callbacks, g_global_callback_mutex, setter>>

UnlockHandler(t) ==
    /\ pc[t] = "in_handler"
    /\ mutex' = None
    /\ running' = [running EXCEPT ![t] = None]
    /\ pc' = [pc EXCEPT ![t] = "lock_global"]
    /\ UNCHANGED <<up, callbacks, g_global_callback_mutex, setter>>

LockGlobal(t) ==
    /\ pc[t] = "lock_global"
    /\ g_global_callback_mutex = None
    /\ g_global_callback_mutex' = t
    /\ running' = [running EXCEPT ![t] = g_global_callback]
    /\ pc' = [pc EXCEPT ![t] = "in_global"]
    /\ UNCHANGED <<up, callbacks, mutex, setter>>

UnlockGlobal(t) ==
    /\ pc[t] = "in_global"
    /\ g_global_callback_mutex' = None
    /\ running' = [running EXCEPT ![t] = None]
    /\ pc' = [pc EXCEPT ![t] = "idle"]
    /\ UNCHANGED <<up, callbacks, mutex, setter>>

-----------------------------------------------------------------------------

\* lgx_set_error_handler: the global callback under its mutex, then the
\* runtime's under the other.
CallSet(cb) ==
    /\ spc = "idle"
    /\ spc' = "set_global"
    /\ wanted' = cb
    /\ UNCHANGED <<up, callbacks, locks, pc, running, installed>>

SetGlobal ==
    /\ spc = "set_global"
    /\ g_global_callback_mutex = None
    /\ g_global_callback' = wanted
    /\ spc' = IF up THEN "set_handler" ELSE "idle"
    /\ installed' = IF up THEN installed ELSE wanted
    /\ UNCHANGED <<up, callback, locks, pc, running, wanted>>

\* Mutant of SetHandler: the callback is replaced without its mutex.
SetHandlerUnlocked ==
    /\ spc = "set_handler"
    /\ callback' = wanted
    /\ spc' = "idle"
    /\ installed' = wanted
    /\ UNCHANGED <<up, g_global_callback, locks, pc, running, wanted>>

SetHandler ==
    /\ spc = "set_handler"
    /\ mutex = None
    /\ callback' = wanted
    /\ spc' = "idle"
    /\ installed' = wanted
    /\ UNCHANGED <<up, g_global_callback, locks, pc, running, wanted>>

Quiet == spc = "idle" /\ \A t \in Threads : pc[t] = "idle"

lgx_error_handler_init ==
    /\ Quiet /\ ~up
    /\ up' = TRUE
    /\ callback' = None
    /\ UNCHANGED <<g_global_callback, locks, pc, running, setter>>

lgx_error_handler_shutdown ==
    /\ Quiet /\ up
    /\ up' = FALSE
    /\ UNCHANGED <<callbacks, locks, pc, running, setter>>

-----------------------------------------------------------------------------

Step(t) == LockHandler(t) \/ UnlockHandler(t) \/ LockGlobal(t) \/ UnlockGlobal(t)

Next == \/ \E t \in Threads : Report(t) \/ Step(t)
        \/ \E cb \in Callbacks \cup {None} : CallSet(cb)
        \/ SetGlobal
        \/ SetHandler
        \/ lgx_error_handler_init
        \/ lgx_error_handler_shutdown

\* Every callback returns; a mutex is passed on in some fair order.
Fairness == /\ \A t \in Threads : SF_vars(Step(t))
            /\ SF_vars(SetGlobal) /\ SF_vars(SetHandler)

Spec == Init /\ [][Next]_vars /\ Fairness

-----------------------------------------------------------------------------

\* Once lgx_set_error_handler has returned, the callback it replaced is not
\* running and will not be called: the application may free its user data.
CallbackCurrent ==
    spc = "idle" => \A t \in Threads : running[t] \in {None, installed}

\* Reports and calls of lgx_set_error_handler return.
ErrorCallsReturn == /\ \A t \in Threads : (pc[t] # "idle") ~> (pc[t] = "idle")
                    /\ (spc # "idle") ~> (spc = "idle")

-----------------------------------------------------------------------------
(* Proof that a callback is current, for any threads and callbacks.          *)

\* A callback runs under the mutex that guards it and is the one that is
\* registered there, so neither can be replaced while it runs; between calls of
\* lgx_set_error_handler both are the one installed last (the runtime's may be
\* unset).
IInv ==
    /\ pc \in [Threads -> {"idle", "lock_handler", "in_handler", "lock_global", "in_global"}]
    /\ running \in [Threads -> Callbacks \cup {None}]
    /\ \A t \in Threads : pc[t] = "in_handler" => mutex = t /\ running[t] = callback
    /\ \A t \in Threads : pc[t] = "in_global" =>
                             g_global_callback_mutex = t /\ running[t] = g_global_callback
    /\ \A t \in Threads : pc[t] \notin {"in_handler", "in_global"} => running[t] = None
    /\ \A t \in Threads : pc[t] \in {"lock_handler", "in_handler"} => up
    /\ callback \in Callbacks \cup {None}
    /\ g_global_callback \in Callbacks \cup {None}
    /\ wanted \in Callbacks \cup {None}
    /\ spc \in {"idle", "set_global", "set_handler"}
    /\ spc = "set_handler" => g_global_callback = wanted
    /\ spc # "set_handler" => g_global_callback = installed /\ (up => callback \in {None, installed})

LEMMA InitIInv == Init => IInv
  BY NoneIsNone DEF Init, IInv

LEMMA NextIInv == IInv /\ [Next]_vars => IInv'
  <1> SUFFICES ASSUME IInv, [Next]_vars PROVE IInv'
    OBVIOUS
  <1> USE NoneIsNone DEF IInv, callbacks, locks, setter
  <1>1. CASE UNCHANGED vars
    BY <1>1 DEF vars
  <1>2. ASSUME NEW t \in Threads, Report(t) PROVE IInv'
    BY <1>2 DEF Report
  <1>3. ASSUME NEW t \in Threads, LockHandler(t) PROVE IInv'
    BY <1>3 DEF LockHandler
  <1>4. ASSUME NEW t \in Threads, UnlockHandler(t) PROVE IInv'
    BY <1>4 DEF UnlockHandler
  <1>5. ASSUME NEW t \in Threads, LockGlobal(t) PROVE IInv'
    BY <1>5 DEF LockGlobal
  <1>6. ASSUME NEW t \in Threads, UnlockGlobal(t) PROVE IInv'
    BY <1>6 DEF UnlockGlobal
  <1>7. ASSUME NEW cb \in Callbacks \cup {None}, CallSet(cb) PROVE IInv'
    BY <1>7 DEF CallSet
  <1>8. CASE SetGlobal
    BY <1>8 DEF SetGlobal
  <1>9. CASE SetHandler
    BY <1>9 DEF SetHandler
  <1>10. CASE lgx_error_handler_init
    BY <1>10 DEF lgx_error_handler_init, Quiet
  <1>11. CASE lgx_error_handler_shutdown
    BY <1>11 DEF lgx_error_handler_shutdown, Quiet
  <1> QED
    BY <1>1, <1>2, <1>3, <1>4, <1>5, <1>6, <1>7, <1>8, <1>9, <1>10, <1>11 DEF Next, Step

\* Whatever threads report errors, a replaced callback neither runs nor is called
\* after lgx_set_error_handler has returned.
THEOREM ReplacedCallbackNeverRuns == Spec => []CallbackCurrent
  <1>1. IInv => CallbackCurrent
    BY DEF IInv, CallbackCurrent
  <1> QED
    BY InitIInv, NextIInv, <1>1, PTL DEF Spec

=============================================================================
