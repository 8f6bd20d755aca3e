-------------------------- MODULE TelemetryProcess --------------------------
(***************************************************************************)
(* lgx_telemetry_process.c: the game process writes events into a ring in  *)
(* shared memory, a forked child adds them up.  The child may die or be    *)
(* held up at any point; shutdown gives it a second and then kills it.     *)
(* One thread of the game records events.                                  *)
(***************************************************************************)
EXTENDS Integers, Sequences, FiniteSets

CONSTANTS TELEMETRY_RING_SIZE,
          MaxPolls,     \* 100: polls of waitpid before SIGKILL
          MaxEvents     \* bound: events recorded

VARIABLES write_index, read_index, dropped_events, shutdown_requested, events,
          game,         \* next step of the game's thread
          event, r_idx, \* the event being written, its copy of read_index
          wait_count,
          child,        \* next step of the child, or what became of it
          c_read, c_write,
          frame_count, allocation_count,
          accepted,     \* history: every event written, in order
          offered       \* history: events recorded

shm == <<write_index, read_index, dropped_events, shutdown_requested, events>>
childVars == <<child, c_read, c_write, frame_count, allocation_count>>
gameVars == <<game, event, r_idx, wait_count, accepted, offered>>
vars == <<shm, gameVars, childVars>>

Types == {"frame", "memory", "allocation"}

\* lgx_telemetry_process_init, when nothing fails.
Init == /\ write_index = 0
        /\ read_index = 0
        /\ dropped_events = 0
        /\ shutdown_requested = FALSE
        /\ events = [i \in 0..(TELEMETRY_RING_SIZE - 1) |-> "frame"]
        /\ game = "idle"
        /\ event = "frame"
        /\ r_idx = 0
        /\ wait_count = 0
        /\ child = "loop"
        /\ c_read = 0
        /\ c_write = 0
        /\ frame_count = 0
        /\ allocation_count = 0
        /\ accepted = <<>>
        /\ offered = 0

-----------------------------------------------------------------------------
(* lgx_telemetry_process_record_*, lgx_telemetry_process_write_event *)

Record(e) == /\ game = "idle"
             /\ offered < MaxEvents
             /\ event' = e
             /\ r_idx' = read_index
             /\ game' = "check"
             /\ offered' = offered + 1
             /\ UNCHANGED <<shm, childVars, wait_count, accepted>>

Drop == /\ game = "check"
        /\ write_index - r_idx >= TELEMETRY_RING_SIZE
        /\ dropped_events' = dropped_events + 1
        /\ game' = "idle"
        /\ UNCHANGED <<write_index, read_index, shutdown_requested, events, event, r_idx,
                       wait_count, accepted, offered, childVars>>

Write == /\ game = "check"
         /\ write_index - r_idx < TELEMETRY_RING_SIZE
         /\ events' = [events EXCEPT ![write_index % TELEMETRY_RING_SIZE] = event]
         /\ accepted' = Append(accepted, event)
         /\ game' = "publish"
         /\ UNCHANGED <<write_index, read_index, dropped_events, shutdown_requested, event,
                        r_idx, wait_count, offered, childVars>>

Publish == /\ game = "publish"
           /\ write_index' = write_index + 1
           /\ game' = "idle"
           /\ UNCHANGED <<read_index, dropped_events, shutdown_requested, events, event,
                          r_idx, wait_count, accepted, offered, childVars>>

-----------------------------------------------------------------------------
(* lgx_telemetry_process_shutdown *)

Shutdown == /\ game = "idle"
            /\ shutdown_requested' = TRUE
            /\ wait_count' = 0
            /\ game' = "wait"
            /\ UNCHANGED <<write_index, read_index, dropped_events, events, event, r_idx,
                           accepted, offered, childVars>>

\* waitpid(WNOHANG) collects a child that has exited.
Reap == /\ game = "wait"
        /\ wait_count < MaxPolls
        /\ child = "exited"
        /\ child' = "reaped"
        /\ game' = "done"
        /\ UNCHANGED <<shm, event, r_idx, wait_count, accepted, offered, c_read, c_write,
                       frame_count, allocation_count>>

Poll == /\ game = "wait"
        /\ wait_count < MaxPolls
        /\ child # "exited"
        /\ wait_count' = wait_count + 1
        /\ UNCHANGED <<shm, game, event, r_idx, accepted, offered, childVars>>

\* Mutant of Kill: the waitpid that blocks, without the SIGKILL before it.
AwaitUnkilled == /\ game = "wait"
                 /\ wait_count >= MaxPolls
                 /\ child = "exited"
                 /\ child' = "reaped"
                 /\ game' = "done"
                 /\ UNCHANGED <<shm, event, r_idx, wait_count, accepted, offered, c_read,
                                c_write, frame_count, allocation_count>>

\* SIGKILL and the waitpid that blocks until it has taken effect.
Kill == /\ game = "wait"
        /\ wait_count >= MaxPolls
        /\ child' = "reaped"
        /\ game' = "done"
        /\ UNCHANGED <<shm, event, r_idx, wait_count, accepted, offered, c_read, c_write,
                       frame_count, allocation_count>>

-----------------------------------------------------------------------------
(* telemetry_process_main *)

ChildLoop == /\ child = "loop"
             /\ child' = IF shutdown_requested THEN "exited" ELSE "load"
             /\ c_read' = read_index
             /\ UNCHANGED <<shm, gameVars, c_write, frame_count, allocation_count>>

ChildLoad == /\ child = "load"
             /\ c_write' = write_index
             /\ child' = IF c_read = write_index THEN "loop" ELSE "aggregate"
             /\ UNCHANGED <<shm, gameVars, c_read, frame_count, allocation_count>>

Aggregate == /\ child = "aggregate"
             /\ LET type == events[c_read % TELEMETRY_RING_SIZE]
                IN  /\ frame_count' = frame_count + (IF type = "frame" THEN 1 ELSE 0)
                    /\ allocation_count' =
                          allocation_count + (IF type = "allocation" THEN 1 ELSE 0)
             /\ child' = "advance"
             /\ UNCHANGED <<shm, gameVars, c_read, c_write>>

Advance == /\ child = "advance"
           /\ read_index' = c_read + 1
           /\ child' = "loop"
           /\ UNCHANGED <<write_index, dropped_events, shutdown_requested, events, gameVars,
                          c_read, c_write, frame_count, allocation_count>>

\* The child is killed from outside, or fails.
ChildDies == /\ child \in {"loop", "load", "aggregate", "advance"}
             /\ child' = "exited"
             /\ UNCHANGED <<shm, gameVars, c_read, c_write, frame_count, allocation_count>>

GameContinues == Drop \/ Write \/ Publish \/ Reap \/ Poll \/ Kill

Next == \/ \E e \in Types : Record(e)
        \/ Shutdown \/ GameContinues
        \/ ChildLoop \/ ChildLoad \/ Aggregate \/ Advance \/ ChildDies

\* The calling thread runs; nothing is assumed of the child.
Fairness == WF_vars(GameContinues)

Spec == Init /\ [][Next]_vars /\ Fairness

-----------------------------------------------------------------------------

OfType(n, type) == Cardinality({i \in 1..n : accepted[i] = type})

\* What the child has added up is exactly the first events written, each once
\* and unchanged, whatever was dropped and whenever it is interrupted; every
\* event recorded was either written or counted as dropped (lines 66-110,
\* 259-287).
AggregatesExact ==
    /\ LET n == read_index + (IF child = "advance" THEN 1 ELSE 0)
       IN  child \in {"loop", "load", "aggregate", "advance"} =>
              /\ frame_count = OfType(n, "frame")
              /\ allocation_count = OfType(n, "allocation")
    /\ read_index <= write_index /\ write_index - read_index <= TELEMETRY_RING_SIZE
    /\ offered = Len(accepted) + dropped_events + (IF game = "check" THEN 1 ELSE 0)

\* Shutdown leaves neither a running child nor a zombie (lines 205-233).
ChildReaped == game = "done" => child = "reaped"

\* Recording and shutdown return even if the child never runs again.
ProcessReturns == game \notin {"idle", "done"} ~> game \in {"idle", "done"}

=============================================================================
