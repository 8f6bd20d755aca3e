----------------------------- MODULE LogService -----------------------------
(***************************************************************************)
(* The log of lgx_platform_services.c: filters, a token bucket, and files  *)
(* that are rotated when the current one is full.  Every call holds        *)
(* log_mutex from its rate check to its end, and reads the filters once    *)
(* before, so a call is one step.  The process may end and start again     *)
(* with the files it left.  A line is its number; it has size 1.           *)
(***************************************************************************)
EXTENDS Integers, SequencesExt, FiniteSetsExt

CONSTANTS Levels, Subsystems,
          LGX_LOG_MAX_ROTATIONS,
          LGX_LOG_RATE_LIMIT_DEFAULT, LGX_LOG_RATE_WINDOW_NS,
          LGX_LOG_MAX_SIZE,
          Rates, MaxSizes,       \* arguments of the setters
          NoFile,
          MaxLines, MaxDropped, Horizon   \* bounds: lines written, lines dropped, time

VARIABLES files,                 \* log, log.1, ...: lines, or NoFile
          log_file,              \* is the current file open?
          log_current_size, log_max_size, log_rotation_enabled,
          min_log_level, subsystem_filter,
          rate,                  \* the rate_limit_ fields, and rate_limiting_enabled
          now,
          written,               \* history: number of lines that went to the files
          window                 \* history: a time, and the lines accepted since

vars == <<files, log_file, log_current_size, log_max_size, log_rotation_enabled,
          min_log_level, subsystem_filter, rate, now, written, window>>

config == <<log_max_size, log_rotation_enabled, min_log_level, subsystem_filter>>
storage == <<files, log_file, log_current_size, written>>

\* The lines in a file, none if there is no file.
Lines(f) == IF f = NoFile THEN <<>> ELSE f

NewRate(t) == [enabled |-> TRUE, tokens |-> LGX_LOG_RATE_LIMIT_DEFAULT,
               max |-> LGX_LOG_RATE_LIMIT_DEFAULT, refill |-> LGX_LOG_RATE_LIMIT_DEFAULT,
               last |-> t, dropped |-> 0]

NewWindow == [since |-> now, accepted |-> 0]

Init == /\ now = 0
        /\ files = [i \in 0..(LGX_LOG_MAX_ROTATIONS - 1) |-> IF i = 0 THEN <<>> ELSE NoFile]
        /\ log_file = TRUE
        /\ log_current_size = 0
        /\ log_max_size = LGX_LOG_MAX_SIZE
        /\ log_rotation_enabled = TRUE
        /\ min_log_level = Min(Levels)
        /\ subsystem_filter = {}
        /\ rate = NewRate(0)
        /\ written = 0
        /\ window = NewWindow

\* Mutant of lgx_platform_services_init: the size starts at zero.
InitSizeZero ==
    \E opened \in BOOLEAN :
        /\ log_file' = opened
        /\ files' = IF opened THEN [files EXCEPT ![0] = Lines(@)] ELSE files
        /\ log_current_size' = 0

\* The log is opened to append and its size taken, or that fails and lines go to
\* stderr.
lgx_platform_services_init ==
    \E opened \in BOOLEAN :
        /\ log_file' = opened
        /\ files' = IF opened THEN [files EXCEPT ![0] = Lines(@)] ELSE files
        /\ log_current_size' = IF opened THEN Len(Lines(files[0])) ELSE 0

\* The process ends, with or without lgx_platform_services_shutdown (every line
\* is flushed), and a new one starts.
Restart == /\ lgx_platform_services_init
           /\ log_max_size' = LGX_LOG_MAX_SIZE
           /\ log_rotation_enabled' = TRUE
           /\ min_log_level' = Min(Levels)
           /\ subsystem_filter' = {}
           /\ rate' = NewRate(now)
           /\ window' = NewWindow
           /\ UNCHANGED <<now, written>>

-----------------------------------------------------------------------------
(* check_rate_limit *)


Refilled(r) ==
    LET tokens_to_add == ((now - r.last) * r.refill) \div LGX_LOG_RATE_WINDOW_NS
    IN  IF tokens_to_add = 0 THEN r
        ELSE [r EXCEPT !.tokens = Min({@ + tokens_to_add, r.max}), !.last = now]

check_rate_limit(r) ==
    IF ~r.enabled THEN [rate |-> r, allowed |-> TRUE]
    ELSE LET f == Refilled(r)
         IN  IF f.tokens > 0
             THEN [rate |-> [f EXCEPT !.tokens = @ - 1], allowed |-> TRUE]
             ELSE [rate |-> [f EXCEPT !.dropped = @ + 1], allowed |-> FALSE]

-----------------------------------------------------------------------------
(* rotate_log_file *)

Rename(fs, i) == IF fs[i] = NoFile THEN fs ELSE [fs EXCEPT ![i + 1] = fs[i], ![i] = NoFile]

\* The oldest file goes, then every one moves up, oldest first.
Rotated(fs) ==
    FoldLeft(Rename, [fs EXCEPT ![LGX_LOG_MAX_ROTATIONS - 1] = NoFile],
             [k \in 1..(LGX_LOG_MAX_ROTATIONS - 1) |-> LGX_LOG_MAX_ROTATIONS - 1 - k])

\* The rest of lgx_log_impl: rotate if the file is full, write the line.  Opening
\* the new file may fail, and then the log is on stderr until a restart.
WriteLine ==
    LET full == log_file /\ log_rotation_enabled /\ log_current_size >= log_max_size
        fs == IF full THEN [Rotated(files) EXCEPT ![0] = <<>>] ELSE files
        line == written + 1
    IN  \/ /\ log_file
           /\ files' = [fs EXCEPT ![0] = Append(@, line)]
           /\ log_current_size' = (IF full THEN 0 ELSE log_current_size) + 1
           /\ written' = line
           /\ UNCHANGED log_file
        \/ /\ full
           /\ files' = Rotated(files)
           /\ log_file' = FALSE
           /\ log_current_size' = 0
           /\ UNCHANGED written
        \/ /\ ~log_file
           /\ UNCHANGED storage

\* lgx_log and lgx_log_tagged, once the filters have let the line through.
Log ==
    LET c == check_rate_limit(rate)
    IN  /\ written < MaxLines
        /\ rate' = c.rate
        /\ c.rate.dropped <= MaxDropped
        /\ IF c.allowed
           THEN WriteLine /\ window' = [window EXCEPT !.accepted = IF rate.enabled THEN @ + 1 ELSE @]
           ELSE UNCHANGED <<storage, window>>
        /\ UNCHANGED <<config, now>>

lgx_log(level) == level >= min_log_level /\ Log

lgx_log_tagged(subsystem, level) ==
    /\ level >= min_log_level
    /\ subsystem_filter # {} => subsystem \in subsystem_filter
    /\ Log

-----------------------------------------------------------------------------
(* Setters; setting the rate starts a new window *)

lgx_set_log_rate_limit(n) ==
    /\ n > 0
    /\ rate' = [rate EXCEPT !.refill = n, !.max = n, !.tokens = Min({@, n})]
    /\ window' = NewWindow
    /\ UNCHANGED <<storage, config, now>>

lgx_set_log_rate_limiting_enabled(on) ==
    /\ rate' = [rate EXCEPT !.enabled = on]
    /\ window' = NewWindow
    /\ UNCHANGED <<storage, config, now>>

lgx_reset_log_dropped_count ==
    /\ rate' = [rate EXCEPT !.dropped = 0]
    /\ UNCHANGED <<storage, config, now, window>>

lgx_set_log_filter(level) ==
    /\ min_log_level' = level
    /\ UNCHANGED <<storage, log_max_size, log_rotation_enabled, subsystem_filter, rate, now, window>>

lgx_set_subsystem_filter(mask) ==
    /\ subsystem_filter' = mask
    /\ UNCHANGED <<storage, log_max_size, log_rotation_enabled, min_log_level, rate, now, window>>

lgx_set_log_max_size(n) ==
    /\ log_max_size' = n
    /\ UNCHANGED <<storage, log_rotation_enabled, min_log_level, subsystem_filter, rate, now, window>>

lgx_set_log_rotation_enabled(on) ==
    /\ log_rotation_enabled' = on
    /\ UNCHANGED <<storage, log_max_size, min_log_level, subsystem_filter, rate, now, window>>

Tick == /\ now < Horizon
        /\ now' = now + 1
        /\ window' \in {window, [since |-> now + 1, accepted |-> 0]}
        /\ UNCHANGED <<storage, config, rate>>

Next == \/ \E l \in Levels : lgx_log(l) \/ \E s \in Subsystems : lgx_log_tagged(s, l)
        \/ \E l \in Levels : lgx_set_log_filter(l)
        \/ \E m \in SUBSET Subsystems : lgx_set_subsystem_filter(m)
        \/ \E n \in Rates : lgx_set_log_rate_limit(n)
        \/ \E on \in BOOLEAN : lgx_set_log_rate_limiting_enabled(on)
        \/ lgx_reset_log_dropped_count
        \/ \E n \in MaxSizes : lgx_set_log_max_size(n)
        \/ \E on \in BOOLEAN : lgx_set_log_rotation_enabled(on)
        \/ Restart
        \/ Tick

Spec == Init /\ [][Next]_vars

-----------------------------------------------------------------------------

Logged == FlattenSeq([k \in 1..LGX_LOG_MAX_ROTATIONS |-> Lines(files[LGX_LOG_MAX_ROTATIONS - k])])

\* The files, from the oldest to the current one, are the newest lines written, in
\* order and with none missing, over any number of rotations, failures to open and
\* restarts; the size that decides when to rotate is the current file's
\* (rotate_log_file, lgx_log_impl, lgx_platform_services_init).
LogsKept ==
    /\ Logged = [k \in 1..Len(Logged) |-> written - Len(Logged) + k]
    /\ log_file => log_current_size = Len(files[0])

\* The limiter lets through at most its burst and what has been refilled since,
\* plus one for the fraction of a token it had, in every stretch of time
\* (check_rate_limit, lgx_set_log_rate_limit).
RateHolds ==
    rate.enabled =>
        /\ rate.tokens <= rate.max
        /\ (window.accepted - rate.max - 1) * LGX_LOG_RATE_WINDOW_NS
              <= (now - window.since) * rate.refill

=============================================================================
