----------------------------- MODULE MCServices -----------------------------
(***************************************************************************)
(* The runtime core with its health monitor, and the services around it,   *)
(* for TLC.  They share no state: one behaviour exercises one of them      *)
(* (`target') and the others stay as they start.                           *)
(***************************************************************************)
EXTENDS Runtime

CONSTANTS TELEMETRY_RING_SIZE, MaxPolls, MaxRecorded,
          TELEMETRY_RING_BUFFER_SIZE, ConfigSizes, MaxOffered,
          Threads, Sizes, max_memory_bytes, max_file_handles,
          TRACE_RING_BUFFER_SIZE, MaxTraced,
          Peers, NoPeer, max_connections, timeout_ms, Horizon,
          Bytes, MaxRun, MaxState,
          Radix, Numbers, Strings, max_len, capacity,
          Allocators, Blocks, RequestSizes, HOT_PATH_CACHE_SIZE, Capacity,
          Guarded, LGX_DELAYED_FRAMES, LGX_MAX_DELAYED_ALLOCS, FrameModulus,
          Main, Pages, FRAME_ARENA_COUNT, MaxMade,
          Totals, WINDOW_SIZE, SUSTAINED_GROWTH_COUNT, MaxSamples, MaxPeriods

VARIABLES target,
          tp_write_index, tp_read_index, tp_dropped_events,
          tp_shutdown_requested, tp_events, tp_game, tp_event, tp_r_idx,
          tp_wait_count, tp_child, tp_c_read, tp_c_write, tp_frame_count,
          tp_allocation_count, tp_accepted, tp_offered,
          te_enabled, te_user_consent, te_ring_buffer_size,
          te_overflow_policy, te_adaptive_sampling, te_collects, te_ring,
          te_frame_count, te_spike_count, te_offered,
          rl_current_memory_bytes, rl_peak_memory_bytes,
          rl_current_file_handles, rl_pc, rl_size, rl_new_total,
          rl_current_peak, rl_held, rl_open, rl_seen,
          tr_enabled, tr_events, tr_write_index, tr_dropped_events,
          tr_total_events, tr_pc, tr_write_idx, tr_event, tr_epc, tr_count,
          tr_i, tr_made, tr_cleared,
          nc_connections, nc_now, nc_heard,
          nd_prev, nd_curr, nd_max_out, nd_delta, nd_i, nd_dpos, nd_out,
          nd_phase, nd_cut,
          ns_buf, ns_overflow, ns_torn, ns_wrote, ns_pos, ns_got, ns_side,
          mm_up, mm_usable, mm_next, mm_head, mm_cache, mm_hot, mm_next_free,
          mm_slots, mm_held, mm_pc, mm_cls, mm_block, mm_old_head,
          mm_new_head, mm_asked,
          ms_malloced, ms_active_allocations, ms_active_count,
          ms_delayed_queue, ms_delayed_count, ms_current_frame, ms_freeing,
          ms_since,
          ia_initialized, ia_base, ia_used, ia_retired, ia_current_frame,
          ia_slabs, ia_magic, ia_malloced, ia_lifetime, ia_frame, ia_pc,
          ia_ptr, ia_tls, ia_global, ia_made,
          ld_initialized, ld_samples, ld_sample_count, ld_sample_index,
          ld_leak_detected, ld_consecutive_growth_count, ld_leak_alerts,
          ld_alert_callback, ld_pc, ld_series, ld_periods

tpVars == <<tp_write_index, tp_read_index, tp_dropped_events,
            tp_shutdown_requested, tp_events, tp_game, tp_event, tp_r_idx,
            tp_wait_count, tp_child, tp_c_read, tp_c_write, tp_frame_count,
            tp_allocation_count, tp_accepted, tp_offered>>
teVars == <<te_enabled, te_user_consent, te_ring_buffer_size,
            te_overflow_policy, te_adaptive_sampling, te_collects, te_ring,
            te_frame_count, te_spike_count, te_offered>>
rlVars == <<rl_current_memory_bytes, rl_peak_memory_bytes,
            rl_current_file_handles, rl_pc, rl_size, rl_new_total,
            rl_current_peak, rl_held, rl_open, rl_seen>>
trVars == <<tr_enabled, tr_events, tr_write_index, tr_dropped_events,
            tr_total_events, tr_pc, tr_write_idx, tr_event, tr_epc, tr_count,
            tr_i, tr_made, tr_cleared>>
ncVars == <<nc_connections, nc_now, nc_heard>>
ndVars == <<nd_prev, nd_curr, nd_max_out, nd_delta, nd_i, nd_dpos, nd_out,
            nd_phase, nd_cut>>
nsVars == <<ns_buf, ns_overflow, ns_torn, ns_wrote, ns_pos, ns_got, ns_side>>
mmVars == <<mm_up, mm_usable, mm_next, mm_head, mm_cache, mm_hot,
            mm_next_free, mm_slots, mm_held, mm_pc, mm_cls, mm_block,
            mm_old_head, mm_new_head, mm_asked>>
msVars == <<ms_malloced, ms_active_allocations, ms_active_count,
            ms_delayed_queue, ms_delayed_count, ms_current_frame, ms_freeing,
            ms_since>>
iaVars == <<ia_initialized, ia_base, ia_used, ia_retired, ia_current_frame,
            ia_slabs, ia_magic, ia_malloced, ia_lifetime, ia_frame, ia_pc,
            ia_ptr, ia_tls, ia_global, ia_made>>
ldVars == <<ld_initialized, ld_samples, ld_sample_count, ld_sample_index,
            ld_leak_detected, ld_consecutive_growth_count, ld_leak_alerts,
            ld_alert_callback, ld_pc, ld_series, ld_periods>>
othersVars == <<tpVars, teVars, rlVars, trVars, ncVars, ndVars, nsVars, mmVars, msVars, iaVars, ldVars>>
serviceVars == <<target, vars, othersVars>>

TP == INSTANCE TelemetryProcess WITH MaxEvents <- MaxRecorded,
                                     write_index <- tp_write_index,
                                     read_index <- tp_read_index,
                                     dropped_events <- tp_dropped_events,
                                     shutdown_requested <- tp_shutdown_requested,
                                     events <- tp_events, game <- tp_game,
                                     event <- tp_event, r_idx <- tp_r_idx,
                                     wait_count <- tp_wait_count,
                                     child <- tp_child, c_read <- tp_c_read,
                                     c_write <- tp_c_write,
                                     frame_count <- tp_frame_count,
                                     allocation_count <- tp_allocation_count,
                                     accepted <- tp_accepted,
                                     offered <- tp_offered

TE == INSTANCE Telemetry WITH enabled <- te_enabled,
                              user_consent <- te_user_consent,
                              ring_buffer_size <- te_ring_buffer_size,
                              overflow_policy <- te_overflow_policy,
                              adaptive_sampling <- te_adaptive_sampling,
                              collects <- te_collects, ring <- te_ring,
                              frame_count <- te_frame_count,
                              spike_count <- te_spike_count,
                              offered <- te_offered

RL == INSTANCE ResourceLimits WITH current_memory_bytes <- rl_current_memory_bytes,
                                   peak_memory_bytes <- rl_peak_memory_bytes,
                                   current_file_handles <- rl_current_file_handles,
                                   pc <- rl_pc, size <- rl_size,
                                   new_total <- rl_new_total,
                                   current_peak <- rl_current_peak,
                                   held <- rl_held, open <- rl_open,
                                   seen <- rl_seen

TR == INSTANCE TraceEvents WITH MaxEvents <- MaxTraced, QuietClear <- TRUE,
                                enabled <- tr_enabled, events <- tr_events,
                                write_index <- tr_write_index,
                                dropped_events <- tr_dropped_events,
                                total_events <- tr_total_events, pc <- tr_pc,
                                write_idx <- tr_write_idx, event <- tr_event,
                                epc <- tr_epc, count <- tr_count, i <- tr_i,
                                made <- tr_made, cleared <- tr_cleared

NT == INSTANCE Net WITH MaxSize <- MaxState,
                        connections <- nc_connections, now <- nc_now, heard <- nc_heard,
                        prev <- nd_prev, curr <- nd_curr, max_out <- nd_max_out,
                        delta <- nd_delta, i <- nd_i, dpos <- nd_dpos,
                        out <- nd_out, phase <- nd_phase, cut <- nd_cut,
                        buf <- ns_buf, overflow <- ns_overflow, torn <- ns_torn,
                        wrote <- ns_wrote, pos <- ns_pos, got <- ns_got, side <- ns_side

MM == INSTANCE MemoryManager WITH AnyThread <- FALSE, up <- mm_up,
                                  usable <- mm_usable, next <- mm_next,
                                  head <- mm_head, cache <- mm_cache,
                                  hot <- mm_hot, next_free <- mm_next_free,
                                  slots <- mm_slots, held <- mm_held,
                                  pc <- mm_pc, cls <- mm_cls,
                                  block <- mm_block, old_head <- mm_old_head,
                                  new_head <- mm_new_head, asked <- mm_asked

MS == INSTANCE MemorySafety WITH Blocks <- Guarded, malloced <- ms_malloced,
                                 active_allocations <- ms_active_allocations,
                                 active_count <- ms_active_count,
                                 delayed_queue <- ms_delayed_queue,
                                 delayed_count <- ms_delayed_count,
                                 current_frame <- ms_current_frame,
                                 freeing <- ms_freeing, since <- ms_since

IA == INSTANCE IntentAllocator WITH initialized <- ia_initialized,
                                    base <- ia_base, used <- ia_used,
                                    retired <- ia_retired,
                                    current_frame <- ia_current_frame,
                                    slabs <- ia_slabs, magic <- ia_magic,
                                    malloced <- ia_malloced,
                                    lifetime <- ia_lifetime,
                                    frame <- ia_frame, pc <- ia_pc,
                                    ptr <- ia_ptr, tls <- ia_tls,
                                    global <- ia_global, made <- ia_made

LD == INSTANCE LeakDetector WITH initialized <- ld_initialized,
                                 samples <- ld_samples,
                                 sample_count <- ld_sample_count,
                                 sample_index <- ld_sample_index,
                                 leak_detected <- ld_leak_detected,
                                 consecutive_growth_count <- ld_consecutive_growth_count,
                                 leak_alerts <- ld_leak_alerts,
                                 alert_callback <- ld_alert_callback,
                                 pc <- ld_pc, series <- ld_series,
                                 periods <- ld_periods

ServicesInit == /\ Init
                /\ TP!Init /\ TE!Init /\ RL!Init /\ TR!Init
                /\ NT!Init /\ MM!Init /\ MS!Init /\ IA!Init /\ LD!Init
                /\ target \in {"runtime", "telemetry process", "telemetry", "limits",
                                "trace", "connections", "delta", "stream",
                                "memory manager", "memory safety",
                                "intent", "leaks"}

OnlyRuntime == target = "runtime" /\ UNCHANGED <<target, othersVars>>

OnlyProcess == /\ target = "telemetry process"
               /\ UNCHANGED <<target, vars, teVars, rlVars, trVars, ncVars, ndVars,
                            nsVars, mmVars, msVars, iaVars,
                            ldVars>>

RuntimeNext == target = "runtime" /\ Next /\ UNCHANGED othersVars

ProcessNext == /\ target = "telemetry process" /\ TP!Next
               /\ UNCHANGED <<vars, teVars, rlVars, trVars, ncVars, ndVars, nsVars,
                              mmVars, msVars, iaVars, ldVars>>

TelemetryNext == /\ target = "telemetry" /\ TE!Next
                 /\ UNCHANGED <<vars, tpVars, rlVars, trVars, ncVars, ndVars, nsVars,
                                mmVars, msVars, iaVars, ldVars>>

LimitsNext == /\ target = "limits" /\ RL!Next
              /\ UNCHANGED <<vars, tpVars, teVars, trVars, ncVars, ndVars, nsVars,
                             mmVars, msVars, iaVars, ldVars>>

TraceNext == /\ target = "trace" /\ TR!Next
             /\ UNCHANGED <<vars, tpVars, teVars, rlVars, ncVars, ndVars, nsVars,
                            mmVars, msVars, iaVars, ldVars>>

ConnectionsNext == /\ target = "connections" /\ NT!ConnectionsNext
                   /\ UNCHANGED <<vars, tpVars, teVars, rlVars, trVars, ndVars, nsVars,
                                  mmVars, msVars, iaVars, ldVars>>

DeltaNext == /\ target = "delta" /\ NT!DeltaNext
             /\ UNCHANGED <<vars, tpVars, teVars, rlVars, trVars, ncVars, nsVars,
                            mmVars, msVars, iaVars, ldVars>>

StreamNext == /\ target = "stream" /\ NT!StreamNext
              /\ UNCHANGED <<vars, tpVars, teVars, rlVars, trVars, ncVars, ndVars,
                             mmVars, msVars, iaVars, ldVars>>

ManagerNext == /\ target = "memory manager" /\ MM!Next
               /\ UNCHANGED <<vars, tpVars, teVars, rlVars, trVars, ncVars, ndVars,
                              nsVars, msVars, iaVars, ldVars>>

SafetyNext == /\ target = "memory safety" /\ MS!Next
              /\ UNCHANGED <<vars, tpVars, teVars, rlVars, trVars, ncVars, ndVars,
                             nsVars, mmVars, iaVars, ldVars>>

IntentNext == /\ target = "intent" /\ IA!Next
              /\ UNCHANGED <<vars, tpVars, teVars, rlVars, trVars, ncVars, ndVars,
                             nsVars, mmVars, msVars, ldVars>>

LeaksNext == /\ target = "leaks" /\ LD!Next
             /\ UNCHANGED <<vars, tpVars, teVars, rlVars, trVars, ncVars, ndVars,
                            nsVars, mmVars, msVars, iaVars>>

ServicesNext == /\ \/ RuntimeNext \/ ProcessNext \/ TelemetryNext \/ LimitsNext \/ TraceNext
                   \/ ConnectionsNext \/ DeltaNext \/ StreamNext
                   \/ ManagerNext \/ SafetyNext \/ IntentNext \/ LeaksNext
                /\ UNCHANGED target

\* The fairness of Runtime and of TelemetryProcess.
ServicesSpec == /\ ServicesInit /\ [][ServicesNext]_serviceVars
                /\ WF_serviceVars(OnlyRuntime /\ AppContinues)
                /\ \A m \in Monitors : WF_serviceVars(OnlyRuntime /\ Monitoring(m))
                /\ WF_serviceVars(OnlyProcess /\ TP!GameContinues)

-----------------------------------------------------------------------------
\* Nothing outlives a shutdown or a failed start: no subsystem, handler or thread
\* of the runtime, no child of the telemetry process (lgx_runtime_core.c lines
\* 42-110, 554-726; lgx_telemetry_process.c lines 205-254).
NoRemains == NothingLeftBehind /\ TP!ChildReaped

\* No event is lost uncounted.  The figures of the telemetry child are those of the
\* events written, each counted once; the ring of the telemetry holds the events its
\* overflow policy keeps, in order; a traced event is in its slot, and an export
\* reads recorded events or slots still being filled; all others are counted as
\* dropped (lgx_telemetry_process.c lines 66-124, 259-287; lgx_telemetry.c lines
\* 489-525; lgx_trace_events.c lines 111-124, 352-420).
EventsAccounted == /\ TP!AggregatesExact /\ TE!RingHoldsLatest
                   /\ TR!TraceAccountsForEvents


\* What is encoded is decoded: state deltas and serialized values, within the room
\* given; of a delta that was cut off a beginning or an error (lgx_net.c lines
\* 328-496).
RoundTrips == NT!DeltaRoundTrips /\ NT!StreamRoundTrips


\* The reported health is the worst of the conditions it lists, and a leak is
\* reported once for each period of growth (lgx_health_monitor.c lines 146-252,
\* lgx_leak_detector.c lines 92-178).
ReportsTrue == WorstReported /\ LD!OneAlertPerLeak


\* Calls of the runtime and of the telemetry process return, whatever the
\* monitoring thread or the child does meanwhile (lgx_health_monitor.c lines
\* 381-405, lgx_telemetry_process.c lines 205-287).
ServicesReturn == RuntimeReturns /\ TP!ProcessReturns

=============================================================================
