------------------------------ MODULE MCDevices -----------------------------
(***************************************************************************)
(* The layers between a game and its devices, the error handler and the    *)
(* log, the profiler and the developer tools, for TLC.  They share no      *)
(* state: one behaviour exercises one of them (`target') and the others    *)
(* stay as they start.  The frames of a swapchain have a run of their own. *)
(***************************************************************************)
EXTENDS ErrorHandler

CONSTANTS LGX_GFX_MAX_FRAMES_IN_FLIGHT, ImageCount, MaxHandles, MaxCmds, UINT32_MAX,
          Nodes, MAX_DEVICES, LGX_IN_MAX_GAMEPADS, event_capacity, MaxPlugs, MaxUses,
          Sources, Buffers, Lengths, Unit, MinPitch, MaxPitch, Pitches, buffer_frames,
          max_sources, MaxDistance,
          Direct, SearchDirs, NoPlace, max_assets, max_paths, MaxWrites, Radix, MaxSize,
          Levels, Subsystems, LGX_LOG_MAX_ROTATIONS, LGX_LOG_RATE_LIMIT_DEFAULT,
          LGX_LOG_RATE_WINDOW_NS, LGX_LOG_MAX_SIZE, Rates, MaxSizes, NoFile,
          MaxLines, MaxDropped, Horizon,
          max_zones, MaxDepth, max_frames, MaxOpen,
          Zones, Times, max_records, Addresses, Sizes, MaxCalls

VARIABLES target,
          gx_live, gx_ok, gx_dev, gx_core, gx_handles, gx_active,
          gx_recording, gx_ended, gx_disk_cache_enabled, gx_file,
          id_plugged, id_inotify, id_sys, id_view, id_plugs, id_pads, id_uses,
          au_total_frames, au_list, au_source_count, au_src, au_read,
          au_updates,
          am_files, am_writes, am_search_paths, am_assets, am_watched,
          am_queue, am_reload_cb, am_todo, am_fsize,
          ac_data, ac_max_out, ac_packed, ac_si, ac_di, ac_out, ac_phase,
          ac_cut,
          ls_files, ls_log_file, ls_log_current_size, ls_log_max_size,
          ls_log_rotation_enabled, ls_min_log_level, ls_subsystem_filter,
          ls_rate, ls_now, ls_written, ls_window,
          pr_zones, pr_zone_stack, pr_frame_start, pr_frames, pr_frame_head,
          pr_frame_stored, pr_now, pr_open, pr_begun, pr_took, pr_refused,
          pr_times,
          dt_perf_frames, dt_perf_count, dt_perf_head, dt_perf_zones,
          dt_records, dt_active_bytes, dt_peak_bytes, dt_total_allocs,
          dt_perf_times, dt_spent, dt_live, dt_untracked, dt_highest, dt_tool,
          dt_calls,
          gf_in_flight, gf_image_available, gf_current_frame, gf_idx, gf_pc

gxVars == <<gx_live, gx_ok, gx_dev, gx_core, gx_handles, gx_active,
            gx_recording, gx_ended, gx_disk_cache_enabled, gx_file>>
idVars == <<id_plugged, id_inotify, id_sys, id_view, id_plugs, id_pads,
            id_uses>>
auVars == <<au_total_frames, au_list, au_source_count, au_src, au_read,
            au_updates>>
amVars == <<am_files, am_writes, am_search_paths, am_assets, am_watched,
            am_queue, am_reload_cb, am_todo, am_fsize>>
acVars == <<ac_data, ac_max_out, ac_packed, ac_si, ac_di, ac_out, ac_phase,
            ac_cut>>
lsVars == <<ls_files, ls_log_file, ls_log_current_size, ls_log_max_size,
            ls_log_rotation_enabled, ls_min_log_level, ls_subsystem_filter,
            ls_rate, ls_now, ls_written, ls_window>>
prVars == <<pr_zones, pr_zone_stack, pr_frame_start, pr_frames, pr_frame_head,
            pr_frame_stored, pr_now, pr_open, pr_begun, pr_took, pr_refused,
            pr_times>>
dtVars == <<dt_perf_frames, dt_perf_count, dt_perf_head, dt_perf_zones,
            dt_records, dt_active_bytes, dt_peak_bytes, dt_total_allocs,
            dt_perf_times, dt_spent, dt_live, dt_untracked, dt_highest,
            dt_tool, dt_calls>>
gfVars == <<gf_in_flight, gf_image_available, gf_current_frame, gf_idx, gf_pc>>
othersVars == <<gxVars, idVars, auVars, amVars, acVars, lsVars, prVars, dtVars, gfVars>>
deviceVars == <<target, vars, othersVars>>

\* A device with a family for graphics and transfers and one for compute only, and
\* a device that cannot draw.
FamilySets == {<<{"graphics", "transfer"}, {"compute"}>>, <<{"compute"}>>}

GX == INSTANCE Graphics WITH live <- gx_live, ok <- gx_ok, dev <- gx_dev,
                             core <- gx_core, handles <- gx_handles,
                             active <- gx_active, recording <- gx_recording,
                             ended <- gx_ended,
                             disk_cache_enabled <- gx_disk_cache_enabled,
                             file <- gx_file, in_flight <- gf_in_flight,
                             image_available <- gf_image_available,
                             current_frame <- gf_current_frame, idx <- gf_idx,
                             pc <- gf_pc

ID == INSTANCE InputDevices WITH plugged <- id_plugged, inotify <- id_inotify,
                                 sys <- id_sys, view <- id_view,
                                 plugs <- id_plugs, pads <- id_pads,
                                 uses <- id_uses

AU == INSTANCE AudioMixer WITH total_frames <- au_total_frames,
                               list <- au_list,
                               source_count <- au_source_count, src <- au_src,
                               read <- au_read, updates <- au_updates

AS == INSTANCE Asset WITH Bytes <- {0, 1}, files <- am_files,
                          writes <- am_writes,
                          search_paths <- am_search_paths,
                          assets <- am_assets, watched <- am_watched,
                          queue <- am_queue, reload_cb <- am_reload_cb,
                          todo <- am_todo, fsize <- am_fsize, data <- ac_data,
                          max_out <- ac_max_out, packed <- ac_packed,
                          si <- ac_si, di <- ac_di, out <- ac_out,
                          phase <- ac_phase, cut <- ac_cut

LS == INSTANCE LogService WITH files <- ls_files, log_file <- ls_log_file,
                               log_current_size <- ls_log_current_size,
                               log_max_size <- ls_log_max_size,
                               log_rotation_enabled <- ls_log_rotation_enabled,
                               min_log_level <- ls_min_log_level,
                               subsystem_filter <- ls_subsystem_filter,
                               rate <- ls_rate, now <- ls_now,
                               written <- ls_written, window <- ls_window

DI == INSTANCE Diagnostics WITH zones <- pr_zones,
                                zone_stack <- pr_zone_stack,
                                frame_start <- pr_frame_start,
                                frames <- pr_frames,
                                frame_head <- pr_frame_head,
                                frame_stored <- pr_frame_stored,
                                now <- pr_now, open <- pr_open,
                                begun <- pr_begun, took <- pr_took,
                                refused <- pr_refused, times <- pr_times,
                                perf_frames <- dt_perf_frames,
                                perf_count <- dt_perf_count,
                                perf_head <- dt_perf_head,
                                perf_zones <- dt_perf_zones,
                                records <- dt_records,
                                active_bytes <- dt_active_bytes,
                                peak_bytes <- dt_peak_bytes,
                                total_allocs <- dt_total_allocs,
                                perf_times <- dt_perf_times,
                                spent <- dt_spent, live <- dt_live,
                                untracked <- dt_untracked,
                                highest <- dt_highest, tool <- dt_tool,
                                calls <- dt_calls

DevicesInit == /\ Init
               /\ GX!Init /\ ID!Init /\ AU!Init /\ AS!Init /\ LS!Init /\ DI!Init
               /\ target \in {"errors", "graphics", "input", "audio", "assets",
                               "compression", "log", "profiler", "tools"}

ErrorsNext == target = "errors" /\ Next /\ UNCHANGED othersVars

GraphicsNext == /\ target = "graphics" /\ GX!ResourcesNext
                /\ UNCHANGED <<vars, idVars, auVars, amVars, acVars, lsVars,
                               prVars, dtVars, gfVars>>

InputNext == /\ target = "input" /\ ID!Next
             /\ UNCHANGED <<vars, gxVars, auVars, amVars, acVars, lsVars,
                            prVars, dtVars, gfVars>>

AudioNext == /\ target = "audio" /\ AU!Next
             /\ UNCHANGED <<vars, gxVars, idVars, amVars, acVars, lsVars,
                            prVars, dtVars, gfVars>>

AssetsNext == /\ target = "assets" /\ AS!ManagerNext
              /\ UNCHANGED <<vars, gxVars, idVars, auVars, acVars, lsVars,
                             prVars, dtVars, gfVars>>

CodecNext == /\ target = "compression" /\ AS!CodecNext
             /\ UNCHANGED <<vars, gxVars, idVars, auVars, amVars, lsVars,
                            prVars, dtVars, gfVars>>

LogNext == /\ target = "log" /\ LS!Next
           /\ UNCHANGED <<vars, gxVars, idVars, auVars, amVars, acVars,
                          prVars, dtVars, gfVars>>

ProfilerNext == /\ target = "profiler" /\ DI!ProfilerNext
                /\ UNCHANGED <<vars, gxVars, idVars, auVars, amVars, acVars,
                               lsVars, dtVars, gfVars>>

ToolsNext == /\ target = "tools" /\ DI!ToolsNext
             /\ UNCHANGED <<vars, gxVars, idVars, auVars, amVars, acVars,
                            lsVars, prVars, gfVars>>

DevicesNext == /\ ErrorsNext \/ GraphicsNext \/ InputNext \/ AudioNext \/ AssetsNext \/
                  CodecNext \/ LogNext \/ ProfilerNext \/ ToolsNext
               /\ UNCHANGED target

DevicesSpec == DevicesInit /\ [][DevicesNext]_deviceVars

-----------------------------------------------------------------------------
\* Every Vulkan object is destroyed once, before its parent, and nothing is left
\* after a failed call or when the application has destroyed what it created
\* (lgx_graphics.c).
GfxOwned == target = "graphics" => GX!GfxOwned


\* The mixer reads only frames that exist, a sound that does not loop comes to its
\* end whatever its pitch, the list of sources and its count agree, and sound
\* fades with distance (lgx_audio.c).
MixerSound == target = "audio" => AU!MixerSound /\ AU!SoundsEnd /\ AU!SoundFades

\* Hot reload misses no change, also of a file written while it is read; a compressed
\* asset is what it was, or, of a file that was cut off, a beginning of it or an
\* error (lgx_asset.c lines 72-335, 350-432).
AssetsIntact == /\ target = "assets" => AS!HotReloadCurrent /\ AS!DataIfReady
                /\ target = "compression" => AS!CodecRoundTrips


\* No zone is reported longer than it took, and exactly as long unless a zone_begin
\* was refused; the frame rate and the CSV file are of the last frames; the leaks and
\* byte counts are those of the live blocks that found a slot, though addresses and
\* slots are reused (lgx_profile.c lines 186-256, 308-322; lgx_tools.c lines 114-145,
\* 223-243, 290-301, 335-417).
DiagnosticsTrue == /\ target = "profiler" => DI!ZoneTimes /\ DI!HistoryKept
                   /\ target = "tools" => DI!AnalyzerTrue /\ DI!TrackerTrue

=============================================================================
