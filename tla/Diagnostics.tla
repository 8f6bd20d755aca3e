---------------------------- MODULE Diagnostics -----------------------------
(***************************************************************************)
(* The frame profiler of src/profile/lgx_profile.c: the zones of a frame   *)
(* with the stack of those that are open, and the history of frame times.  *)
(* The application nests its zones and, as the macros of the header do,    *)
(* calls zone_end for every zone_begin, whatever that returned.  Zones may *)
(* be open when a frame begins or ends.  frame_end copies the zones as     *)
(* they are; the copies, which the queries read, are left out.             *)
(* And the developer tools of src/tools/lgx_tools.c.                       *)
(***************************************************************************)
EXTENDS Integers, SequencesExt

CONSTANTS max_zones, MaxDepth, max_frames,
          Horizon, MaxOpen, \* bounds on the clock and on the application's nesting
          Zones, Times, max_records, Addresses, Sizes,
          MaxCalls          \* bound: calls of the tools

VARIABLES zones,            \* the zones of this frame: start, duration, closed, call
          zone_stack,       \* indices of open zones
          frame_start,
          frames, frame_head, frame_stored,
          now,
          open,             \* the application's open zones: call number and start
          begun,            \* calls of zone_begin since the frame began
          took,             \* how long the zones that ended took, by call
          refused,          \* a zone_begin was refused since the frame began
          times             \* the frames that ended, the last max_frames of them

zoneVars == <<zones, zone_stack, open, begun, took, refused>>
frameVars == <<frame_start, frames, frame_head, frame_stored, times>>
profilerVars == <<zoneVars, frameVars, now>>

ProfilerInit == /\ zones = <<>> /\ zone_stack = <<>>
                /\ frame_start = 0
                /\ frames = [i \in 0..max_frames - 1 |-> 0] /\ frame_head = 0 /\ frame_stored = 0
                /\ now = 0 /\ open = <<>> /\ begun = 0 /\ took = <<>> /\ refused = FALSE
                /\ times = <<>>

lgx_prof_frame_begin ==
  /\ frame_start' = now
  /\ zones' = <<>> /\ zone_stack' = <<>>
  /\ begun' = 0 /\ took' = <<>> /\ refused' = FALSE
  /\ open' = [i \in DOMAIN open |-> [open[i] EXCEPT !.call = 0]]
  /\ UNCHANGED <<frames, frame_head, frame_stored, times, now>>

lgx_prof_frame_end ==
  LET ms == now - frame_start IN
  /\ frames' = [frames EXCEPT ![frame_head] = ms]
  /\ frame_head' = (frame_head + 1) % max_frames
  /\ frame_stored' = IF frame_stored < max_frames THEN frame_stored + 1 ELSE frame_stored
  /\ times' = LET all == Append(times, ms)
              IN  IF Len(all) > max_frames THEN Tail(all) ELSE all
  /\ UNCHANGED <<zoneVars, frame_start, now>>

Zone(call) == [start |-> now, duration |-> 0, closed |-> FALSE, call |-> call]

lgx_prof_zone_begin ==
  /\ Len(open) < MaxOpen
  /\ begun < max_zones + 1
  /\ begun' = begun + 1
  /\ open' = Append(open, [call |-> begun + 1, start |-> now])
  /\ took' = Append(took, 0)
  /\ IF Len(zones) >= max_zones \/ Len(zone_stack) >= MaxDepth
     THEN refused' = TRUE /\ UNCHANGED <<zones, zone_stack>>
     ELSE /\ zones' = Append(zones, Zone(begun + 1))
          /\ zone_stack' = Append(zone_stack, Len(zones) + 1)
          /\ UNCHANGED refused
  /\ UNCHANGED <<frameVars, now>>

Closed(i) == [zones EXCEPT ![i] = [@ EXCEPT !.duration = now - zones[i].start, !.closed = TRUE]]

\* Mutant of CloseZone: the zone begun last is closed, not the one on the stack.
CloseNewest == zones' = Closed(Len(zones)) /\ zone_stack' = Front(zone_stack)

CloseZone == zones' = Closed(Last(zone_stack)) /\ zone_stack' = Front(zone_stack)

lgx_prof_zone_end ==
  /\ open # <<>>
  /\ open' = Front(open)
  /\ LET z == Last(open) IN
       took' = IF z.call = 0 THEN took ELSE [took EXCEPT ![z.call] = now - z.start]
  /\ IF zone_stack = <<>> THEN UNCHANGED <<zones, zone_stack>> ELSE CloseZone
  /\ UNCHANGED <<begun, refused, frameVars, now>>

Tick == now < Horizon /\ now' = now + 1 /\ UNCHANGED <<zoneVars, frameVars>>

ProfilerNext == \/ lgx_prof_frame_begin \/ lgx_prof_frame_end
                \/ lgx_prof_zone_begin \/ lgx_prof_zone_end
                \/ Tick

-----------------------------------------------------------------------------
(* The performance analyzer (a ring of frame times and a table of zones) and *)
(* the memory tracker (a table of allocations, searched from the start for a *)
(* free slot or for an address).  An address comes back once its block is    *)
(* freed; the application records an allocation after it is made and a free  *)
(* before it is done.                                                        *)

VARIABLES perf_frames, perf_count, perf_head, \* the ring
          perf_zones,       \* sequence of name, total and call count
          records,          \* slots: address, size, alloc_id, active
          active_bytes, peak_bytes, total_allocs,
          perf_times,       \* the frame times, the last max_frames of them
          spent,            \* time of the zones that were accepted
          live,             \* the application's blocks: address |-> size
          untracked,        \* blocks whose allocation was not recorded, the table being full
          highest,          \* most bytes in tracked blocks so far
          tool, calls

perfVars == <<perf_frames, perf_count, perf_head, perf_zones, perf_times, spent>>
trackVars == <<records, active_bytes, peak_bytes, total_allocs, live, untracked, highest>>
toolVars == <<perfVars, trackVars, tool, calls>>

Free == [ptr |-> "none", size |-> 0, alloc_id |-> 0, active |-> FALSE]

\* The analyzer and the tracker are separate objects: a behaviour uses one of them.
ToolsInit == /\ perf_frames = [i \in 0..max_frames - 1 |-> 0] /\ perf_count = 0 /\ perf_head = 0
             /\ perf_zones = <<>>
             /\ records = [i \in 1..max_records |-> Free]
             /\ active_bytes = 0 /\ peak_bytes = 0 /\ total_allocs = 0
             /\ perf_times = <<>> /\ spent = [z \in Zones |-> 0]
             /\ live = <<>> /\ untracked = {} /\ highest = 0
             /\ tool = "none" /\ calls = 0

Using(t) == /\ tool \in {"none", t} /\ tool' = t
            /\ calls < MaxCalls /\ calls' = calls + 1

lgx_perf_record_frame(t) ==
  /\ Using("analyzer")
  /\ perf_frames' = [perf_frames EXCEPT ![perf_head] = t]
  /\ perf_head' = (perf_head + 1) % max_frames
  /\ perf_count' = IF perf_count < max_frames THEN perf_count + 1 ELSE perf_count
  /\ perf_times' = LET all == Append(perf_times, t)
                   IN  IF Len(all) > max_frames THEN Tail(all) ELSE all
  /\ UNCHANGED <<perf_zones, spent, trackVars>>

Known(z) == {i \in DOMAIN perf_zones : perf_zones[i].name = z}

lgx_perf_record_zone(z, t) ==
  /\ Using("analyzer")
  /\ \/ /\ Known(z) # {}
        /\ perf_zones' = [i \in DOMAIN perf_zones |->
                            IF i \in Known(z)
                            THEN [perf_zones[i] EXCEPT !.total_ms = @ + t, !.call_count = @ + 1]
                            ELSE perf_zones[i]]
        /\ spent' = [spent EXCEPT ![z] = @ + t]
     \/ /\ Known(z) = {} /\ Len(perf_zones) < max_zones
        /\ perf_zones' = Append(perf_zones, [name |-> z, total_ms |-> t, call_count |-> 1])
        /\ spent' = [spent EXCEPT ![z] = @ + t]
     \/ /\ Known(z) = {} /\ Len(perf_zones) >= max_zones
        /\ UNCHANGED <<perf_zones, spent>>
  /\ UNCHANGED <<perf_frames, perf_count, perf_head, perf_times, trackVars>>

\* The zones of lgx_perf_get_hot_zones: the first max_count of the table, sorted.
lgx_perf_get_hot_zones(max_count) ==
  SortSeq(SubSeq(perf_zones, 1, IF Len(perf_zones) > max_count THEN max_count ELSE Len(perf_zones)),
          LAMBDA a, b : a.total_ms > b.total_ms)

\* Mutant of lgx_perf_export_csv: the ring is written from its first slot on.
ExportFromFirstSlot == [i \in 1..perf_count |-> perf_frames[i - 1]]

\* The times in the order lgx_perf_export_csv writes them.
lgx_perf_export_csv ==
  [i \in 1..perf_count |->
     perf_frames[IF perf_count < max_frames THEN i - 1 ELSE (perf_head + i - 1) % max_frames]]

-----------------------------------------------------------------------------
Larger(a, b) == IF a > b THEN a ELSE b
First(S) == CHOOSE i \in S : \A j \in S : i <= j
Inactive == {i \in DOMAIN records : ~ records[i].active}
Bytes(f) == FoldFunction(LAMBDA a, b : a + b, 0, f)
Tracked == {p \in DOMAIN live : p \notin untracked}

lgx_memtrack_record_alloc(p, n) ==
  /\ Using("tracker") /\ p \notin DOMAIN live
  /\ live' = [q \in DOMAIN live \cup {p} |-> IF q = p THEN n ELSE live[q]]
  /\ \/ /\ Inactive # {}
        /\ records' = [records EXCEPT ![First(Inactive)] =
                         [ptr |-> p, size |-> n, alloc_id |-> total_allocs + 1, active |-> TRUE]]
        /\ active_bytes' = active_bytes + n
        /\ total_allocs' = total_allocs + 1
        /\ peak_bytes' = Larger(peak_bytes, active_bytes + n)
        /\ highest' = Larger(highest, Bytes([q \in Tracked |-> live[q]]) + n)
        /\ UNCHANGED untracked
     \/ /\ Inactive = {}
        /\ untracked' = untracked \cup {p}
        /\ UNCHANGED <<records, active_bytes, peak_bytes, total_allocs, highest>>
  /\ UNCHANGED perfVars

Match(p) == {i \in DOMAIN records : records[i].active /\ records[i].ptr = p}

lgx_memtrack_record_free(p) ==
  /\ Using("tracker") /\ p \in DOMAIN live
  /\ live' = [q \in DOMAIN live \ {p} |-> live[q]]
  /\ untracked' = untracked \ {p}
  /\ IF Match(p) = {} THEN UNCHANGED <<records, active_bytes>>
     ELSE LET i == First(Match(p)) IN
            /\ active_bytes' = active_bytes - records[i].size
            /\ records' = [records EXCEPT ![i].active = FALSE]
  /\ UNCHANGED <<peak_bytes, total_allocs, highest, perfVars>>

\* What lgx_memtrack_find_leaks lists when there is room for all of it.
lgx_memtrack_find_leaks ==
  {<<records[i].ptr, records[i].size>> : i \in {j \in DOMAIN records : records[j].active}}

ToolsNext == \/ \E t \in Times : lgx_perf_record_frame(t)
             \/ \E z \in Zones, t \in Times : lgx_perf_record_zone(z, t)
             \/ \E p \in Addresses, n \in Sizes : lgx_memtrack_record_alloc(p, n)
             \/ \E p \in Addresses : lgx_memtrack_record_free(p)

-----------------------------------------------------------------------------

vars == <<profilerVars, toolVars>>

Init == ProfilerInit /\ ToolsInit

Next == \/ ProfilerNext /\ UNCHANGED toolVars
        \/ ToolsNext /\ UNCHANGED profilerVars

Spec == Init /\ [][Next]_vars

-----------------------------------------------------------------------------
\* The frames whose times lgx_prof_get_fps adds up, oldest first.
FpsFrames == LET start == (frame_head + max_frames - frame_stored) % max_frames
             IN  [i \in 1..frame_stored |-> frames[(start + i - 1) % max_frames]]

StillOpen(call) == \E i \in DOMAIN open : open[i].call = call

\* No zone is ever reported as longer than it took, though zone_end closes an outer
\* zone too early after a zone_begin that was refused (lines 229-230, 248-253).  When
\* none was refused in the frame, every zone has exactly its time, also when zones
\* are open across the ends of frames.
ZoneTimes ==
  \A i \in DOMAIN zones :
    LET z == zones[i] IN
      /\ z.closed => \/ StillOpen(z.call)
                     \/ z.duration <= took[z.call]
      /\ ~ refused => /\ z.closed <=> ~ StillOpen(z.call)
                      /\ z.closed => z.duration = took[z.call]

\* The frame rate is taken over the last max_frames frames, each once (lines 209-217,
\* 308-322).
HistoryKept == FpsFrames = times

\* The CSV file is the last frames in order, and the hot zones, when there is room
\* for all, are every zone with the time it was given, slowest first (lines 114-145,
\* 223-243, 290-301).
AnalyzerTrue ==
  /\ lgx_perf_export_csv = perf_times
  /\ LET hot == lgx_perf_get_hot_zones(max_zones) IN
       /\ \A i, j \in DOMAIN hot : i < j => hot[i].total_ms >= hot[j].total_ms
       /\ \A z \in Zones : spent[z] > 0 =>
            \E i \in DOMAIN hot : hot[i].name = z /\ hot[i].total_ms = spent[z]
       /\ \A i, j \in DOMAIN hot : hot[i].name = hot[j].name => i = j

\* The leaks are exactly the live blocks whose allocation found a slot, and the byte
\* counts are theirs, however addresses and slots are reused and whether or not the
\* table was full (lines 335-379, 400-417).
TrackerTrue ==
  /\ lgx_memtrack_find_leaks = {<<p, live[p]>> : p \in Tracked}
  /\ active_bytes = Bytes([p \in Tracked |-> live[p]])
  /\ peak_bytes = highest

=============================================================================
