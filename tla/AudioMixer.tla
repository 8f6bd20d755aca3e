----------------------------- MODULE AudioMixer -----------------------------
(***************************************************************************)
(* lgx_audio.c: buffers, sources in a linked list, and the mixer that      *)
(* moves every playing source on once per update.  Positions and pitches   *)
(* are in fractions of a frame, Unit of them to a frame.  One thread       *)
(* calls, and destroys no buffer that a source still uses.                 *)
(***************************************************************************)
EXTENDS Integers, FiniteSets, SequencesExt, FiniteSetsExt

CONSTANTS Sources, Buffers, Lengths,        \* frames a buffer may have
          Unit, MinPitch, MaxPitch,         \* 0.1 and 4.0 in the code
          Pitches,                          \* pitches an application asks for
          buffer_frames, max_sources,
          MaxDistance                       \* bound: distances compared

VARIABLES total_frames,    \* of each buffer, 0: there is none
          list,            \* the sources, last created first
          source_count,
          src,             \* struct lgx_aud_source
          read,            \* history: what an update that was the last call has read
          updates          \* history: updates since a source plays and does not loop

vars == <<total_frames, list, source_count, src, read, updates>>

NewSource(b) == [buffer |-> b, state |-> "STOPPED", position |-> 0, pitch |-> Unit,
                 looping |-> FALSE]

Freed == NewSource(CHOOSE b \in Buffers : TRUE)     \* a struct that is not there

Init == /\ total_frames = [b \in Buffers |-> 0]
        /\ list = <<>>
        /\ source_count = 0
        /\ src = [i \in Sources |-> Freed]
        /\ read = {}
        /\ updates = [i \in Sources |-> 0]

Live == Range(list)
Ending(s) == s.state = "PLAYING" /\ ~s.looping

-----------------------------------------------------------------------------
(* The mixer *)

\* Mutant of MixFrame: the frame read is not set back when a sound loops.
MixFrameReadsPastEnd(m) ==
    LET s == m.source
        at == s.position \div Unit
        past == at >= total_frames[s.buffer]
    IN  CASE m.done -> m
          [] past /\ ~s.looping -> [m EXCEPT !.source.state = "STOPPED", !.source.position = 0,
                                             !.done = TRUE]
          [] OTHER -> [m EXCEPT !.source.position = (IF past THEN 0 ELSE s.position) + s.pitch,
                                !.read = @ \cup {<<s.buffer, at>>}]

\* One frame of one source: read it and move on; at the end start over, or stop
\* and leave the loop.
MixFrame(m) ==
    LET s == m.source
        at == s.position \div Unit
        past == at >= total_frames[s.buffer]
    IN  CASE m.done -> m
          [] past /\ ~s.looping -> [m EXCEPT !.source.state = "STOPPED", !.source.position = 0,
                                             !.done = TRUE]
          [] OTHER -> [m EXCEPT !.source.position = (IF past THEN 0 ELSE s.position) + s.pitch,
                                !.read = @ \cup {<<s.buffer, IF past THEN 0 ELSE at>>}]

Mix(s) ==
    LET mixed[f \in 0..buffer_frames] ==
            IF f = 0 THEN [source |-> s, read |-> {}, done |-> s.state # "PLAYING"]
                     ELSE MixFrame(mixed[f - 1])
    IN  mixed[buffer_frames]

lgx_aud_update ==
    LET mix == [i \in Live |-> Mix(src[i])]
    IN  /\ src' = [i \in Sources |-> IF i \in Live THEN mix[i].source ELSE src[i]]
        /\ read' = UNION {mix[i].read : i \in Live}
        /\ updates' = [i \in Sources |-> IF i \in Live /\ Ending(mix[i].source) THEN updates[i] + 1 ELSE 0]
        /\ UNCHANGED <<total_frames, list, source_count>>

\* Attenuation as a fraction: numerator and denominator.
compute_attenuation(distance, ref, max_dist, rolloff) ==
    CASE distance <= ref -> <<1, 1>>
      [] distance > ref /\ distance >= max_dist -> <<0, 1>>
      [] OTHER -> <<ref, ref + rolloff * (distance - ref)>>

-----------------------------------------------------------------------------
(* Buffers and sources *)

\* Also lgx_aud_buffer_create_from_wav, when the file is one.
lgx_aud_buffer_create(b, frames) ==
    /\ total_frames[b] = 0
    /\ frames # 0
    /\ total_frames' = [total_frames EXCEPT ![b] = frames]
    /\ read' = {}
    /\ UNCHANGED <<list, source_count, src, updates>>

lgx_aud_buffer_destroy(b) ==
    /\ total_frames[b] # 0
    /\ \A i \in Live : src[i].buffer # b
    /\ total_frames' = [total_frames EXCEPT ![b] = 0]
    /\ read' = {}
    /\ UNCHANGED <<list, source_count, src, updates>>

lgx_aud_source_create(i, b) ==
    /\ i \notin Live
    /\ total_frames[b] # 0
    /\ source_count < max_sources
    /\ src' = [src EXCEPT ![i] = NewSource(b)]
    /\ list' = <<i>> \o list
    /\ source_count' = source_count + 1
    /\ read' = {}
    /\ UNCHANGED <<total_frames, updates>>

lgx_aud_source_destroy(i) ==
    /\ i \in Live
    /\ list' = SelectSeq(list, LAMBDA j : j # i)
    /\ source_count' = source_count - 1
    /\ src' = [src EXCEPT ![i] = Freed]
    /\ read' = {}
    /\ updates' = [updates EXCEPT ![i] = 0]
    /\ UNCHANGED total_frames

\* lgx_aud_destroy frees the sources; the buffers are the application's.
lgx_aud_destroy == /\ list # <<>>
                   /\ list' = <<>>
                   /\ source_count' = 0
                   /\ src' = [i \in Sources |-> Freed]
                   /\ read' = {}
                   /\ updates' = [i \in Sources |-> 0]
                   /\ UNCHANGED total_frames

SetSource(i, s) == /\ i \in Live
                   /\ src' = [src EXCEPT ![i] = s]
                   /\ read' = {}
                   /\ updates' = [updates EXCEPT ![i] = IF Ending(s) THEN @ ELSE 0]
                   /\ UNCHANGED <<total_frames, list, source_count>>

lgx_aud_source_play(i) == SetSource(i, [src[i] EXCEPT !.state = "PLAYING"])

lgx_aud_source_stop(i) == SetSource(i, [src[i] EXCEPT !.state = "STOPPED", !.position = 0])

lgx_aud_source_pause(i) ==
    SetSource(i, [src[i] EXCEPT !.state = IF @ = "PLAYING" THEN "PAUSED" ELSE @])

lgx_aud_source_set_looping(i, loop) == SetSource(i, [src[i] EXCEPT !.looping = loop])

lgx_aud_source_set_pitch(i, pitch) ==
    SetSource(i, [src[i] EXCEPT !.pitch = Max({MinPitch, Min({pitch, MaxPitch})})])

-----------------------------------------------------------------------------

Next == \/ lgx_aud_update
        \/ lgx_aud_destroy
        \/ \E b \in Buffers : \/ \E n \in Lengths : lgx_aud_buffer_create(b, n)
                              \/ lgx_aud_buffer_destroy(b)
        \/ \E i \in Sources : \/ \E b \in Buffers : lgx_aud_source_create(i, b)
                              \/ lgx_aud_source_destroy(i)
                              \/ lgx_aud_source_play(i)
                              \/ lgx_aud_source_stop(i)
                              \/ lgx_aud_source_pause(i)
                              \/ \E loop \in BOOLEAN : lgx_aud_source_set_looping(i, loop)
                              \/ \E p \in Pitches : lgx_aud_source_set_pitch(i, p)

Spec == Init /\ [][Next]_vars

-----------------------------------------------------------------------------

\* The mixer reads frames that are there, from buffers that are there; a stopped
\* source starts at the beginning; the list and its count agree and respect the
\* limit (lgx_aud_update, source_create, source_destroy, stop).
MixerSound ==
    /\ \A r \in read : r[2] < total_frames[r[1]]
    /\ \A i \in Live : src[i].state = "STOPPED" => src[i].position = 0
    /\ source_count = Len(list)
    /\ IsInjective(list)
    /\ source_count <= max_sources

\* Sound fades with distance: for every distance model that is accepted and does
\* not have both a reference distance and a roll-off of zero, the attenuation is
\* between 0 and 1 and a source further away is not louder (compute_attenuation).
SoundFades ==
    \A ref, max_dist, rolloff \in 0..MaxDistance :
        (ref <= max_dist /\ ref + rolloff > 0) =>
            \A d \in 0..(MaxDistance + 1) :
                LET near == compute_attenuation(d, ref, max_dist, rolloff)
                    far == compute_attenuation(d + 1, ref, max_dist, rolloff)
                IN  /\ near[2] > 0 /\ near[1] >= 0 /\ near[1] <= near[2]
                    /\ far[1] * near[2] <= near[1] * far[2]

\* A sound that does not loop comes to its end, whatever its pitch was meanwhile:
\* it is mixed no longer than a sound of its length takes at the lowest pitch
\* (lgx_aud_update, lgx_aud_source_set_pitch).
SoundsEnd ==
    \A i \in Live :
        (updates[i] * buffer_frames - 1) * MinPitch < total_frames[src[i].buffer] * Unit

=============================================================================
