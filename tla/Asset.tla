-------------------------------- MODULE Asset -------------------------------
(***************************************************************************)
(* lgx_asset.c: assets found along search paths, read into memory, and     *)
(* read again when inotify reports that the file has changed.  Other       *)
(* programs write, create and delete the file at any moment, also while it *)
(* is being read.  One asset name; the file with that name may be in each  *)
(* of Places, and its contents are the number of the write that made them. *)
(* The application's reload callback reloads every asset it has loaded.    *)
(* And the compression of assets: literal runs <<0, low, high, bytes...>>  *)
(* and repeated bytes <<1, byte, low, high>>.  The compressed file may be  *)
(* shorter when it is read back.                                           *)
(***************************************************************************)
EXTENDS Integers, SequencesExt

CONSTANTS Direct,            \* the path as it was given
          SearchDirs, NoPlace,
          max_assets, max_paths,
          MaxWrites,         \* bound: writes by other programs
          Bytes,             \* values of a data byte
          Radix,             \* 256: values of a length byte
          MaxSize            \* bound: bytes of the data

Places == {Direct} \cup SearchDirs

VARIABLES files,             \* what each place holds, 0: no such file
          writes,
          search_paths,
          assets,            \* resolved, state, data, and whether changes are seen
          watched, queue,    \* inotify: directories, events not read yet
          reload_cb,         \* there is a callback
          todo,              \* assets that are still to be read, in this call
          fsize              \* the contents that fstat saw, 0: not open

managerVars == <<files, writes, search_paths, assets, watched, queue, reload_cb, todo, fsize>>

ManagerInit == /\ files = [d \in Places |-> 0]
               /\ writes = 0
               /\ search_paths = <<>>
               /\ assets = <<>>
               /\ watched = {}
               /\ queue = <<>>
               /\ reload_cb = FALSE
               /\ todo = <<>>
               /\ fsize = 0

Idle == todo = <<>>
mgrUnchanged == UNCHANGED <<search_paths, watched, reload_cb>>

Mixed == -1                  \* contents put together from two versions

-----------------------------------------------------------------------------
(* Other programs, and inotify *)

\* Mutant of Mask: a file that disappears is not reported.
MaskNoDelete == {"IN_MODIFY", "IN_CREATE"}

Mask == {"IN_MODIFY", "IN_CREATE", "IN_DELETE"}

\* The kernel merges an event with an equal one at the end of its queue.
Notify(d, kind) ==
    queue' = IF d \notin watched \/ kind \notin Mask \/ (queue # <<>> /\ Last(queue) = <<d, kind>>)
             THEN queue ELSE Append(queue, <<d, kind>>)

Write(d) == /\ writes < MaxWrites
            /\ writes' = writes + 1
            /\ files' = [files EXCEPT ![d] = writes + 1]
            /\ Notify(d, IF files[d] = 0 THEN "IN_CREATE" ELSE "IN_MODIFY")
            /\ mgrUnchanged /\ UNCHANGED <<assets, todo, fsize>>

Delete(d) == /\ files[d] # 0
             /\ files' = [files EXCEPT ![d] = 0]
             /\ Notify(d, "IN_DELETE")
             /\ mgrUnchanged /\ UNCHANGED <<writes, assets, todo, fsize>>

-----------------------------------------------------------------------------
(* read_file: open and fstat, then read *)

Seen(d) == d \in watched /\ reload_cb

\* The old data is freed first; without a file the asset is in error.
OpenFile ==
    LET i == Head(todo)
        there == files[assets[i].resolved] # 0
    IN  /\ ~Idle /\ fsize = 0
        /\ assets' = [assets EXCEPT ![i].data = 0,
                                    ![i].state = IF there THEN @ ELSE "ERROR",
                                    ![i].seen = Seen(assets[i].resolved)]
        /\ todo' = IF there THEN todo ELSE Tail(todo)
        /\ fsize' = files[assets[i].resolved]
        /\ mgrUnchanged /\ UNCHANGED <<files, writes, queue>>

\* A file written meanwhile may give its old contents, its new ones, a mixture,
\* or fewer bytes than fstat promised; a deleted one can still be read.
ReadFile ==
    LET i == Head(todo)
        now == files[assets[i].resolved]
    IN  /\ ~Idle /\ fsize # 0
        /\ \/ \E d \in IF now \in {0, fsize} THEN {fsize} ELSE {fsize, now, Mixed} :
                assets' = [assets EXCEPT ![i].data = d, ![i].state = "READY"]
           \/ /\ now \notin {0, fsize}
              /\ assets' = [assets EXCEPT ![i].state = "ERROR"]
        /\ todo' = Tail(todo)
        /\ fsize' = 0
        /\ mgrUnchanged /\ UNCHANGED <<files, writes, queue>>

-----------------------------------------------------------------------------
(* The manager *)

Found == SelectSeq(<<Direct>> \o search_paths, LAMBDA d : files[d] # 0)

\* The first place that has the file; what is left in `resolved' when none has.
resolve_path == CASE Found # <<>> -> Head(Found)
                  [] Found = <<>> /\ search_paths # <<>> -> Last(search_paths)
                  [] OTHER -> NoPlace

\* An asset that is not found is registered all the same.
lgx_asset_load ==
    /\ Idle
    /\ Len(assets) < max_assets
    /\ assets' = Append(assets, [resolved |-> resolve_path, state |-> "ERROR", data |-> 0,
                                 seen |-> Seen(resolve_path)])
    /\ todo' = IF Found = <<>> THEN <<>> ELSE <<Len(assets) + 1>>
    /\ mgrUnchanged /\ UNCHANGED <<files, writes, queue, fsize>>

lgx_asset_unload(i) ==
    /\ Idle
    /\ assets' = [assets EXCEPT ![i].data = 0, ![i].state = "UNLOADED"]
    /\ mgrUnchanged /\ UNCHANGED <<files, writes, queue, todo, fsize>>

lgx_asset_reload(i) ==
    /\ Idle
    /\ assets[i].resolved # NoPlace
    /\ todo' = <<i>>
    /\ mgrUnchanged /\ UNCHANGED <<files, writes, assets, queue, fsize>>

\* The application's callback, once per event.
Reloads == SelectSeq([i \in 1..Len(assets) |-> i],
                     LAMBDA i : assets[i].state # "UNLOADED" /\ assets[i].resolved # NoPlace)

\* One read of inotify returns the first n events, as many as the buffer holds.
lgx_asset_manager_update ==
    /\ Idle
    /\ \E n \in 1..Len(queue) :
          /\ queue' = SubSeq(queue, n + 1, Len(queue))
          /\ todo' = IF reload_cb THEN FlattenSeq([e \in 1..n |-> Reloads]) ELSE <<>>
    /\ mgrUnchanged /\ UNCHANGED <<files, writes, assets, fsize>>

lgx_asset_manager_add_path(d) ==
    /\ Idle
    /\ Len(search_paths) < max_paths
    /\ search_paths' = Append(search_paths, d)
    /\ UNCHANGED <<files, writes, assets, watched, queue, reload_cb, todo, fsize>>

lgx_asset_watch(d) ==
    /\ Idle
    /\ watched' = watched \cup {d}
    /\ UNCHANGED <<files, writes, search_paths, assets, queue, reload_cb, todo, fsize>>

lgx_asset_set_reload_callback ==
    /\ Idle
    /\ reload_cb' = TRUE
    /\ UNCHANGED <<files, writes, search_paths, assets, watched, queue, todo, fsize>>

\* Destroyed, and created again.
lgx_asset_manager_destroy ==
    /\ Idle
    /\ search_paths' = <<>> /\ assets' = <<>>
    /\ watched' = {} /\ queue' = <<>> /\ reload_cb' = FALSE
    /\ UNCHANGED <<files, writes, todo, fsize>>

-----------------------------------------------------------------------------

ManagerNext == \/ \E d \in Places : Write(d) \/ Delete(d) \/ lgx_asset_watch(d)
               \/ \E d \in SearchDirs : lgx_asset_manager_add_path(d)
               \/ OpenFile
               \/ ReadFile
               \/ lgx_asset_load
               \/ \E i \in 1..Len(assets) : lgx_asset_unload(i) \/ lgx_asset_reload(i)
               \/ lgx_asset_manager_update
               \/ lgx_asset_set_reload_callback
               \/ lgx_asset_manager_destroy

-----------------------------------------------------------------------------
(* lgx_asset_compress and lgx_asset_decompress *)

LongestRun == Radix * Radix - 1     \* 65535

VARIABLES data, max_out, packed, si, di, out, phase, cut

codecVars == <<data, max_out, packed, si, di, out, phase, cut>>

CodecInit == /\ data = <<>>
             /\ max_out = 0
             /\ packed = <<>>
             /\ si = 1
             /\ di = 1
             /\ out = <<>>
             /\ phase = "idle"
             /\ cut = FALSE

Enough(n) == 2 * n + 2

\* lgx_asset_compress is called, with too little room for some data or with enough.
Begin == /\ phase = "idle"
         /\ data' \in UNION {[1..n -> Bytes] : n \in 1..MaxSize}
         /\ max_out' \in {Len(data'), Enough(Len(data'))}
         /\ phase' = "compress"
         /\ UNCHANGED <<packed, si, di, out, cut>>

\* Mutant of EqualRun: the run is not capped where its length ends.
EqualUncapped(k) == LET cap == Len(data) - k + 1 IN
    CHOOSE n \in 1..cap : /\ \A j \in k..(k + n - 1) : data[j] = data[k]
                          /\ n = cap \/ data[k + n] # data[k]

\* How many bytes from k on are equal, up to LongestRun.
EqualRun(k) == LET left == Len(data) - k + 1
                   cap == IF left < LongestRun THEN left ELSE LongestRun IN
    CHOOSE n \in 1..cap : /\ \A j \in k..(k + n - 1) : data[j] = data[k]
                          /\ n = cap \/ data[k + n] # data[k]

\* Four equal bytes start at k: a literal run ends before them.
RunStarts(k) == k + 3 <= Len(data) /\ \A j \in 1..3 : data[k + j] = data[k]

LiteralLength == LET left == Len(data) - si + 1
                     cap == IF left < LongestRun THEN left ELSE LongestRun IN
    CHOOSE n \in 1..cap : /\ \A j \in (si + 1)..(si + n - 1) : ~RunStarts(j)
                          /\ n = cap \/ RunStarts(si + n)

u16(n) == <<n % Radix, (n \div Radix) % Radix>>

Emit(token, n) ==
    /\ phase = "compress"
    /\ IF Len(packed) + Len(token) > max_out
       THEN phase' = "refused" /\ UNCHANGED <<packed, si>>
       ELSE packed' = packed \o token /\ si' = si + n /\ UNCHANGED phase
    /\ UNCHANGED <<data, max_out, di, out, cut>>

CompressRun == /\ si <= Len(data) /\ EqualRun(si) >= 4
               /\ Emit(<<1, data[si]>> \o u16(EqualRun(si)), EqualRun(si))

CompressLiteral ==
    /\ si <= Len(data) /\ EqualRun(si) < 4
    /\ Emit(<<0>> \o u16(LiteralLength) \o SubSeq(data, si, si + LiteralLength - 1),
            LiteralLength)

\* The asset is stored and read back, possibly not all of it.
Store == /\ phase = "compress" /\ si > Len(data)
         /\ \E n \in 1..Len(packed) : /\ packed' = SubSeq(packed, 1, n)
                                      /\ cut' = (n < Len(packed))
         /\ phase' = "decompress"
         /\ UNCHANGED <<data, max_out, si, di, out>>

\* `run' decompresses a token of n cells, or the call returns -1: the token is
\* longer than the input, or its bytes do not fit into a buffer of the data's size.
Take(n, run) ==
    /\ IF di + n - 1 > Len(packed) \/ Len(out) + Len(run) > Len(data)
       THEN phase' = "error" /\ UNCHANGED <<out, di>>
       ELSE out' = out \o run /\ di' = di + n /\ UNCHANGED phase
    /\ UNCHANGED <<data, max_out, packed, si, cut>>

At(k) == IF k <= Len(packed) THEN packed[k] ELSE 0
Length(k) == At(k) + Radix * At(k + 1)

DecompressLiteral ==
    /\ phase = "decompress" /\ di <= Len(packed) /\ packed[di] = 0
    /\ Take(3 + Length(di + 1), [j \in 1..Length(di + 1) |-> At(di + 2 + j)])

DecompressRun ==
    /\ phase = "decompress" /\ di <= Len(packed) /\ packed[di] = 1
    /\ Take(4, [j \in 1..Length(di + 2) |-> At(di + 1)])

DecompressDone == /\ phase = "decompress" /\ di > Len(packed)
                  /\ phase' = "done"
                  /\ UNCHANGED <<data, max_out, packed, si, di, out, cut>>

CodecNext == \/ Begin \/ CompressRun \/ CompressLiteral \/ Store
             \/ DecompressLiteral \/ DecompressRun \/ DecompressDone

-----------------------------------------------------------------------------

vars == <<managerVars, codecVars>>

Init == ManagerInit /\ CodecInit

Next == \/ ManagerNext /\ UNCHANGED codecVars
        \/ CodecNext /\ UNCHANGED managerVars

Spec == Init /\ [][Next]_vars

-----------------------------------------------------------------------------

\* Hot reload misses nothing: when no event is waiting and no call is under way,
\* an asset that was read while its directory was watched and a callback was set
\* is what is in its file, also when the file was written while it was read
\* (lgx_asset_watch, lgx_asset_manager_update, lgx_asset_reload, read_file).
HotReloadCurrent ==
    (Idle /\ queue = <<>>) =>
        \A i \in 1..Len(assets) :
            (assets[i].seen /\ assets[i].state # "UNLOADED") =>
                assets[i].data = files[assets[i].resolved]

\* Between calls an asset has data exactly if it is ready.
DataIfReady ==
    Idle => \A i \in 1..Len(assets) : (assets[i].data # 0) = (assets[i].state = "READY")

\* The compressor stays within max_out and is content with two bytes for each
\* and two more; decompression gives the data back, of a file that was cut off a
\* beginning of it or an error.
CodecRoundTrips ==
    /\ Len(packed) <= max_out
    /\ phase = "refused" => max_out < Enough(Len(data))
    /\ IsPrefix(out, data)
    /\ phase = "done" /\ ~cut => out = data
    /\ phase = "error" => cut

=============================================================================
