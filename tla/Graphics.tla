------------------------------ MODULE Graphics ------------------------------
(***************************************************************************)
(* lgx_graphics.c: the device and the objects an application creates on    *)
(* it.  A function is the sequence of Vulkan calls it makes, and any       *)
(* vkCreate* or vkAllocate* may fail; Vulkan is the number of live objects *)
(* of each kind and the rules on the order in which they may go.  One      *)
(* thread calls.  And the frames of a swapchain, which that thread draws.  *)
(***************************************************************************)
EXTENDS Integers, Bags, SequencesExt, FiniteSetsExt

CONSTANTS LGX_GFX_MAX_FRAMES_IN_FLIGHT,
          ImageCount,      \* images of a swapchain
          FamilySets,      \* queue families of the GPUs: sequences of sets of flags
          MaxHandles,      \* bound: objects the application holds
          MaxCmds,         \* bound: command buffers the application holds
          UINT32_MAX       \* no image

VARIABLES live,       \* Vulkan objects of each kind
          ok,         \* every call obeyed the rules of Vulkan
          dev,        \* queue families of the device, or NoDevice
          core,       \* Vulkan objects the device points to
          handles,    \* bag of the application's objects: a kind, and what it points to
          active,     \* stats.active_buffers, _images, _shaders, _pipelines
          recording, ended,     \* command buffers begun, and ended
          disk_cache_enabled, file    \* the pipeline cache on disk

resourceVars == <<live, ok, dev, core, handles, active, recording, ended, disk_cache_enabled, file>>

NoDevice == <<>>

DeviceKinds == {"command_pool", "pipeline_cache", "command_buffer", "buffer", "memory",
                "mapping", "image", "image_view", "shader_module", "render_pass", "pipeline_layout",
                "pipeline", "set_layout", "descriptor_pool", "swapchain", "chain_view",
                "semaphore", "fence"}
Kinds == DeviceKinds \cup {"instance", "messenger", "device", "surface"}
Counted == {"buffer", "image", "shader", "pipeline"}

-----------------------------------------------------------------------------
(* Vulkan *)

\* No object outlives what it was made from.
ParentsLive(n) == /\ n["instance"] = 0 => \A k \in Kinds : n[k] = 0
                  /\ n["device"] = 0 => \A k \in DeviceKinds : n[k] = 0
                  /\ n["surface"] = 0 => n["swapchain"] = 0
                  /\ n["swapchain"] = 0 => n["chain_view"] = 0
                  /\ n["image_view"] <= n["image"]
                  /\ n["mapping"] <= n["memory"]

\* A pool takes its command buffers with it.
Create(s, k) == LET n == [s.live EXCEPT ![k] = @ + 1]
                IN  [live |-> n, ok |-> s.ok /\ ParentsLive(n)]
Destroy(s, k) == LET n == [j \in Kinds |-> CASE j = k -> s.live[j] - 1
                                           [] k = "command_pool" /\ j = "command_buffer" -> 0
                                           [] OTHER -> s.live[j]]
                 IN  IF s.live[k] = 0 THEN [s EXCEPT !.ok = FALSE]
                                      ELSE [live |-> n, ok |-> s.ok /\ ParentsLive(n)]

Made(ks) == [i \in DOMAIN ks |-> <<"create", ks[i]>>]
Gone(ks) == [i \in DOMAIN ks |-> <<"destroy", ks[i]>>]

\* The state after a sequence of calls.
After(calls) == FoldLeft(LAMBDA s, c : IF c[1] = "create" THEN Create(s, c[2]) ELSE Destroy(s, c[2]),
                         [live |-> live, ok |-> ok], calls)
Call(calls) == LET s == After(calls) IN live' = s.live /\ ok' = s.ok

Occurs(k, ks) == Len(SelectSeq(ks, LAMBDA x : x = k))

\* Of what a structure points to, everything, in the order of the kinds given.
InOrder(kinds, has) == FlattenSeq([i \in DOMAIN kinds |-> SelectSeq(has, LAMBDA x : x = kinds[i])])

-----------------------------------------------------------------------------
(* The device *)

\* The first family with graphics, and the first for transfers only or else the
\* same one.
QueueFamilies(f) ==
    LET g == {i \in DOMAIN f : "graphics" \in f[i]}
        t == {i \in DOMAIN f : "transfer" \in f[i] /\ "graphics" \notin f[i]}
    IN  IF g = {} THEN NoDevice
                  ELSE <<Min(g), IF t = {} THEN Min(g) ELSE Min(t)>>

DeviceDestroy(has) ==
    Gone(InOrder(<<"pipeline_cache", "command_pool", "device", "messenger", "instance">>, has))

Parts(validation) == <<"instance">> \o (IF validation THEN <<"messenger">> ELSE <<>>)
                                    \o <<"device", "command_pool", "pipeline_cache">>

\* A device is made part by part.  The first failure frees the structure, any
\* other destroys what there is; no GPU and no graphics family are failures
\* before the device is made.
lgx_gfx_device_create ==
    /\ dev = NoDevice
    /\ \E validation \in BOOLEAN, f \in FamilySets :
         LET p == Parts(validation)
         IN \/ /\ QueueFamilies(f) # NoDevice
               /\ Call(Made(p))
               /\ dev' = QueueFamilies(f)
               /\ core' = p
               /\ active' = [k \in Counted |-> 0]
            \/ \E i \in 0..(Len(p) - 2) :
                 /\ LET has == SubSeq(p, 1, i) IN Call(Made(has) \o DeviceDestroy(has))
                 /\ UNCHANGED <<dev, core, active>>
    /\ UNCHANGED <<handles, recording, ended, disk_cache_enabled, file>>

\* The application has destroyed its objects; command buffers go with the pool.
lgx_gfx_device_destroy ==
    /\ dev # NoDevice
    /\ handles = EmptyBag
    /\ Call(DeviceDestroy(core))
    /\ dev' = NoDevice
    /\ core' = <<>>
    /\ recording' = 0
    /\ ended' = 0
    /\ disk_cache_enabled' = FALSE
    /\ UNCHANGED <<handles, active, file>>

-----------------------------------------------------------------------------
(* Objects *)

Held(kind) == {h \in BagToSet(handles) : h.kind = kind}
Object(kind, has) == SetToBag({[kind |-> kind, has |-> has]})
NowHas(h, has) == handles' = (handles (-) SetToBag({h})) (+) Object(h.kind, has)

Counter(kind) == IF kind = "host_buffer" THEN "buffer" ELSE kind
Count(kind, d) ==
    LET k == Counter(kind)
    IN  active' = IF k \in Counted THEN [active EXCEPT ![k] = Max({@ + d, 0})] ELSE active

\* Makes the parts in turn; when part i cannot be made, destroys undo[i].
Construct(kind, parts, undo) ==
    /\ dev # NoDevice
    /\ \/ \E i \in DOMAIN parts :
            /\ Call(Made(SubSeq(parts, 1, i - 1)) \o Gone(undo[i]))
            /\ UNCHANGED <<handles, active>>
       \/ /\ BagCardinality(handles) < MaxHandles
          /\ Call(Made(parts))
          /\ handles' = handles (+) Object(kind, parts)
          /\ Count(kind, 1)
    /\ UNCHANGED <<dev, core, recording, ended, disk_cache_enabled, file>>

\* Destroys what an object points to, in the order of the kinds given.
Release(kind, kinds) ==
    /\ \E h \in Held(kind) :
         /\ Call(Gone(InOrder(kinds, h.has)))
         /\ handles' = handles (-) SetToBag({h})
    /\ Count(kind, -1)
    /\ UNCHANGED <<dev, core, recording, ended, disk_cache_enabled, file>>

lgx_gfx_buffer_create ==
    \E kind \in {"buffer", "host_buffer"} :
        Construct(kind, <<"buffer", "memory">>, << <<>>, <<"buffer">> >>)

lgx_gfx_buffer_destroy ==
    \E kind \in {"buffer", "host_buffer"} : Release(kind, <<"mapping", "buffer", "memory">>)

\* Mutant of lgx_gfx_image_create: without the image view, the image is left.
ImageLeftBehind == Construct("image", <<"image", "memory", "image_view">>,
                             << <<>>, <<"image">>, <<"memory">> >>)

lgx_gfx_image_create == Construct("image", <<"image", "memory", "image_view">>,
                                  << <<>>, <<"image">>, <<"memory", "image">> >>)

lgx_gfx_image_destroy == Release("image", <<"image_view", "image", "memory">>)

lgx_gfx_shader_create == Construct("shader", <<"shader_module">>, << <<>> >>)

\* The file was read.
lgx_gfx_shader_load == lgx_gfx_shader_create

lgx_gfx_shader_destroy == Release("shader", <<"shader_module">>)

lgx_gfx_renderpass_create == Construct("renderpass", <<"render_pass">>, << <<>> >>)

lgx_gfx_renderpass_destroy == Release("renderpass", <<"render_pass">>)

\* Needs a shader and a render pass of the application.
lgx_gfx_pipeline_create ==
    /\ Held("shader") # {} /\ Held("renderpass") # {}
    /\ Construct("pipeline", <<"pipeline_layout", "pipeline">>, << <<>>, <<"pipeline_layout">> >>)

lgx_gfx_pipeline_destroy == Release("pipeline", <<"pipeline", "pipeline_layout">>)

\* Whether the pipeline layout could be made is not looked at.  The third part
\* is the set itself, which lives and dies with its pool.
lgx_gfx_descriptor_set_create ==
    \/ Construct("descriptor_set", <<"set_layout", "descriptor_pool", "pipeline_layout">>,
                 << <<>>, <<"set_layout">>, <<"descriptor_pool", "set_layout">> >>)
    \/ /\ dev # NoDevice
       /\ BagCardinality(handles) < MaxHandles
       /\ Call(Made(<<"set_layout", "descriptor_pool">>))
       /\ handles' = handles (+) Object("descriptor_set", <<"set_layout", "descriptor_pool">>)
       /\ UNCHANGED <<active, dev, core, recording, ended, disk_cache_enabled, file>>

lgx_gfx_descriptor_set_destroy ==
    Release("descriptor_set", <<"pipeline_layout", "descriptor_pool", "set_layout">>)

-----------------------------------------------------------------------------
(* Contents of buffers and images *)

Mapped(h) == Occurs("mapping", h.has) = 1

\* Mapped already: the same pointer again, and no step.
lgx_gfx_buffer_map ==
    /\ \E h \in Held("host_buffer") : ~Mapped(h) /\ NowHas(h, Append(h.has, "mapping"))
    /\ Call(Made(<<"mapping">>))
    /\ UNCHANGED <<dev, core, active, recording, ended, disk_cache_enabled, file>>

lgx_gfx_buffer_unmap ==
    /\ \E h \in Held("host_buffer") : Mapped(h) /\ NowHas(h, <<"buffer", "memory">>)
    /\ Call(Gone(<<"mapping">>))
    /\ UNCHANGED <<dev, core, active, recording, ended, disk_cache_enabled, file>>

\* create_staging_buffer: made, filled and unmapped, or nothing is left of it.
StagingFailures == {<<>>, Made(<<"buffer">>) \o Gone(<<"buffer">>)}
Staging == Made(<<"buffer", "memory", "mapping">>) \o Gone(<<"mapping">>)

\* A staging buffer, a command buffer of its own, submitted to the transfer queue
\* and waited for.  It comes from the pool of the graphics family, and a queue
\* takes command buffers of its own family only.
Staged == \/ \E calls \in StagingFailures : Call(calls)
          \/ Call(Staging \o Gone(<<"buffer", "memory">>))
          \/ LET s == After(Staging \o Made(<<"command_buffer">>)
                                    \o Gone(<<"command_buffer", "buffer", "memory">>))
             IN live' = s.live /\ ok' = (s.ok /\ dev[1] = dev[2])

\* A host-visible buffer is mapped, or found mapped, and unmapped in the end.
lgx_gfx_buffer_upload ==
    /\ \/ /\ \E h \in Held("host_buffer") : Mapped(h) /\ NowHas(h, <<"buffer", "memory">>)
          /\ Call(Gone(<<"mapping">>))
       \/ /\ \E h \in Held("host_buffer") : ~Mapped(h)
          /\ Call(Made(<<"mapping">>) \o Gone(<<"mapping">>))
          /\ UNCHANGED handles
       \/ Held("buffer") # {} /\ Staged /\ UNCHANGED handles
    /\ UNCHANGED <<dev, core, active, recording, ended, disk_cache_enabled, file>>

lgx_gfx_image_upload ==
    /\ Held("image") # {}
    /\ Staged
    /\ UNCHANGED <<handles, dev, core, active, recording, ended, disk_cache_enabled, file>>

-----------------------------------------------------------------------------
(* Command buffers *)

Others == <<dev, core, handles, active, disk_cache_enabled, file>>

lgx_gfx_cmd_begin ==
    /\ dev # NoDevice
    /\ \/ /\ recording + ended < MaxCmds
          /\ Call(Made(<<"command_buffer">>))
          /\ recording' = recording + 1
       \/ /\ Call(Made(<<"command_buffer">>) \o Gone(<<"command_buffer">>))
          /\ UNCHANGED recording
    /\ UNCHANGED <<ended, Others>>

lgx_gfx_cmd_end ==
    /\ recording > 0
    /\ recording' = recording - 1
    /\ ended' = ended + 1
    /\ UNCHANGED <<live, ok, Others>>

\* A refused submit leaves the command buffer with the caller (no step).
lgx_gfx_cmd_submit ==
    /\ ended > 0
    /\ ended' = ended - 1
    /\ Call(Gone(<<"command_buffer">>))
    /\ UNCHANGED <<recording, Others>>

-----------------------------------------------------------------------------
(* Swapchain: what it points to, not its frames (below) *)

Views(n) == [i \in 1..n |-> "chain_view"]

\* swapchain_create_sync: two semaphores and a fence for each frame.
SyncParts == FlattenSeq([i \in 1..LGX_GFX_MAX_FRAMES_IN_FLIGHT |->
                            <<"semaphore", "semaphore", "fence">>])

SwapchainOrder == <<"semaphore", "fence", "chain_view", "swapchain", "surface">>

\* Without a swapchain the surface is destroyed; later failures destroy what there is.
lgx_gfx_swapchain_create ==
    LET p == <<"surface", "swapchain">> \o Views(ImageCount) \o SyncParts
    IN  /\ Held("swapchain") = {}
        /\ Construct("swapchain", p, [i \in DOMAIN p |->
               IF i <= 2 THEN SubSeq(p, 1, i - 1) ELSE InOrder(SwapchainOrder, SubSeq(p, 1, i - 1))])

lgx_gfx_swapchain_destroy == Release("swapchain", SwapchainOrder)

\* The views go, a new swapchain replaces the old one, and new views are made;
\* no swapchain, or not every view, is an error that leaves the rest as it is.
lgx_gfx_swapchain_resize ==
    /\ \E h \in Held("swapchain") :
         LET old == h.has
             rest == SelectSeq(old, LAMBDA x : x # "chain_view")
         IN \/ /\ Call(Gone(SelectSeq(old, LAMBDA x : x = "chain_view")))
               /\ NowHas(h, rest)
            \/ \E n \in 0..ImageCount :
                 /\ Call(Gone(SelectSeq(old, LAMBDA x : x = "chain_view"))
                         \o Made(<<"swapchain">>) \o Gone(<<"swapchain">>) \o Made(Views(n)))
                 /\ NowHas(h, rest \o Views(n))
    /\ UNCHANGED <<dev, core, active, recording, ended, disk_cache_enabled, file>>

-----------------------------------------------------------------------------
(* The pipeline cache on disk *)

\* A file that is there, read, and taken by Vulkan replaces the cache.
lgx_gfx_shader_cache_init ==
    /\ dev # NoDevice
    /\ disk_cache_enabled' \in BOOLEAN
    /\ \/ disk_cache_enabled' /\ file /\ Call(Made(<<"pipeline_cache">>) \o Gone(<<"pipeline_cache">>))
       \/ UNCHANGED <<live, ok>>
    /\ UNCHANGED <<dev, core, handles, active, recording, ended, file>>

\* Also lgx_gfx_shader_cache_destroy.  An empty cache is not written.
lgx_gfx_shader_cache_flush ==
    /\ dev # NoDevice
    /\ disk_cache_enabled
    /\ live["pipeline_cache"] = 1
    /\ file' = TRUE
    /\ UNCHANGED <<live, ok, dev, core, handles, active, recording, ended, disk_cache_enabled>>

-----------------------------------------------------------------------------

ResourcesInit == /\ live = [k \in Kinds |-> 0]
                 /\ ok = TRUE
                 /\ dev = NoDevice
                 /\ core = <<>>
                 /\ handles = EmptyBag
                 /\ active = [k \in Counted |-> 0]
                 /\ recording = 0
                 /\ ended = 0
                 /\ disk_cache_enabled = FALSE
                 /\ file = FALSE

ResourcesNext == \/ lgx_gfx_device_create \/ lgx_gfx_device_destroy
                 \/ lgx_gfx_buffer_create \/ lgx_gfx_buffer_destroy
                 \/ lgx_gfx_buffer_map \/ lgx_gfx_buffer_unmap \/ lgx_gfx_buffer_upload
                 \/ lgx_gfx_image_create \/ lgx_gfx_image_destroy \/ lgx_gfx_image_upload
                 \/ lgx_gfx_shader_create \/ lgx_gfx_shader_load \/ lgx_gfx_shader_destroy
                 \/ lgx_gfx_renderpass_create \/ lgx_gfx_renderpass_destroy
                 \/ lgx_gfx_pipeline_create \/ lgx_gfx_pipeline_destroy
                 \/ lgx_gfx_descriptor_set_create \/ lgx_gfx_descriptor_set_destroy
                 \/ lgx_gfx_cmd_begin \/ lgx_gfx_cmd_end \/ lgx_gfx_cmd_submit
                 \/ lgx_gfx_swapchain_create \/ lgx_gfx_swapchain_destroy \/ lgx_gfx_swapchain_resize
                 \/ lgx_gfx_shader_cache_init \/ lgx_gfx_shader_cache_flush

-----------------------------------------------------------------------------
(* The frames of a swapchain.  An application acquires an image, submits its *)
(* commands, presents, and resizes when it is told to; the fences and        *)
(* semaphores are the swapchain's, one of each per frame in flight.  A wait  *)
(* for a fence returns when the fence is signalled.                          *)

VARIABLES in_flight,        \* fence of each frame: signalled
          image_available,  \* semaphore of each frame: signalled
          current_frame,
          idx,              \* image the application got
          pc                \* what it does next, or waits for

frameVars == <<in_flight, image_available, current_frame, idx, pc>>

Frames == 0..(LGX_GFX_MAX_FRAMES_IN_FLIGHT - 1)

\* swapchain_create_sync: the fences start signalled.
FramesInit == /\ in_flight = [f \in Frames |-> TRUE]
              /\ image_available = [f \in Frames |-> FALSE]
              /\ current_frame = 0
              /\ idx = UINT32_MAX
              /\ pc = "frame"

\* lgx_gfx_swapchain_acquire is called: vkWaitForFences, without a timeout.
StartAcquire == /\ pc = "frame"
                /\ pc' = "waiting"
                /\ UNCHANGED <<in_flight, image_available, current_frame, idx>>

\* The wait is over: the fence is reset, and an image is there or it is out of date.
FinishAcquire ==
    /\ pc = "waiting"
    /\ in_flight[current_frame]
    /\ in_flight' = [in_flight EXCEPT ![current_frame] = FALSE]
    /\ \/ /\ idx' \in 0..(ImageCount - 1)
          /\ image_available' = [image_available EXCEPT ![current_frame] = TRUE]
          /\ pc' = "acquired"
       \/ /\ idx' = UINT32_MAX
          /\ pc' = "out of date"
          /\ UNCHANGED image_available
    /\ UNCHANGED current_frame

\* lgx_gfx_cmd_submit: no semaphore to wait for, none to signal and no fence
\* (VK_NULL_HANDLE); it waits for the queue and frees the command buffer.
Submit == /\ pc = "acquired"
          /\ pc' = "submitted"
          /\ UNCHANGED <<in_flight, image_available, current_frame, idx>>

\* lgx_gfx_swapchain_present
Present == /\ pc = "submitted"
           /\ current_frame' = (current_frame + 1) % LGX_GFX_MAX_FRAMES_IN_FLIGHT
           /\ pc' = "frame"
           /\ UNCHANGED <<in_flight, image_available, idx>>

\* lgx_gfx_swapchain_resize: images and views are new, the fences are not.
Resize == /\ pc = "out of date"
          /\ pc' = "frame"
          /\ UNCHANGED <<in_flight, image_available, current_frame, idx>>

FramesNext == StartAcquire \/ FinishAcquire \/ Submit \/ Present \/ Resize

-----------------------------------------------------------------------------

vars == <<resourceVars, frameVars>>

Init == ResourcesInit /\ FramesInit

Next == \/ ResourcesNext /\ UNCHANGED frameVars
        \/ FramesNext /\ UNCHANGED resourceVars

Spec == Init /\ [][Next]_vars

\* An application with a swapchain goes on from frame to frame, and Vulkan answers.
FramesSpec == Init /\ [][FramesNext /\ UNCHANGED resourceVars]_vars
              /\ WF_vars(FramesNext /\ UNCHANGED resourceVars)

-----------------------------------------------------------------------------

\* The Vulkan objects are those that the device, the application's objects and
\* its command buffers point to: no failure on the way of any function leaves one
\* behind or takes one that is in use.  Nothing is destroyed twice, or before what
\* was made from it, and the active counters say how many objects there are
\* (lgx_graphics.c, all create, destroy, upload and resize functions).
GfxOwned ==
    /\ ok
    /\ \A k \in Kinds \ {"command_buffer"} :
          live[k] = Occurs(k, core)
                    + MapThenSumSet(LAMBDA h : handles[h] * Occurs(k, h.has), BagToSet(handles))
    /\ live["command_buffer"] = recording + ended
    /\ \A k \in Counted :
          active[k] = MapThenSumSet(LAMBDA h : handles[h],
                                    {h \in BagToSet(handles) : Counter(h.kind) = k})


=============================================================================
