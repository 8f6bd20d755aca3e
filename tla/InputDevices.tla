---------------------------- MODULE InputDevices ----------------------------
(***************************************************************************)
(* lgx_input.c: evdev devices that come and go, the poll of each frame,    *)
(* the event queue and the state of keys, mouse buttons and gamepads.  A   *)
(* device has one key or button.  One thread calls; nodes of /dev/input    *)
(* are plugged, unplugged and used at any time.                            *)
(***************************************************************************)
EXTENDS Integers, FiniteSets, SequencesExt

CONSTANTS Nodes,                 \* files of /dev/input
          MAX_DEVICES, LGX_IN_MAX_GAMEPADS, event_capacity,
          MaxPlugs,              \* bound: devices plugged in, the gamepads among them
                                 \* no more than LGX_IN_MAX_GAMEPADS
          MaxUses                \* bound: keys and buttons that go down or up

VARIABLES plugged,       \* type of the device at each node, or "none"
          inotify,       \* nodes created, not yet read
          sys,           \* struct lgx_in_system
          view,          \* history: state as told by the events the application took,
                         \* until one was dropped
          plugs, pads,   \* history: devices and gamepads plugged in
          uses           \* history: keys and buttons that went down or up

vars == <<plugged, inotify, sys, view, plugs, pads, uses>>

Types == {"keyboard", "mouse", "gamepad"}
Pads == 1..LGX_IN_MAX_GAMEPADS

-----------------------------------------------------------------------------
(* Events *)

Event(type, pad, value) == [type |-> type, pad |-> pad, value |-> value]

\* The comment says "Drop oldest if full"; it is the new event that is dropped.
event_push(s, e) == IF Len(s.events) >= event_capacity THEN [s EXCEPT !.dropped = TRUE]
                                                       ELSE [s EXCEPT !.events = Append(@, e)]

process_keyboard_event(s, v) == event_push([s EXCEPT !.key = v], Event("key", 0, v))

process_mouse_event(s, v) == event_push([s EXCEPT !.mouse = v], Event("mouse_btn", 0, v))

process_gamepad_event(s, pad, v) ==
    event_push([s EXCEPT !.gamepads[pad].buttons = v], Event("gamepad_btn", pad, v))

\* What an application that follows the events believes.
Told(w, e) == CASE e.type = "key" -> [w EXCEPT !.key = e.value]
                [] e.type = "mouse_btn" -> [w EXCEPT !.mouse = e.value]
                [] e.type = "gamepad_btn" -> [w EXCEPT !.gamepads[e.pad].buttons = e.value]
                [] e.type = "connect" ->
                     [w EXCEPT !.gamepads[e.pad] = [connected |-> TRUE, buttons |-> FALSE]]
                [] e.type = "disconnect" -> [w EXCEPT !.gamepads[e.pad].connected = FALSE]

-----------------------------------------------------------------------------
(* Devices *)

\* Nothing happens when the table is full, when a device of this path was ever
\* opened, or when the node cannot be opened.  A gamepad takes the next number,
\* and keeps number 0 (here 1) when there is none left.
open_device(s, node, denied) ==
    LET type == plugged[node]
        new == type = "gamepad" /\ s.gamepad_count < LGX_IN_MAX_GAMEPADS
        gid == IF new THEN s.gamepad_count + 1 ELSE 1
        dev == [path |-> node, type |-> type, fd |-> "open", pad |-> gid, pending |-> <<>>, down |-> FALSE]
        t == [s EXCEPT !.devices = Append(@, dev)]
    IN  IF \/ Len(s.devices) >= MAX_DEVICES
           \/ \E i \in DOMAIN s.devices : s.devices[i].path = node
           \/ type = "none"
           \/ node \in denied
          THEN s
          ELSE IF new
            THEN event_push([t EXCEPT !.gamepad_count = gid,
                                      !.gamepads[gid] = [connected |-> TRUE, buttons |-> FALSE]],
                            Event("connect", gid, TRUE))
            ELSE t


\* ENODEV: a gamepad is closed, other devices stay in the table as they are.
Disconnect(s, i) ==
    LET pad == s.devices[i].pad
    IN  event_push([s EXCEPT !.gamepads[pad].connected = FALSE,
                             !.devices[i].fd = "closed"],
                   Event("disconnect", pad, FALSE))

ProcessEvent(s, i, v) ==
    CASE s.devices[i].type = "keyboard" -> process_keyboard_event(s, v)
      [] s.devices[i].type = "mouse" -> process_mouse_event(s, v)
      [] s.devices[i].type = "gamepad" -> process_gamepad_event(s, s.devices[i].pad, v)

\* Reads device i until there is nothing more, and finds out whether it is gone.
ReadDevice(s, i) ==
    LET t == FoldLeft(LAMBDA u, v : ProcessEvent(u, i, v),
                      [s EXCEPT !.devices[i].pending = <<>>], s.devices[i].pending)
    IN  CASE s.devices[i].fd = "closed" -> s
          [] s.devices[i].fd = "gone" /\ s.devices[i].type = "gamepad" -> Disconnect(t, i)
          [] OTHER -> t

\* check_hotplug: IN_CREATE events in order; IN_DELETE is not looked at.
CheckHotplug(s, denied) == FoldLeft(LAMBDA u, n : open_device(u, n, denied), s, inotify)

-----------------------------------------------------------------------------

\* The last frame's keys are kept, new nodes opened, and all devices read.
lgx_in_poll ==
    /\ \E denied \in SUBSET Nodes :
         LET s == CheckHotplug([sys EXCEPT !.key_previous = sys.key], denied)
         IN  sys' = FoldLeft(ReadDevice, s, [i \in DOMAIN s.devices |-> i])
    /\ inotify' = <<>>
    /\ UNCHANGED <<plugged, view, plugs, pads, uses>>

lgx_in_next_event ==
    /\ sys.events # <<>>
    /\ view' = IF sys.dropped THEN view ELSE Told(view, Head(sys.events))
    /\ sys' = [sys EXCEPT !.events = Tail(@)]
    /\ UNCHANGED <<plugged, inotify, plugs, pads, uses>>

-----------------------------------------------------------------------------
(* The machine: devices come, are used, and go *)

Plug(n, type) ==
    /\ plugged[n] = "none"
    /\ plugs < MaxPlugs
    /\ type = "gamepad" => pads < LGX_IN_MAX_GAMEPADS
    /\ plugged' = [plugged EXCEPT ![n] = type]
    /\ inotify' = Append(inotify, n)
    /\ plugs' = plugs + 1
    /\ pads' = IF type = "gamepad" THEN pads + 1 ELSE pads
    /\ UNCHANGED <<sys, view, uses>>

\* What was waiting in the kernel is lost with the device.
Unplug(n) ==
    /\ plugged[n] # "none"
    /\ plugged' = [plugged EXCEPT ![n] = "none"]
    /\ sys' = [sys EXCEPT !.devices =
                 [i \in DOMAIN @ |-> IF @[i].path = n /\ @[i].fd = "open"
                                       THEN [@[i] EXCEPT !.fd = "gone", !.pending = <<>>]
                                       ELSE @[i]]]
    /\ UNCHANGED <<inotify, view, plugs, pads, uses>>

\* The key or button of a device goes down or up.
Use(i) == /\ sys.devices[i].fd = "open"
          /\ uses < MaxUses
          /\ uses' = uses + 1
          /\ sys' = [sys EXCEPT !.devices[i].down = ~@,
                                !.devices[i].pending = Append(@, ~sys.devices[i].down)]
          /\ UNCHANGED <<plugged, inotify, view, plugs, pads>>

-----------------------------------------------------------------------------

NoPads == [p \in Pads |-> [connected |-> FALSE, buttons |-> FALSE]]

\* lgx_in_create.  A device it finds is one plugged in before the first poll.
Init == /\ plugged = [n \in Nodes |-> "none"]
        /\ plugs = 0
        /\ pads = 0
        /\ uses = 0
        /\ inotify = <<>>
        /\ sys = [devices |-> <<>>, gamepads |-> NoPads, gamepad_count |-> 0,
                  key |-> FALSE, key_previous |-> FALSE, mouse |-> FALSE,
                  events |-> <<>>, dropped |-> FALSE]
        /\ view = [key |-> FALSE, mouse |-> FALSE, gamepads |-> NoPads]

Next == \/ lgx_in_poll
        \/ lgx_in_next_event
        \/ \E n \in Nodes : Unplug(n) \/ \E type \in Types : Plug(n, type)
        \/ \E i \in DOMAIN sys.devices : Use(i)

Spec == Init /\ [][Next]_vars

-----------------------------------------------------------------------------

\* While no event was dropped, the events an application took and the ones still
\* queued tell it exactly the keys, buttons and connections that the queries
\* report (process_*_event, open_device, lgx_in_poll).
EventsTellState ==
    ~sys.dropped => FoldLeft(Told, view, sys.events)
                      = [key |-> sys.key, mouse |-> sys.mouse, gamepads |-> sys.gamepads]

\* A gamepad is connected exactly when one open device, and no other, speaks for
\* it, and then the device is a gamepad (open_device, lgx_in_poll; rumble and
\* get_state rely on it).
PadsHaveDevices ==
    \A p \in Pads :
        LET of == {i \in DOMAIN sys.devices : /\ sys.devices[i].type = "gamepad"
                                              /\ sys.devices[i].fd # "closed"
                                              /\ sys.devices[i].pad = p}
        IN  IF sys.gamepads[p].connected THEN Cardinality(of) = 1 ELSE of = {}

=============================================================================
