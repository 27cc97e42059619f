------------------------- MODULE MCTouchpadDecoders -------------------------
(* Touchpads of all vendors, with what their users set, for TLC. *)
EXTENDS TouchpadDecoders

V2 == [vendor |-> "v2", clickpad |-> FALSE, virtual |-> FALSE, middle |-> FALSE, move2 |-> FALSE,
       click2 |-> {}, dragging |-> TRUE, dragLock |-> FALSE, pressDrag |-> FALSE, edges |-> FALSE,
       cont |-> FALSE, doubleTaps |-> FALSE, tapEnable |-> FALSE, fingers |-> 2, keys |-> {},
       stick |-> FALSE, tap |-> "click", press |-> "other"]
V3 == [V2 EXCEPT !.vendor = "v3"]
V4 == [V2 EXCEPT !.vendor = "v4"]
Synaptics == [V2 EXCEPT !.vendor = "synaptics"]

\* What is tried together: taps and drags, taps of several fingers that count or
\* switch applications, presses and edges, sticks, notifications, clickpads.
MCTouchpads ==
    {[V2 EXCEPT !.doubleTaps = TRUE],
     [V2 EXCEPT !.fingers = 3, !.tap = "app"],
     [V2 EXCEPT !.fingers = 1, !.keys = Notifications],
     [V2 EXCEPT !.fingers = 1, !.keys = {"typing", "escape"}, !.tapEnable = TRUE, !.dragLock = TRUE],
     [V2 EXCEPT !.fingers = 1, !.keys = {"escape", "shift", "typing"}, !.tap = "app"],
     [V3 EXCEPT !.pressDrag = TRUE],
     [V3 EXCEPT !.edges = TRUE],
     [V3 EXCEPT !.stick = TRUE],
     [V4 EXCEPT !.stick = TRUE],
     [V4 EXCEPT !.clickpad = TRUE, !.fingers = 1, !.virtual = TRUE, !.middle = TRUE],
     [V4 EXCEPT !.clickpad = TRUE, !.fingers = 3, !.tap = "app"],
     [Synaptics EXCEPT !.fingers = 3],
     [Synaptics EXCEPT !.fingers = 1, !.stick = TRUE],
     [Synaptics EXCEPT !.clickpad = TRUE, !.tap = "app"]}

MCPadButtons == {{}, {"L"}, {"L", "R"}}
=============================================================================
