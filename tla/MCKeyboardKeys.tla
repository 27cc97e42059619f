---------------------------- MODULE MCKeyboardKeys ----------------------------
(* Keyboards, each with keys that get in each other's way, for TLC. *)
EXTENDS KeyboardKeys

Plain == [keys |-> {}, nested |-> TRUE, mac |-> FALSE, mode |-> 0, shiftCaps |-> FALSE, ext |-> FALSE,
          german |-> FALSE, clear |-> FALSE, del |-> FALSE, finer |-> FALSE, gestures |-> FALSE, menu |-> "menu"]

\* With two of the three modifiers of a chord keys may be let go in any order;
\* right keys are kept from what presses left ones: see README.md.
MCKeyboards ==
    {[Plain EXCEPT !.keys = {"a", "ctrl", "rctrl", "win", "lshift"}, !.nested = FALSE],
     [Plain EXCEPT !.keys = {"ctrl", "alt", "ralt", "rshift", "touch"}, !.nested = FALSE],
     [Plain EXCEPT !.keys = {"win", "lshift", "esc", "space"}, !.nested = FALSE, !.gestures = TRUE],
     [Plain EXCEPT !.keys = {"ctrl", "alt", "win", "tab", "p"}],
     [Plain EXCEPT !.keys = {"alt", "ralt", "win", "rwin", "tab", "f4"}, !.mac = TRUE],
     [Plain EXCEPT !.keys = {"ctrl", "alt", "q", "print", "space"}, !.german = TRUE],
     [Plain EXCEPT !.keys = {"lshift", "caps", "f7", "esc"}, !.mode = 1, !.shiftCaps = TRUE],
     [Plain EXCEPT !.keys = {"lshift", "caps", "f8", "menu", "touch"}, !.mode = 2, !.shiftCaps = TRUE, !.menu = "fn"],
     [Plain EXCEPT !.keys = {"lshift", "f1", "f8", "f9", "alt"}, !.mode = 1, !.ext = TRUE],
     [Plain EXCEPT !.keys = {"num7", "home", "numlock", "f5", "f7"}, !.mode = 1, !.finer = TRUE],
     [Plain EXCEPT !.keys = {"numlock", "num7", "del", "break", "ctrl", "menu"}, !.clear = TRUE, !.del = TRUE, !.menu = "rwin"],
     [Plain EXCEPT !.keys = {"volume", "alt", "lshift", "menu", "f9"}, !.mode = 3, !.finer = TRUE, !.menu = "fn"]}
===============================================================================
