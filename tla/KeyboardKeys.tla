----------------------------- MODULE KeyboardKeys -----------------------------
(***************************************************************************)
(* What the keyboard driver makes of keys that go down and come up: the    *)
(* key events of the system, what the touchpad driver is told of modifiers *)
(* and of being switched off, the feature toggle mode, display sleep.      *)
(*                                                                         *)
(* A key is handled to its end behind the work loop's gate, and calls      *)
(* between the two drivers are calls of methods, so what one key does is a *)
(* function of the state.  A scan code comes together with the prefix of   *)
(* extended codes: nothing between the two looks at the count of prefixes. *)
(* Which letter, which brightness level and which feature do not matter.   *)
(***************************************************************************)
EXTENDS Naturals, Sequences, SequencesExt

CONSTANTS
    Keyboards,   \* configurations, see the assumption
    MaxHeld,     \* keys down at the same time
    MaxSleeps

\* F8 rewinds, F7 puts the display to sleep, F9 switches the touchpad off, F5
\* dims; F1 has no function.  The touch key is the vendors' own for F9.
FunctionKeys == {"f5", "f7", "f8", "f9"}
Keys ==
    {"a", "p", "q", "tab", "f1", "f4", "esc", "space", "lshift", "rshift", "caps",
     "ctrl", "rctrl", "alt", "ralt", "win", "rwin", "menu",
     "num7", "home", "numlock", "del", "print", "break", "volume", "touch"} \cup FunctionKeys

ASSUME KeyboardsAssumption ==
    /\ Keyboards \subseteq
        [keys : SUBSET Keys,
         nested : BOOLEAN,    \* its user lets the last key go first
         mac : BOOLEAN,       \* macintoshMode
         mode : 0..3,         \* _fnKeysModeNum, 0 without function keys
         shiftCaps : BOOLEAN, \* makeShiftCapsAsFn
         ext : BOOLEAN,       \* hasExtendFunctions
         german : BOOLEAN,    \* layout of ALT combinations, type 0x30
         clear : BOOLEAN,     \* makeNumLockAsClear
         del : BOOLEAN,       \* makeDelIntoCmdBspace
         finer : BOOLEAN,     \* useFinerBrightnesCtrl, useFinerVolumeCtrl
         gestures : BOOLEAN,  \* the touchpad sends gestures
         menu : {"menu", "rwin", "fn"}]  \* _rightCtxtMKey
    /\ MaxHeld \in Nat /\ MaxSleeps \in Nat

VARIABLES
    kb,      \* the configuration; never changes
    held,    \* keys the user holds, in the order they went down
    repeats, \* the last of them repeats
    awake,   \* isKeyboardEnabled
    sleeps,
    lost,    \* keys that were down when the machine or the display fell asleep or
             \* the feature toggle mode began, keypad keys also when NumLock changed
    again,   \* history: in the feature toggle mode one of its keys was pressed again,
             \* an odd number of times since the machine woke up
    s        \* the drivers' state, see InitState

vars == <<kb, held, repeats, awake, sleeps, lost, again, s>>

\* bits is _keyBitVector, sys the keys down for the system, by code and table;
\* hold, fast, log, disabled and app are the touchpad driver's.
InitState ==
    [bits |-> {}, sys |-> {}, mods |-> {}, toggle |-> FALSE, gesture |-> FALSE, fn |-> FALSE,
     numlock |-> FALSE, numpad |-> FALSE, exception |-> FALSE, tpad |-> TRUE, dark |-> FALSE,
     ctrl |-> FALSE, fast |-> FALSE, hold |-> FALSE, log |-> FALSE, disabled |-> FALSE, app |-> FALSE]

---------------------------------------------------------------------------
(* Key events of the system. *)

Command == <<"win", TRUE>>      \* ExtendedPS2ToADBMap[_commandKey]
Control == <<"ctrl", FALSE>>    \* PS2ToADBMap[_contrlKey]
Shift   == <<"lshift", FALSE>>
Option  == <<"alt", FALSE>>

CmdDown(t)   == "win" \in t.bits
CtrlDown(t)  == "ctrl" \in t.bits
AltDown(t)   == "alt" \in t.bits
ShiftDown(t) == "lshift" \in t.bits \/ "rshift" \in t.bits

\* Caps lock locks: what it is for the system is not followed.
Dispatch(t, key, down) ==
    IF key[1] = "caps" THEN t
    ELSE [t EXCEPT !.sys = IF down THEN @ \cup {key} ELSE @ \ {key}]

\* Presses modifiers and another key and lets them all go again.
Chord(t, modifiers) == [t EXCEPT !.sys = @ \ modifiers]

---------------------------------------------------------------------------
(* Notifications between the drivers. *)

ReleaseCmdKey(t) == [t EXCEPT !.sys = @ \ {Command}, !.gesture = FALSE]

Escape(t) ==
    LET u == IF t.app THEN ReleaseCmdKey(t) ELSE t
    IN  [u EXCEPT !.hold = FALSE, !.app = FALSE]

ShiftKey(t)             == [t EXCEPT !.hold = ~@]
ShowTouchPressureWidth(t) == [t EXCEPT !.log = ~@]
EnableTouchpad(t)       == [t EXCEPT !.disabled = FALSE]

\* Mutant: the touchpad is told when it is switched off only.
MutantSwitchTouchpad(t) ==
    LET enabled == ~t.tpad
    IN  [t EXCEPT !.tpad = enabled, !.disabled = @ \/ ~enabled]

SwitchTouchpad(t) ==
    LET enabled == ~t.tpad
    IN  [t EXCEPT !.tpad = enabled, !.disabled = ~enabled]

\* The touchpad driver reconnects and tells the keyboard driver that it did.
RestoreTouchpad(t) == [t EXCEPT !.disabled = FALSE, !.tpad = TRUE]

---------------------------------------------------------------------------
(* From scan codes to key codes. *)

\* Left and right keys share a code, and a bit of the vector.
Twin == [ralt |-> "alt", rctrl |-> "ctrl", home |-> "num7"]
Extended == {"ralt", "rctrl", "home", "win", "rwin", "menu", "del", "print", "break", "volume", "touch"}

MacSwap == [alt |-> <<"win", TRUE>>, ralt |-> <<"rwin", TRUE>>, win |-> <<"alt", FALSE>>, rwin |-> <<"alt", TRUE>>]

KeyCode(t, key) ==
    IF kb.mac /\ key \in DOMAIN MacSwap THEN MacSwap[key]
    ELSE IF key = "num7" THEN <<"num7", ~t.numlock>>
    ELSE IF key \in DOMAIN Twin THEN <<Twin[key], TRUE>>
    ELSE <<key, key \in Extended>>

\* Keys and combinations that end with keyCode 0.
Swallowed(t, key, down) ==
    \/ key = "q" /\ kb.german /\ AltDown(t)
    \/ key \in {"f4", "tab"} /\ (IF kb.mac THEN CmdDown(t) ELSE AltDown(t))
    \/ key = "p" /\ (IF kb.mac THEN AltDown(t) ELSE CmdDown(t))
    \/ key \in {"volume", "touch", "print"}
    \/ key = "del" /\ kb.del /\ down

\* Control comes up for the key and goes down again after it.
MapGermanTurkishKeyboardLayout(t, down) ==
    IF down
    THEN Dispatch(IF CtrlDown(t) THEN Dispatch(t, Control, FALSE) ELSE t, <<"q", TRUE>>, TRUE)
    ELSE LET u == Dispatch(t, <<"q", TRUE>>, FALSE)
         IN  IF CtrlDown(t) THEN Dispatch(u, Control, TRUE) ELSE u

\* What these do in place of a key event of their own.
Combination(t, key, down) ==
    IF key = "q" THEN MapGermanTurkishKeyboardLayout(t, down)
    ELSE IF ~down THEN t
    ELSE
    CASE key = "f4"     -> Chord(t, {Command})
      [] key = "tab"    -> IF CtrlDown(t) THEN Dispatch(t, Control, TRUE) ELSE t
      [] key = "volume" -> IF kb.finer THEN Chord(t, {Shift, Option}) ELSE t
      [] key = "touch"  -> SwitchTouchpad(t)
      [] key = "del"    -> Chord(t, {Command})
      [] key = "print"  -> IF t.dark THEN t ELSE Chord(t, {Command, Shift})
      [] OTHER          -> t

---------------------------------------------------------------------------
(* Function keys. *)

\* F1 .. F8 as F13 .. F20 with shift released around them; F9 and F10 only if
\* they are configured, which they are not here.
Fx == {"f1", "f4", "f5", "f7", "f8"}

ProcessExtendedFunctions(t, code, down) ==
    IF code \notin Fx THEN t
    ELSE IF down THEN Dispatch(Dispatch(t, Shift, FALSE), <<code, TRUE>>, TRUE)
    ELSE Dispatch(Dispatch(t, <<code, TRUE>>, FALSE), Shift, TRUE)

ExtendedFunction(t, code) ==
    /\ kb.ext /\ ~t.toggle /\ ShiftDown(t) /\ ~AltDown(t) /\ ~CtrlDown(t) /\ ~CmdDown(t)
    /\ code \in Fx \cup {"f9"}

DisplaySleep(t) ==
    LET u == SwitchTouchpad(Chord(t, {Control, Shift})) IN [u EXCEPT !.dark = ~@]

ProcessFnKeys(t, code, down, limited) ==
    CASE code = "f8"                      -> Dispatch(t, <<"f8", TRUE>>, down)
      [] code = "f5" /\ down /\ kb.finer  -> Chord(t, {Shift, Option})
      [] code = "f7" /\ down /\ ~limited  -> DisplaySleep(t)
      [] code = "f9" /\ down              -> SwitchTouchpad(t)
      [] OTHER                            -> t

\* A function key that no other combination claims.
Alone(t) == ~CtrlDown(t) /\ ~CmdDown(t) /\ (AltDown(t) => ShiftDown(t))
FnKeyComb(t, code) ==
    /\ kb.mode > 0 /\ code \in FunctionKeys /\ ~t.numpad /\ Alone(t)
    /\ t.dark => code = "f7"

\* Brightness goes on while its key is held.
MayRepeat(t, code) == kb.mode > 0 /\ code = "f5" /\ ~t.numpad /\ ~t.dark /\ Alone(t)

---------------------------------------------------------------------------
(* Keys with a meaning of their own. *)

StartFeatureToggle(t) ==
    LET u == ShowTouchPressureWidth([t EXCEPT !.toggle = TRUE])
    IN  Escape(Dispatch([u EXCEPT !.gesture = FALSE], Shift, FALSE))

\* Mutant: shift that is let go does not tell the touchpad.
MutantLeftShift(t, down) ==
    IF ~down THEN t
    ELSE IF "caps" \in t.bits THEN StartFeatureToggle(t)
    ELSE ShiftKey([t EXCEPT !.gesture = TRUE])

LeftShift(t, down) ==
    IF down /\ "caps" \in t.bits THEN StartFeatureToggle(t)
    ELSE IF down THEN ShiftKey([t EXCEPT !.gesture = TRUE])
    ELSE IF ~t.toggle THEN Escape(t)
    ELSE t

\* A command key that the user holds, too, comes up for the system.
Release(t, code) ==
    IF t.gesture \/ code = "esc"
    THEN LET u == IF CmdDown(t) THEN Chord(t, {Command}) ELSE t
         IN  [Escape(u) EXCEPT !.gesture = FALSE]
    ELSE t

Exception(t) == [t EXCEPT !.exception = TRUE]

SpecialKey(t, code, ext, down) ==
    CASE code = "numlock" -> IF ~kb.clear /\ down THEN [t EXCEPT !.numlock = ~@] ELSE t
      [] code \in {"esc", "space"} -> Exception(Release(t, code))
      [] code = "lshift"  -> Exception(LeftShift(t, down))
      [] code = "caps"    -> Exception(IF "lshift" \in t.bits /\ down THEN StartFeatureToggle(t) ELSE t)
      [] code = "menu"    -> IF kb.menu = "fn" /\ kb.mode > 1 THEN [t EXCEPT !.fn = down] ELSE t
      [] code \in {"ctrl", "win", "rwin", "alt", "rshift", "tab"} -> Exception(t)
      [] code = "num7"    -> Exception([t EXCEPT !.numpad = ~ext])
      [] code = "break"   -> t
      [] OTHER            -> IF CmdDown(t) THEN Exception(t)
                             ELSE [t EXCEPT !.numpad = FALSE, !.exception = FALSE]

NoCode == "none"
SpecialCode(code) ==
    CASE code = "numlock" /\ ~kb.clear -> NoCode
      [] code = "menu" -> IF kb.menu = "rwin" /\ kb.mac THEN "alt" ELSE kb.menu
      [] OTHER -> code

---------------------------------------------------------------------------
(* Feature toggle mode: left shift and caps lock are both down, or were. *)

\* Features of the touchpad change nothing here, except that escape restores it.
ToggleTouchpadFeatures(t, code, down) == IF code = "esc" /\ down THEN RestoreTouchpad(t) ELSE t

\* Mutant: the mode ends when either key is let go, the log with both.
MutantFeatureToggle(t, code, ext, down, limited) ==
    IF {"lshift", "caps"} \subseteq t.bits THEN ToggleTouchpadFeatures(t, code, down)
    ELSE [t EXCEPT !.toggle = FALSE]

FeatureToggle(t, code, ext, down, limited) ==
    IF {"lshift", "caps"} \subseteq t.bits
    THEN IF ~(FnKeyComb(t, code) /\ kb.shiftCaps) THEN ToggleTouchpadFeatures(t, code, down)
         ELSE IF kb.mode = 1 THEN Dispatch(t, <<code, ext>>, down)
         ELSE ProcessFnKeys(t, code, down, limited)
    ELSE IF {"lshift", "caps"} \cap t.bits = {}
    THEN ShowTouchPressureWidth([t EXCEPT !.toggle = FALSE])
    ELSE t

---------------------------------------------------------------------------
(* Modifiers: one piece of news for the touchpad with every modifier.  The   *)
(* alternate function sets two bits and only one is cleared ever: it is on   *)
(* once and for all, and its end is never told.                              *)

Modifiers == {"win", "alt", "ctrl", "fn", "lshift", "rshift"}

Tell(t, mods, ctrl, fast) == [t EXCEPT !.mods = mods, !.ctrl = ctrl, !.fast = fast]

ModifierNews(t) ==
    LET all == CmdDown(t) /\ CtrlDown(t) /\ AltDown(t) IN
    IF "CF" \notin t.mods /\ all                 THEN Tell(t, t.mods \cup {"CF"}, t.ctrl, TRUE)
    ELSE IF "CF" \in t.mods /\ ~all              THEN Tell(t, t.mods \ {"CF"}, t.ctrl, FALSE)
    ELSE IF "AF" \notin t.mods /\ CmdDown(t) /\ AltDown(t) THEN Tell(t, t.mods \cup {"AF"}, t.ctrl, t.fast)
    ELSE IF "CMD" \notin t.mods /\ CmdDown(t)    THEN Tell(t, t.mods \cup {"CMD"}, t.ctrl, t.fast)
    ELSE IF "CMD" \in t.mods /\ ~CmdDown(t)      THEN Tell(t, t.mods \ {"CMD"}, t.ctrl, t.fast)
    ELSE IF "C" \notin t.mods /\ CtrlDown(t)     THEN Tell(t, t.mods \cup {"C"}, TRUE, t.fast)
    ELSE IF "C" \in t.mods /\ ~CtrlDown(t)       THEN Tell(t, t.mods \ {"C"}, FALSE, t.fast)
    ELSE t

---------------------------------------------------------------------------
(* dispatchKeyboardEventWithScancode *)

\* The menu key asks the touchpad for a click of its right button instead.
ModifierKey(t, code, ext, down) ==
    IF code = "menu" THEN ModifierNews(t) ELSE Dispatch(ModifierNews(t), <<code, ext>>, down)

\* Keys that are no sign of typing end the pause of the touchpad for typing.
NormalKey(t, code, ext, down) ==
    LET u == Dispatch(t, <<code, ext>>, down)
    IN  IF (u.exception \/ u.numpad) /\ u.tpad THEN EnableTouchpad(u) ELSE u

DispatchKey(t, code, ext, down, limited) ==
    IF t.toggle THEN FeatureToggle(t, code, ext, down, limited)
    ELSE IF code = NoCode THEN t
    ELSE IF FnKeyComb(t, code) /\ (t.fn \/ kb.mode = 1) THEN ProcessFnKeys(t, code, down, limited)
    ELSE IF t.dark THEN t
    ELSE IF code \in Modifiers \/ (code = "menu" /\ ~t.fn) THEN ModifierKey(t, code, ext, down)
    ELSE IF ~t.fn THEN NormalKey(t, code, ext, down)
    ELSE t

HandleKey(t, code, ext, down, limited) ==
    IF ExtendedFunction(t, code) THEN ProcessExtendedFunctions(t, code, down)
    ELSE DispatchKey(SpecialKey(t, code, ext, down), SpecialCode(code), ext, down, limited)

\* limited: within two seconds of the function key before.
KeyEvent(t, key, down, limited) ==
    LET k    == KeyCode(t, key)
        code == k[1]
        u    == IF down /\ key = "break" THEN Dispatch(t, Control, FALSE) ELSE t
    IN  IF Swallowed(t, key, down) THEN Combination(t, key, down)
        ELSE IF down /\ code \in t.bits /\ ~MayRepeat(t, code) THEN u
        ELSE HandleKey([u EXCEPT !.bits = IF down THEN @ \cup {code} ELSE @ \ {code}],
                       code, k[2], down, limited)

---------------------------------------------------------------------------
HeldKeys == ToSet(held)

\* Keys whose release will not mean what their press meant.
Disturbed ==
    (IF s'.dark /\ ~s.dark THEN HeldKeys ELSE {}) \cup
    (IF s'.toggle /\ ~s.toggle THEN HeldKeys \ {"lshift", "caps"} ELSE {}) \cup
    (IF s'.numlock # s.numlock THEN HeldKeys \cap {"num7"} ELSE {})

Press(key) ==
    /\ key \in kb.keys \ HeldKeys /\ Len(held) < MaxHeld
    /\ held' = Append(held, key) /\ repeats' = awake
    /\ IF awake THEN \E limited \in BOOLEAN : s' = KeyEvent(s, key, TRUE, limited) ELSE s' = s
    /\ lost' = lost \cup Disturbed
    /\ again' = (again # (awake /\ s.toggle /\ key \in {"lshift", "caps"}))
    /\ UNCHANGED <<kb, awake, sleeps>>

Repeat ==
    /\ repeats
    /\ \E limited \in BOOLEAN : s' = KeyEvent(s, Last(held), TRUE, limited)
    /\ lost' = lost \cup Disturbed
    /\ UNCHANGED <<kb, held, repeats, awake, sleeps, again>>

LetGo(key) ==
    /\ \E i \in DOMAIN held :
          /\ held[i] = key /\ (kb.nested => i = Len(held))
          /\ held' = RemoveAt(held, i)
    /\ repeats' = FALSE
    /\ s' = IF awake THEN KeyEvent(s, key, FALSE, FALSE) ELSE s
    /\ UNCHANGED <<kb, awake, sleeps, lost, again>>

\* Between key events.
Sleep ==
    /\ awake /\ sleeps < MaxSleeps
    /\ awake' = FALSE /\ sleeps' = sleeps + 1 /\ repeats' = FALSE
    /\ lost' = lost \cup HeldKeys
    /\ UNCHANGED <<kb, held, again, s>>

\* Mutant: the vector keeps the keys of before.
MutantWoken(t) == [t EXCEPT !.disabled = FALSE, !.log = FALSE]

\* Both drivers wake up.  The loop that is to release keys finds none in the
\* vector, which has just been cleared.
Woken(t) == [t EXCEPT !.bits = {}, !.disabled = FALSE, !.log = FALSE]

Wake ==
    /\ ~awake
    /\ awake' = TRUE /\ s' = Woken(s) /\ again' = FALSE
    /\ UNCHANGED <<kb, held, repeats, sleeps, lost>>

\* The touchpad switches applications and lets command go when its timer fires.
AppSwitch ==
    /\ awake /\ kb.gestures
    /\ s' = [s EXCEPT !.app = TRUE, !.gesture = TRUE, !.sys = @ \cup {Command}]
    /\ UNCHANGED <<kb, held, repeats, awake, sleeps, lost, again>>

EndAppSwitch ==
    /\ s.app
    /\ s' = [ReleaseCmdKey(s) EXCEPT !.app = FALSE]
    /\ UNCHANGED <<kb, held, repeats, awake, sleeps, lost, again>>

\* Other gestures are combinations, too, with the right keys of a pair.
Gesture ==
    /\ awake /\ kb.gestures
    /\ \E modifiers \in {{Command}, {<<"ctrl", TRUE>>}, {Command, <<"ctrl", TRUE>>, Shift}, {Command, <<"alt", TRUE>>}} :
          s' = Chord(s, modifiers)
    /\ UNCHANGED <<kb, held, repeats, awake, sleeps, lost, again>>

Init ==
    /\ kb \in Keyboards
    /\ held = <<>> /\ repeats = FALSE /\ awake = TRUE /\ sleeps = 0 /\ lost = {}
    /\ again = FALSE
    /\ s = InitState

Next ==
    \/ \E key \in Keys : Press(key) \/ LetGo(key)
    \/ Repeat
    \/ Sleep \/ Wake
    \/ AppSwitch \/ EndAppSwitch \/ Gesture

Spec == Init /\ [][Next]_vars

---------------------------------------------------------------------------
(* Properties. *)

\* Nothing is held, no gesture holds command, and the driver listens.
AtRest == held = <<>> /\ ~s.app /\ awake

\* All codes that a key may have been down as.
CodesOf(keys) == {KeyCode(s, key)[1] : key \in keys} \cup (IF "menu" \in keys THEN {"fn", "rwin", "alt"} ELSE {})

\* No key is down in the bit vector: its next press would be dropped as a repeat.
VectorClears == s.bits = {}

\* No key is down for the system, except ones that were down when something else
\* than a modifier changed what their release means (lost).  Fn that came up in
\* such a time is down for the driver until it is pressed again.
SystemLetsGo ==
    {key[1] : key \in s.sys} \subseteq CodesOf(lost) \/ (kb.menu = "fn" /\ "menu" \in lost)

\* Chords of modifiers, function keys, remapped and swallowed keys, with
\* gestures, repeats and sleep in between: when all keys are up, no key is down
\* for the driver, nor for the system.  The keyboards keep out what README.md
\* says fails: a key that goes down before the modifier that swallows its
\* release, and a right-hand key held over a function that presses the left one.
KeysComeUp == AtRest => VectorClears /\ SystemLetsGo

ControlLetGo == s.ctrl => "ctrl" \in CodesOf(lost)
SpeedLetGo   == s.fast => CodesOf(lost) \cap {"win", "ctrl", "alt"} # {}
HoldLetGo    == s.hold => lost \cap {"lshift", "caps"} # {}

\* At rest the touchpad does not take control for down (its scrolls would
\* zoom), nor scroll at double speed, nor in reverse, unless the modifiers, or
\* for the last one of the toggle mode's keys, were down at a sleep: news of
\* several modifiers travel one per modifier event.  A keyboard with all three of
\* control, alt and command lets the last key go first; in another order the end
\* of control can be missed, and the alternate function never ends (README.md).
TouchpadLetGo == AtRest => ControlLetGo /\ SpeedLetGo /\ HoldLetGo

\* The keyboard driver tells the touchpad to switch its log over, not which way:
\* the log is on in the feature toggle mode and off outside, and the other way
\* round from the moment that a key of the mode is pressed again in it until one
\* is once more, whatever is pressed, repeated and let go in between; until one
\* of the two keys is down at a sleep.
LogFollowsMode == s.log = (s.toggle # again) \/ lost \cap {"lshift", "caps"} # {}

\* The two drivers agree on whether the touchpad is on, after its own key, the
\* display's sleep, the restore key or typing; a wake-up may switch it on
\* behind the keyboard driver's back, never off.
TouchpadAgrees == (s.disabled => ~s.tpad) /\ (~s.tpad => s.disabled \/ sleeps > 0)

===============================================================================
