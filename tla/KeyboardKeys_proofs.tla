------------------------- MODULE KeyboardKeys_proofs -------------------------
(***************************************************************************)
(* For every set of configurations and every bound: the two drivers agree   *)
(* on whether the touchpad is on, TouchpadAgrees; the touchpad's log is on   *)
(* in the feature toggle mode only, LogFollowsMode; the touchpad lets go of  *)
(* modifiers, TouchpadLetGo, and keys that go down come up, KeysComeUp, on   *)
(* the keyboards for which FewModifiers and Steady say so.                   *)
(*                                                                         *)
(* A key event is a function of the state, put together from the driver's  *)
(* methods.  So each proof has a lemma for each method that says that it   *)
(* keeps the property, as a predicate of a state; lemmas use those of the  *)
(* methods that are called.                                                *)
(***************************************************************************)
EXTENDS KeyboardKeys, SequenceTheorems, TLAPS

\* What the lemmas need to know of a state's type.
Pad(t) ==
    /\ {"tpad", "disabled"} \subseteq DOMAIN t
    /\ t.tpad \in BOOLEAN /\ t.disabled \in BOOLEAN

\* TouchpadAgrees of a state t; slept says that there was a wake-up.
Agreed(t, slept) ==
    /\ Pad(t)
    /\ t.disabled => ~t.tpad
    /\ ~t.tpad => t.disabled \/ slept

\* Key events of the system leave the touchpad alone.
LEMMA Dispatching ==
    ASSUME NEW t, NEW slept \in BOOLEAN, NEW key, NEW down, Agreed(t, slept)
    PROVE  Agreed(Dispatch(t, key, down), slept)
BY DEF Agreed, Pad, Dispatch

LEMMA Chords ==
    ASSUME NEW t, NEW slept \in BOOLEAN, NEW modifiers, Agreed(t, slept)
    PROVE  Agreed(Chord(t, modifiers), slept)
BY DEF Agreed, Pad, Chord

\* Notifications: the two that switch the touchpad tell both drivers.
LEMMA Switching ==
    ASSUME NEW t, NEW slept \in BOOLEAN, Agreed(t, slept)
    PROVE  Agreed(SwitchTouchpad(t), slept)
BY DEF Agreed, Pad, SwitchTouchpad

LEMMA Restoring ==
    ASSUME NEW t, NEW slept \in BOOLEAN, Agreed(t, slept)
    PROVE  Agreed(RestoreTouchpad(t), slept)
BY DEF Agreed, Pad, RestoreTouchpad

LEMMA Escaping ==
    ASSUME NEW t, NEW slept \in BOOLEAN, Agreed(t, slept)
    PROVE  Agreed(Escape(t), slept)
BY DEF Agreed, Pad, Escape, ReleaseCmdKey

LEMMA Notifying ==
    ASSUME NEW t, NEW slept \in BOOLEAN, Agreed(t, slept)
    PROVE  /\ Agreed(ShiftKey(t), slept)
           /\ Agreed(ShowTouchPressureWidth(t), slept)
           /\ t.tpad => Agreed(EnableTouchpad(t), slept)
BY DEF Agreed, Pad, ShiftKey, ShowTouchPressureWidth, EnableTouchpad

---------------------------------------------------------------------------
(* Keys and combinations that never get to HandleKey. *)

LEMMA GermanLayout ==
    ASSUME NEW t, NEW slept \in BOOLEAN, NEW down, Agreed(t, slept)
    PROVE  Agreed(MapGermanTurkishKeyboardLayout(t, down), slept)
<1>1. CASE down
    <2> DEFINE up == IF CtrlDown(t) THEN Dispatch(t, Control, FALSE) ELSE t
    <2>1. Agreed(up, slept) BY Dispatching
    <2> QED BY <1>1, <2>1, Dispatching DEF MapGermanTurkishKeyboardLayout
<1>2. CASE ~down
    BY <1>2, Dispatching DEF MapGermanTurkishKeyboardLayout
<1> QED BY <1>1, <1>2

LEMMA Combinations ==
    ASSUME NEW t, NEW slept \in BOOLEAN, NEW key, NEW down, Agreed(t, slept)
    PROVE  Agreed(Combination(t, key, down), slept)
BY GermanLayout, Chords, Dispatching, Switching DEF Combination

---------------------------------------------------------------------------
(* Function keys. *)

LEMMA ExtendedFunctions ==
    ASSUME NEW t, NEW slept \in BOOLEAN, NEW code, NEW down, Agreed(t, slept)
    PROVE  Agreed(ProcessExtendedFunctions(t, code, down), slept)
BY Dispatching DEF ProcessExtendedFunctions

LEMMA DisplaySleeping ==
    ASSUME NEW t, NEW slept \in BOOLEAN, Agreed(t, slept)
    PROVE  Agreed(DisplaySleep(t), slept)
<1> DEFINE u == SwitchTouchpad(Chord(t, {Control, Shift}))
<1>1. Agreed(u, slept) BY Chords, Switching
<1>2. DisplaySleep(t) = [u EXCEPT !.dark = ~@] BY DEF DisplaySleep
<1> HIDE DEF u
<1> QED BY <1>1, <1>2 DEF Agreed, Pad

LEMMA FnKeys ==
    ASSUME NEW t, NEW slept \in BOOLEAN, NEW code, NEW down, NEW limited, Agreed(t, slept)
    PROVE  Agreed(ProcessFnKeys(t, code, down, limited), slept)
BY Dispatching, Chords, DisplaySleeping, Switching DEF ProcessFnKeys

---------------------------------------------------------------------------
(* Keys with a meaning of their own, and the feature toggle mode. *)

LEMMA StartingFeatureToggle ==
    ASSUME NEW t, NEW slept \in BOOLEAN, Agreed(t, slept)
    PROVE  Agreed(StartFeatureToggle(t), slept)
<1> DEFINE on == [t EXCEPT !.toggle = TRUE]
           u  == ShowTouchPressureWidth(on)
           v  == [u EXCEPT !.gesture = FALSE]
<1>1. Agreed(on, slept) BY DEF Agreed, Pad
<1>2. Agreed(u, slept) BY <1>1, Notifying
<1>3. StartFeatureToggle(t) = Escape(Dispatch(v, Shift, FALSE)) BY DEF StartFeatureToggle
<1>4. Agreed(v, slept)
    <2> HIDE DEF u
    <2> QED BY <1>2 DEF Agreed, Pad
<1> QED BY <1>3, <1>4, Dispatching, Escaping

LEMMA LeftShifts ==
    ASSUME NEW t, NEW slept \in BOOLEAN, NEW down, Agreed(t, slept)
    PROVE  Agreed(LeftShift(t, down), slept)
<1>1. Agreed([t EXCEPT !.gesture = TRUE], slept) BY DEF Agreed, Pad
<1> QED BY <1>1, StartingFeatureToggle, Notifying, Escaping DEF LeftShift

LEMMA Releasing ==
    ASSUME NEW t, NEW slept \in BOOLEAN, NEW code, Agreed(t, slept)
    PROVE  Agreed(Release(t, code), slept)
<1> DEFINE u == IF CmdDown(t) THEN Chord(t, {Command}) ELSE t
           v == Escape(u)
<1>1. Agreed(v, slept) BY Chords, Escaping
<1>2. Agreed([v EXCEPT !.gesture = FALSE], slept)
    <2> HIDE DEF v
    <2> QED BY <1>1 DEF Agreed, Pad
<1> QED BY <1>2 DEF Release

LEMMA SpecialKeys ==
    ASSUME NEW t, NEW slept \in BOOLEAN, NEW code, NEW ext, NEW down, Agreed(t, slept)
    PROVE  Agreed(SpecialKey(t, code, ext, down), slept)
<1>1. ASSUME NEW u, Agreed(u, slept)
      PROVE  Agreed(Exception(u), slept)
    BY <1>1 DEF Agreed, Pad, Exception
<1>2. /\ Agreed([t EXCEPT !.numlock = ~@], slept)
      /\ Agreed([t EXCEPT !.fn = down], slept)
      /\ Agreed([t EXCEPT !.numpad = ~ext], slept)
      /\ Agreed([t EXCEPT !.numpad = FALSE, !.exception = FALSE], slept)
    BY DEF Agreed, Pad
<1>3. /\ Agreed(Release(t, code), slept)
      /\ Agreed(LeftShift(t, down), slept)
      /\ Agreed(StartFeatureToggle(t), slept)
    BY Releasing, LeftShifts, StartingFeatureToggle
<1> QED BY <1>1, <1>2, <1>3 DEF SpecialKey

LEMMA FeatureToggling ==
    ASSUME NEW t, NEW slept \in BOOLEAN, NEW code, NEW ext, NEW down, NEW limited, Agreed(t, slept)
    PROVE  Agreed(FeatureToggle(t, code, ext, down, limited), slept)
<1>1. Agreed(ToggleTouchpadFeatures(t, code, down), slept)
    BY Restoring DEF ToggleTouchpadFeatures
<1>2. Agreed([t EXCEPT !.toggle = FALSE], slept) BY DEF Agreed, Pad
<1>3. Agreed(ShowTouchPressureWidth([t EXCEPT !.toggle = FALSE]), slept) BY <1>2, Notifying
<1> QED BY <1>1, <1>3, Dispatching, FnKeys DEF FeatureToggle

---------------------------------------------------------------------------
(* dispatchKeyboardEventWithScancode *)

LEMMA ModifierKeys ==
    ASSUME NEW t, NEW slept \in BOOLEAN, NEW code, NEW ext, NEW down, Agreed(t, slept)
    PROVE  Agreed(ModifierKey(t, code, ext, down), slept)
<1>1. ASSUME NEW mods, NEW ctrl, NEW fast
      PROVE  Agreed(Tell(t, mods, ctrl, fast), slept)
    BY DEF Agreed, Pad, Tell
<1>2. Agreed(ModifierNews(t), slept) BY <1>1 DEF ModifierNews
<1> QED BY <1>2, Dispatching DEF ModifierKey

\* The end of the pause for typing does not switch on a touchpad that is off.
LEMMA NormalKeys ==
    ASSUME NEW t, NEW slept \in BOOLEAN, NEW code, NEW ext, NEW down, Agreed(t, slept)
    PROVE  Agreed(NormalKey(t, code, ext, down), slept)
BY Dispatching, Notifying DEF NormalKey

LEMMA KeysDispatched ==
    ASSUME NEW t, NEW slept \in BOOLEAN, NEW code, NEW ext, NEW down, NEW limited, Agreed(t, slept)
    PROVE  Agreed(DispatchKey(t, code, ext, down, limited), slept)
BY FeatureToggling, FnKeys, ModifierKeys, NormalKeys DEF DispatchKey

LEMMA KeysHandled ==
    ASSUME NEW t, NEW slept \in BOOLEAN, NEW code, NEW ext, NEW down, NEW limited, Agreed(t, slept)
    PROVE  Agreed(HandleKey(t, code, ext, down, limited), slept)
BY ExtendedFunctions, SpecialKeys, KeysDispatched DEF HandleKey

LEMMA KeyEvents ==
    ASSUME NEW t, NEW slept \in BOOLEAN, NEW key, NEW down, NEW limited, Agreed(t, slept)
    PROVE  Agreed(KeyEvent(t, key, down, limited), slept)
<1> DEFINE code == KeyCode(t, key)[1]
           u    == IF down /\ key = "break" THEN Dispatch(t, Control, FALSE) ELSE t
           v    == [u EXCEPT !.bits = IF down THEN @ \cup {code} ELSE @ \ {code}]
<1>1. Agreed(u, slept) BY Dispatching
<1>2. Agreed(v, slept)
    <2> HIDE DEF u, code
    <2> QED BY <1>1 DEF Agreed, Pad
<1>3. Agreed(Combination(t, key, down), slept) BY Combinations
<1>4. Agreed(HandleKey(v, code, KeyCode(t, key)[2], down, limited), slept)
    <2> HIDE DEF v, code
    <2> QED BY <1>2, KeysHandled
<1>5. KeyEvent(t, key, down, limited) =
          IF Swallowed(t, key, down) THEN Combination(t, key, down)
          ELSE IF down /\ code \in t.bits /\ ~MayRepeat(t, code) THEN u
          ELSE HandleKey(v, code, KeyCode(t, key)[2], down, limited)
    BY DEF KeyEvent
<1> QED
    <2> HIDE DEF u, v, code
    <2> QED BY <1>1, <1>3, <1>4, <1>5

---------------------------------------------------------------------------
(* The system. *)

\* Who sleeps has slept: the wake-up may then switch on what is off.
IInv ==
    /\ sleeps \in Nat
    /\ ~awake => sleeps > 0
    /\ Agreed(s, sleeps > 0)

LEMMA AgreedAtFirst == Init => IInv
BY DEF Init, InitState, IInv, Agreed, Pad

LEMMA AgreedStays == IInv /\ [Next]_vars => IInv'
<1> SUFFICES ASSUME IInv, [Next]_vars PROVE IInv'
    OBVIOUS
<1> USE DEF IInv
<1>0. ASSUME NEW key, NEW down
      PROVE  \A limited \in BOOLEAN : Agreed(KeyEvent(s, key, down, limited), sleeps > 0)
    <2>1. (sleeps > 0) \in BOOLEAN OBVIOUS
    <2> QED BY <2>1, KeyEvents
<1>1. ASSUME NEW key \in Keys, Press(key) PROVE IInv'
    <2>1. Agreed(s', sleeps > 0) BY <1>0, <1>1 DEF Press
    <2> QED BY <1>1, <2>1 DEF Press
<1>2. ASSUME NEW key \in Keys, LetGo(key) PROVE IInv'
    <2>1. Agreed(s', sleeps > 0) BY <1>0, <1>2 DEF LetGo
    <2> QED BY <1>2, <2>1 DEF LetGo
<1>3. CASE Repeat
    <2>1. Agreed(s', sleeps > 0) BY <1>0, <1>3 DEF Repeat
    <2> QED BY <1>3, <2>1 DEF Repeat
<1>4. CASE Sleep
    BY <1>4 DEF Sleep, Agreed, Pad
<1>5. CASE Wake
    BY <1>5 DEF Wake, Woken, Agreed, Pad
<1>6. CASE AppSwitch
    BY <1>6 DEF AppSwitch, Agreed, Pad
<1>7. CASE EndAppSwitch
    BY <1>7 DEF EndAppSwitch, ReleaseCmdKey, Agreed, Pad
<1>8. CASE Gesture
    <2>1. Agreed(s', sleeps > 0)
        BY <1>8, Chords, (sleeps > 0) \in BOOLEAN DEF Gesture
    <2> QED BY <1>8, <2>1 DEF Gesture
<1>9. CASE UNCHANGED vars
    BY <1>9 DEF vars, Agreed, Pad
<1> QED BY <1>1, <1>2, <1>3, <1>4, <1>5, <1>6, <1>7, <1>8, <1>9 DEF Next

LEMMA AgreedSuffices == IInv => TouchpadAgrees
BY DEF IInv, Agreed, TouchpadAgrees

\* A touchpad that the keyboard driver takes for switched on is switched on,
\* and one it takes for switched off is, unless there was a wake-up: after its
\* own key, function keys, the display's sleep, the restore key, typing and
\* gestures in any order, on every keyboard.
THEOREM DriversAgreeOnTouchpad == Spec => []TouchpadAgrees
<1>1. Spec => []IInv
    BY AgreedAtFirst, AgreedStays, PTL DEF Spec
<1> QED BY <1>1, AgreedSuffices, PTL

---------------------------------------------------------------------------
(* The feature toggle mode and the touchpad's log: LogFollowsMode.  Only its *)
(* keys, which begin and end the mode and turn the log over in it, switch    *)
(* the two, everything else leaves them and the bits of the keys; so the     *)
(* other methods have a lemma each that what was kept of a state o until     *)
(* then stays kept.                                                          *)

\* The two keys of the feature toggle mode.
Both == {"lshift", "caps"}

\* What the lemmas need to know of a state's type.
Logging(t) ==
    /\ {"bits", "toggle", "log"} \subseteq DOMAIN t
    /\ t.toggle \in BOOLEAN /\ t.log \in BOOLEAN

Kept(o, t) ==
    /\ Logging(t)
    /\ t.bits = o.bits /\ t.toggle = o.toggle /\ t.log = o.log

LEMMA KeptAtFirst ==
    ASSUME NEW t, Logging(t)
    PROVE  Kept(t, t)
BY DEF Kept

LEMMA NotificationsKeep ==
    ASSUME NEW o, NEW t, Kept(o, t)
    PROVE  /\ Kept(o, Escape(t)) /\ Kept(o, ShiftKey(t)) /\ Kept(o, EnableTouchpad(t))
           /\ Kept(o, SwitchTouchpad(t)) /\ Kept(o, RestoreTouchpad(t))
BY DEF Logging, Kept, Escape, ReleaseCmdKey, ShiftKey, EnableTouchpad, SwitchTouchpad, RestoreTouchpad

LEMMA EventsKeep ==
    ASSUME NEW o, NEW t, Kept(o, t)
    PROVE  /\ \A key, down : Kept(o, Dispatch(t, key, down))
           /\ \A modifiers : Kept(o, Chord(t, modifiers))
BY DEF Logging, Kept, Dispatch, Chord

LEMMA CombinationsKeep ==
    ASSUME NEW o, NEW t, NEW key, NEW down, Kept(o, t)
    PROVE  Kept(o, Combination(t, key, down))
<1>1. Kept(o, MapGermanTurkishKeyboardLayout(t, down))
    <2>1. CASE down
        <3> DEFINE up == IF CtrlDown(t) THEN Dispatch(t, Control, FALSE) ELSE t
        <3>1. Kept(o, up) BY EventsKeep
        <3> QED BY <2>1, <3>1, EventsKeep DEF MapGermanTurkishKeyboardLayout
    <2>2. CASE ~down
        BY <2>2, EventsKeep DEF MapGermanTurkishKeyboardLayout
    <2> QED BY <2>1, <2>2
<1> QED BY <1>1, EventsKeep, NotificationsKeep DEF Combination

LEMMA ExtendedFunctionsKeep ==
    ASSUME NEW o, NEW t, NEW code, NEW down, Kept(o, t)
    PROVE  Kept(o, ProcessExtendedFunctions(t, code, down))
BY EventsKeep DEF ProcessExtendedFunctions

LEMMA FnKeysKeep ==
    ASSUME NEW o, NEW t, NEW code, NEW down, NEW limited, Kept(o, t)
    PROVE  Kept(o, ProcessFnKeys(t, code, down, limited))
<1>1. Kept(o, DisplaySleep(t))
    <2> DEFINE u == SwitchTouchpad(Chord(t, {Control, Shift}))
    <2>1. Kept(o, u) BY EventsKeep, NotificationsKeep
    <2>2. DisplaySleep(t) = [u EXCEPT !.dark = ~@] BY DEF DisplaySleep
    <2> HIDE DEF u
    <2> QED BY <2>1, <2>2 DEF Kept, Logging
<1> QED BY <1>1, EventsKeep, NotificationsKeep DEF ProcessFnKeys

LEMMA ReleasesKeep ==
    ASSUME NEW o, NEW t, NEW code, Kept(o, t)
    PROVE  Kept(o, Release(t, code))
<1> DEFINE u == IF CmdDown(t) THEN Chord(t, {Command}) ELSE t
           v == Escape(u)
<1>1. Kept(o, v) BY EventsKeep, NotificationsKeep
<1>2. Kept(o, [v EXCEPT !.gesture = FALSE])
    <2> HIDE DEF v
    <2> QED BY <1>1 DEF Kept, Logging
<1> QED BY <1>2 DEF Release

LEMMA PlainKeysKeep ==
    ASSUME NEW o, NEW t, NEW code, NEW ext, NEW down, Kept(o, t)
    PROVE  Kept(o, ModifierKey(t, code, ext, down)) /\ Kept(o, NormalKey(t, code, ext, down))
<1>1. ASSUME NEW mods, NEW ctrl, NEW fast PROVE Kept(o, Tell(t, mods, ctrl, fast))
    BY DEF Tell, Kept, Logging
<1>2. Kept(o, ModifierNews(t)) BY <1>1 DEF ModifierNews
<1> QED BY <1>2, EventsKeep, NotificationsKeep DEF ModifierKey, NormalKey

---------------------------------------------------------------------------
(* The methods that switch the mode. *)

\* LogFollowsMode of a state t, in which the log is turned over or not, and that
\* a key will end the mode.
Follows(turned, t) ==
    /\ Logging(t)
    /\ turned \in BOOLEAN /\ t.log = (t.toggle # turned)
    /\ t.toggle => t.bits \cap Both # {}

\* The mode begins with both its keys down.
LEMMA StartSwitches ==
    ASSUME NEW t, Logging(t)
    PROVE  /\ Logging(StartFeatureToggle(t))
           /\ StartFeatureToggle(t).bits = t.bits
           /\ StartFeatureToggle(t).toggle = TRUE
           /\ StartFeatureToggle(t).log = ~t.log
<1> DEFINE on == [t EXCEPT !.toggle = TRUE]
           u  == ShowTouchPressureWidth(on)
           v  == [u EXCEPT !.gesture = FALSE]
<1>1. Logging(on) /\ on.bits = t.bits /\ on.toggle = TRUE /\ on.log = t.log
    BY DEF Logging
<1>2. Logging(u) /\ u.bits = t.bits /\ u.toggle = TRUE /\ u.log = ~t.log
    <2> HIDE DEF on
    <2> QED BY <1>1 DEF ShowTouchPressureWidth, Logging
<1>3. Kept(u, v)
    <2> HIDE DEF u
    <2> QED BY <1>2 DEF Kept, Logging
<1>4. Kept(u, Escape(Dispatch(v, Shift, FALSE)))
    <2> HIDE DEF u, v
    <2> QED BY <1>3, EventsKeep, NotificationsKeep
<1>5. StartFeatureToggle(t) = Escape(Dispatch(v, Shift, FALSE)) BY DEF StartFeatureToggle
<1> HIDE DEF u, v
<1> QED BY <1>2, <1>4, <1>5 DEF Kept

\* The log follows the mode also in the middle of a key event, when the bit of
\* the key that ends the mode is cleared already.
Even(turned, o, t) ==
    /\ Logging(t) /\ t.bits = o.bits
    /\ turned \in BOOLEAN /\ t.log = (t.toggle # turned)

\* The key turns the log over: it is one of the mode's and goes down in the mode.
Turned(turned, t, code, down) ==
    IF down /\ code \in Both /\ t.toggle THEN ~turned ELSE turned

\* Only a key of the mode begins it, or turns the log over in it.
LEMMA SpecialKeysFollow ==
    ASSUME NEW t, NEW code, NEW ext, NEW down, NEW turned, Even(turned, t, t),
           down /\ code \in Both /\ t.toggle => Both \subseteq t.bits
    PROVE  Even(Turned(turned, t, code, down), t, SpecialKey(t, code, ext, down))
<1> DEFINE next == Turned(turned, t, code, down)
<1>1. ASSUME ~(down /\ code \in Both /\ t.toggle), NEW u, Kept(t, u) PROVE Even(next, t, u)
    BY <1>1 DEF Kept, Even, Turned
<1>2. ASSUME NEW u, Even(next, t, u) PROVE Even(next, t, Exception(u))
    <2> HIDE DEF next
    <2> QED BY <1>2 DEF Exception, Logging, Even
<1>3. down /\ code \in Both => Even(next, t, StartFeatureToggle(t))
    <2> DEFINE u == StartFeatureToggle(t)
    <2>1. Logging(u) /\ u.bits = t.bits /\ u.toggle = TRUE /\ u.log = ~t.log
        BY StartSwitches DEF Even
    <2> HIDE DEF u
    <2> SUFFICES ASSUME down, code \in Both PROVE Even(next, t, u)
        BY DEF u
    <2>2. t.toggle \in BOOLEAN /\ turned \in BOOLEAN /\ t.log = (t.toggle # turned)
        BY DEF Even, Logging
    <2>3. CASE t.toggle
        <3>1. next = ~turned BY <2>3 DEF Turned
        <3>2. u.log = (TRUE # ~turned) BY <2>1, <2>2, <2>3
        <3> QED BY <2>1, <2>2, <3>1, <3>2 DEF Even
    <2>4. CASE ~t.toggle
        <3>1. next = turned BY <2>4 DEF Turned
        <3>2. u.log = (TRUE # turned) BY <2>1, <2>2, <2>4
        <3> QED BY <2>1, <2>2, <3>1, <3>2 DEF Even
    <2> QED BY <2>3, <2>4
<1> HIDE DEF next
<1>4. Kept(t, t) BY KeptAtFirst DEF Even
<1>5. /\ Kept(t, [t EXCEPT !.numlock = ~@])
      /\ Kept(t, [t EXCEPT !.fn = down])
      /\ Kept(t, [t EXCEPT !.numpad = ~ext])
      /\ Kept(t, [t EXCEPT !.numpad = FALSE, !.exception = FALSE])
      /\ Kept(t, [t EXCEPT !.gesture = TRUE])
    BY <1>4 DEF Kept, Logging
<1>6. Kept(t, Release(t, code)) BY <1>4, ReleasesKeep
<1>7. ASSUME code \in Both PROVE Even(next, t, SpecialKey(t, code, ext, down))
    <2>1. code = "lshift" => Even(next, t, LeftShift(t, down))
        <3>1. Kept(t, ShiftKey([t EXCEPT !.gesture = TRUE])) /\ Kept(t, Escape(t))
            BY <1>4, <1>5, NotificationsKeep
        <3> QED BY <1>1, <1>3, <1>4, <1>7, <3>1 DEF LeftShift, Both
    <2>2. code = "caps" => Even(next, t, IF "lshift" \in t.bits /\ down THEN StartFeatureToggle(t) ELSE t)
        BY <1>1, <1>3, <1>4, <1>7 DEF Both
    <2>3. code = "lshift" \/ code = "caps" BY <1>7 DEF Both
    <2> QED BY <1>2, <2>1, <2>2, <2>3 DEF SpecialKey
<1>8. ASSUME code \notin Both PROVE Even(next, t, SpecialKey(t, code, ext, down))
    <2>1. ASSUME NEW u, Kept(t, u) PROVE Even(next, t, u) /\ Even(next, t, Exception(u))
        BY <1>1, <1>2, <1>8, <2>1
    <2>2. code # "lshift" /\ code # "caps" BY <1>8 DEF Both
    <2> QED BY <1>4, <1>5, <1>6, <2>1, <2>2 DEF SpecialKey
<1> QED BY <1>7, <1>8 DEF next

\* The mode ends when both its keys are up.
LEMMA DispatchedKeysFollow ==
    ASSUME NEW t, NEW code, NEW ext, NEW down, NEW limited, NEW turned,
           Even(turned, t, t)
    PROVE  LET u == DispatchKey(t, code, ext, down, limited) IN Follows(turned, u) /\ u.bits = t.bits
<1> DEFINE Good(u) == Follows(turned, u) /\ u.bits = t.bits
<1>1. Kept(t, t) BY KeptAtFirst DEF Even
<1>2. ASSUME NEW u, Kept(t, u), t.toggle => t.bits \cap Both # {} PROVE Good(u)
    BY <1>2 DEF Kept, Follows, Even
<1>3. CASE t.toggle
    <2>1. Kept(t, ToggleTouchpadFeatures(t, code, down))
        BY <1>1, NotificationsKeep DEF ToggleTouchpadFeatures
    <2>2. Good(ShowTouchPressureWidth([t EXCEPT !.toggle = FALSE]))
        BY <1>3 DEF ShowTouchPressureWidth, Follows, Logging, Even
    <2>3. Kept(t, Dispatch(t, <<code, ext>>, down)) /\ Kept(t, ProcessFnKeys(t, code, down, limited))
        BY <1>1, EventsKeep, FnKeysKeep
    <2>4. Both \subseteq t.bits => t.bits \cap Both # {} BY DEF Both
    <2> HIDE DEF Good
    <2>5. Good(FeatureToggle(t, code, ext, down, limited))
        BY <1>1, <1>2, <2>1, <2>2, <2>3, <2>4 DEF FeatureToggle, Both
    <2> QED BY <1>3, <2>5 DEF DispatchKey, Good
<1>4. CASE ~t.toggle
    <2>1. Kept(t, DispatchKey(t, code, ext, down, limited))
        BY <1>1, <1>4, FnKeysKeep, PlainKeysKeep DEF DispatchKey
    <2> QED BY <1>2, <1>4, <2>1
<1> QED BY <1>3, <1>4 DEF Even, Logging

LEMMA KeysFollow ==
    ASSUME NEW t, NEW code, NEW ext, NEW down, NEW limited, NEW turned,
           Even(turned, t, t), ExtendedFunction(t, code) => Follows(turned, t),
           down /\ code \in Both /\ t.toggle => Both \subseteq t.bits
    PROVE  LET u == HandleKey(t, code, ext, down, limited)
           IN  Follows(Turned(turned, t, code, down), u) /\ u.bits = t.bits
<1> DEFINE next == Turned(turned, t, code, down)
<1>1. CASE ExtendedFunction(t, code)
    <2>1. Kept(t, ProcessExtendedFunctions(t, code, down))
        BY KeptAtFirst, ExtendedFunctionsKeep DEF Even
    <2>2. next = turned BY <1>1 DEF ExtendedFunction, Turned
    <2> HIDE DEF next
    <2>3. Follows(next, ProcessExtendedFunctions(t, code, down))
        BY <1>1, <2>1, <2>2 DEF Kept, Follows
    <2>4. HandleKey(t, code, ext, down, limited) = ProcessExtendedFunctions(t, code, down)
        BY <1>1 DEF HandleKey
    <2> QED BY <2>1, <2>3, <2>4 DEF next, Kept
<1>2. CASE ~ExtendedFunction(t, code)
    <2> DEFINE u == SpecialKey(t, code, ext, down)
               c == SpecialCode(code)
    <2>1. Even(next, t, u) BY SpecialKeysFollow
    <2>2. HandleKey(t, code, ext, down, limited) = DispatchKey(u, c, ext, down, limited)
        BY <1>2 DEF HandleKey
    <2> HIDE DEF u, c, next
    <2>3. Even(next, u, u) /\ u.bits = t.bits BY <2>1 DEF Even
    <2>4. LET w == DispatchKey(u, c, ext, down, limited) IN Follows(next, w) /\ w.bits = u.bits
        BY <2>3, DispatchedKeysFollow
    <2> QED BY <2>2, <2>3, <2>4 DEF next
<1> QED BY <1>1, <1>2

\* A key of the mode has a code of its own.
LEMMA CodesOfTheMode ==
    ASSUME NEW t, NEW key
    PROVE  IF key \in Both THEN KeyCode(t, key)[1] = key ELSE KeyCode(t, key)[1] \notin Both
BY DEF KeyCode, MacSwap, Twin, Both

\* A key that repeats does not turn the log over: it is down already.
After(turned, t, key, down) ==
    IF down /\ key \in Both /\ key \notin t.bits /\ t.toggle THEN ~turned ELSE turned

\* What a key event makes of the log and of the bits of the mode's keys.
Reached(turned, t, u, key, down) ==
    /\ Follows(After(turned, t, key, down), u)
    /\ u.bits \cap Both = IF down THEN (t.bits \cup {key}) \cap Both ELSE (t.bits \ {key}) \cap Both

LEMMA KeyEventsFollow ==
    ASSUME NEW t, NEW key, NEW down, NEW limited, NEW turned, Follows(turned, t)
    PROVE  Reached(turned, t, KeyEvent(t, key, down, limited), key, down)
<1> DEFINE code == KeyCode(t, key)[1]
           u    == IF down /\ key = "break" THEN Dispatch(t, Control, FALSE) ELSE t
           v    == [u EXCEPT !.bits = IF down THEN @ \cup {code} ELSE @ \ {code}]
           next == After(turned, t, key, down)
           Changed(w) == w.bits \cap Both = IF down THEN (t.bits \cup {key}) \cap Both ELSE (t.bits \ {key}) \cap Both
<1> USE DEF Reached
<1>0. IF key \in Both THEN code = key ELSE code \notin Both
    BY CodesOfTheMode
<1>1. Kept(t, t) BY KeptAtFirst DEF Follows
<1>2. Kept(t, u) BY <1>1, EventsKeep
<1>3. ASSUME NEW w, Kept(t, w), key \notin Both \/ (down /\ key \in t.bits)
      PROVE  Follows(next, w) /\ Changed(w)
    <2>1. next = turned BY <1>3 DEF After
    <2> HIDE DEF next
    <2> QED BY <1>3, <2>1 DEF Kept, Follows
<1>4. KeyEvent(t, key, down, limited) =
          IF Swallowed(t, key, down) THEN Combination(t, key, down)
          ELSE IF down /\ code \in t.bits /\ ~MayRepeat(t, code) THEN u
          ELSE HandleKey(v, code, KeyCode(t, key)[2], down, limited)
    BY DEF KeyEvent
<1> HIDE DEF code, u
<1>5. CASE Swallowed(t, key, down)
    <2>1. key \notin Both BY <1>5 DEF Swallowed, Both
    <2>2. Kept(t, Combination(t, key, down)) BY <1>1, CombinationsKeep
    <2> QED BY <1>3, <1>4, <1>5, <2>1, <2>2
<1>6. CASE ~Swallowed(t, key, down) /\ down /\ code \in t.bits /\ ~MayRepeat(t, code)
    <2>1. key \notin Both \/ (down /\ key \in t.bits) BY <1>0, <1>6
    <2> QED BY <1>2, <1>3, <1>4, <1>6, <2>1
<1>7. CASE ~Swallowed(t, key, down) /\ ~(down /\ code \in t.bits /\ ~MayRepeat(t, code))
    <2>1. /\ Even(turned, v, v) /\ v.toggle = t.toggle
          /\ v.bits = IF down THEN t.bits \cup {code} ELSE t.bits \ {code}
        BY <1>2 DEF Even, Kept, Logging, Follows
    <2>2. ExtendedFunction(v, code) => Follows(turned, v)
        BY <2>1 DEF ExtendedFunction, Follows, Even
    <2>3. down /\ code \in Both => key = code /\ key \notin t.bits
        BY <1>0, <1>7 DEF MayRepeat, Both
    <2>a. down /\ code \in Both /\ v.toggle => Both \subseteq v.bits
        <3>1. t.toggle => t.bits \cap Both # {} BY DEF Follows
        <3> HIDE DEF v
        <3> QED BY <2>1, <2>3, <3>1 DEF Both
    <2>b. next = Turned(turned, v, code, down)
        <3> HIDE DEF v
        <3> QED BY <1>0, <2>1, <2>3 DEF Turned, After
    <2>4. v.bits \cap Both = IF down THEN (t.bits \cup {key}) \cap Both ELSE (t.bits \ {key}) \cap Both
        BY <1>0, <2>1
    <2> DEFINE w == HandleKey(v, code, KeyCode(t, key)[2], down, limited)
    <2>5. Follows(next, w) /\ w.bits = v.bits
        <3> HIDE DEF v, next
        <3> QED BY <2>1, <2>2, <2>a, <2>b, KeysFollow
    <2>6. KeyEvent(t, key, down, limited) = w BY <1>4, <1>7
    <2> HIDE DEF v, w, next
    <2>7. Follows(next, w) /\ Changed(w) BY <2>4, <2>5
    <2> QED BY <2>6, <2>7 DEF next
<1> QED BY <1>5, <1>6, <1>7

---------------------------------------------------------------------------
(* The system again. *)

\* The bits of the mode's keys are keys that the user holds, so that the end of
\* the mode is not missed, and a held key that repeats is known to be down, so
\* that it does not begin the mode again or turn the log over.
Followed ==
    /\ Follows(again, s)
    /\ s.bits \cap Both \subseteq HeldKeys
    /\ ~awake => s.bits \cap Both = {}
    /\ repeats /\ Last(held) \in Both => Last(held) \in s.bits

\* Keys of the mode that were down at a sleep come up unseen: nothing is
\* claimed from then on.
LogInv ==
    /\ held \in Seq(Keys) /\ awake \in BOOLEAN /\ repeats \in BOOLEAN /\ again \in BOOLEAN
    /\ repeats => awake /\ held # <<>>
    /\ lost \cap Both = {} => Followed

LEMMA FollowsAtFirst == Init => LogInv
<1> SUFFICES ASSUME Init PROVE LogInv
    OBVIOUS
<1>1. Follows(again, s) /\ s.bits = {} BY DEF Init, InitState, Follows, Logging
<1>2. held \in Seq(Keys) /\ awake /\ repeats = FALSE /\ again = FALSE BY DEF Init
<1> QED BY <1>1, <1>2 DEF LogInv, Followed

\* The keys that stay when one of them is let go.
LEMMA HeldAfterRemoval ==
    ASSUME NEW S, NEW q \in Seq(S), NEW i \in DOMAIN q
    PROVE  /\ RemoveAt(q, i) \in Seq(S) /\ Len(RemoveAt(q, i)) = Len(q) - 1
           /\ \A j \in DOMAIN RemoveAt(q, i) : RemoveAt(q, i)[j] = IF j < i THEN q[j] ELSE q[j + 1]
           /\ ToSet(q) \ {q[i]} \subseteq ToSet(RemoveAt(q, i))
<1> DEFINE r == RemoveAt(q, i)
<1> DEFINE front == SubSeq(q, 1, i - 1)
           rest  == SubSeq(q, i + 1, Len(q))
<1>0. /\ front \in Seq(S) /\ Len(front) = i - 1 /\ \A j \in 1..(i - 1) : front[j] = q[j]
      /\ rest \in Seq(S) /\ Len(rest) = Len(q) - i /\ \A j \in 1..(Len(q) - i) : rest[j] = q[i + j]
    BY SubSeqProperties
<1>1. /\ r \in Seq(S) /\ Len(r) = Len(q) - 1
      /\ \A j \in 1..Len(r) : r[j] = IF j < i THEN q[j] ELSE q[j + 1]
    <2>1. r = front \o rest BY DEF RemoveAt
    <2> HIDE DEF r, front, rest
    <2>2. r \in Seq(S) /\ Len(r) = Len(q) - 1 BY <1>0, <2>1
    <2>3. ASSUME NEW j \in 1..Len(r) PROVE r[j] = IF j < i THEN q[j] ELSE q[j + 1]
        <3>1. r[j] = IF j <= Len(front) THEN front[j] ELSE rest[j - Len(front)]
            BY <1>0, <2>1, <2>2
        <3>2. CASE j < i BY <1>0, <3>1, <3>2
        <3>3. CASE j >= i
            <4>1. j - (i - 1) \in 1..(Len(q) - i) BY <2>2, <3>3
            <4>2. rest[j - (i - 1)] = q[i + (j - (i - 1))] BY <1>0, <4>1
            <4> QED BY <1>0, <3>1, <3>3, <4>2
        <3> QED BY <3>2, <3>3
    <2> QED BY <2>2, <2>3
<1>2. ASSUME NEW j \in DOMAIN q, j # i PROVE q[j] \in ToSet(r)
    <2> HIDE DEF r, front, rest
    <2>1. CASE j < i BY <1>1, <2>1 DEF ToSet
    <2>2. CASE j > i
        <3>1. j - 1 \in 1..Len(r) /\ r[j - 1] = q[j] BY <1>1, <2>2
        <3> QED BY <1>1, <3>1 DEF ToSet
    <2> QED BY <1>2, <2>1, <2>2
<1>3. ASSUME NEW key \in ToSet(q), key # q[i] PROVE key \in ToSet(r)
    <2>1. PICK j \in DOMAIN q : q[j] = key BY DEF ToSet
    <2> QED BY <1>2, <1>3, <2>1
<1> HIDE DEF r
<1>4. ToSet(q) \ {q[i]} \subseteq ToSet(r) BY <1>3
<1> QED BY <1>1, <1>4 DEF r

LEMMA FollowedStays == LogInv /\ [Next]_vars => LogInv'
<1> SUFFICES ASSUME LogInv, [Next]_vars PROVE LogInv'
    OBVIOUS
<1> USE DEF LogInv
<1>a. ASSUME NEW key, NEW limited, Followed
      PROVE  LET u == KeyEvent(s, key, TRUE, limited)
             IN  Follows(After(again, s, key, TRUE), u) /\ u.bits \cap Both = (s.bits \cup {key}) \cap Both
    <2>1. Follows(again, s) BY <1>a DEF Followed
    <2>2. Reached(again, s, KeyEvent(s, key, TRUE, limited), key, TRUE) BY <2>1, KeyEventsFollow
    <2> QED BY <2>2 DEF Reached
<1>b. ASSUME NEW key, Followed
      PROVE  LET u == KeyEvent(s, key, FALSE, FALSE)
             IN  Follows(again, u) /\ u.bits \cap Both = (s.bits \ {key}) \cap Both
    <2>1. Follows(again, s) BY <1>b DEF Followed
    <2>2. Reached(again, s, KeyEvent(s, key, FALSE, FALSE), key, FALSE) BY <2>1, KeyEventsFollow
    <2> QED BY <2>2 DEF Reached, After
<1>1. ASSUME NEW key \in Keys, Press(key) PROVE LogInv'
    <2>1. held' = Append(held, key) /\ repeats' = awake /\ awake' = awake /\ lost \subseteq lost'
        BY <1>1 DEF Press
    <2>2. /\ held' \in Seq(Keys) /\ held' # <<>> /\ Last(held') = key
          /\ HeldKeys' = HeldKeys \cup {key}
        <3>1. /\ held' \in Seq(Keys) /\ Len(held') = Len(held) + 1
              /\ \A i \in 1..Len(held) : held'[i] = held[i]
              /\ held'[Len(held) + 1] = key
            BY <2>1
        <3>2. HeldKeys' \subseteq HeldKeys \cup {key} BY <3>1 DEF HeldKeys, ToSet
        <3>3. HeldKeys \cup {key} \subseteq HeldKeys' BY <3>1 DEF HeldKeys, ToSet
        <3> QED BY <3>1, <3>2, <3>3 DEF Last
    <2>a. again' = (again # (awake /\ s.toggle /\ key \in Both)) /\ again' \in BOOLEAN
        BY <1>1 DEF Press, Both
    <2>3. ASSUME lost' \cap Both = {} PROVE Followed'
        <3>1. Followed BY <2>1, <2>3
        <3>2. CASE awake
            <4>1. PICK limited \in BOOLEAN : s' = KeyEvent(s, key, TRUE, limited)
                BY <1>1, <3>2 DEF Press
            <4>2. key \in Both => key \notin s.bits BY <1>1, <3>1 DEF Press, Followed
            <4>3. again' = After(again, s, key, TRUE)
                BY <2>a, <3>1, <3>2, <4>2 DEF After, Followed, Follows, Logging
            <4>4. Follows(again', s') /\ s'.bits \cap Both = (s.bits \cup {key}) \cap Both
                BY <1>a, <3>1, <4>1, <4>3
            <4> QED BY <2>1, <2>2, <3>1, <3>2, <4>4 DEF Followed
        <3>3. CASE ~awake
            <4>1. s' = s /\ again' = again BY <1>1, <3>3 DEF Press
            <4> QED BY <2>1, <2>2, <3>1, <3>3, <4>1 DEF Followed
        <3> QED BY <3>2, <3>3
    <2> QED BY <2>1, <2>2, <2>a, <2>3
<1>2. ASSUME NEW key \in Keys, LetGo(key) PROVE LogInv'
    <2>1. PICK i \in DOMAIN held : held[i] = key /\ held' = RemoveAt(held, i)
        BY <1>2 DEF LetGo
    <2>2. held' \in Seq(Keys) /\ HeldKeys \ {key} \subseteq HeldKeys'
        BY <2>1, HeldAfterRemoval DEF HeldKeys
    <2>3. repeats' = FALSE /\ awake' = awake /\ lost' = lost /\ again' = again BY <1>2 DEF LetGo
    <2>4. ASSUME lost' \cap Both = {} PROVE Followed'
        <3>1. Followed BY <2>3, <2>4
        <3>2. CASE awake
            <4>1. s' = KeyEvent(s, key, FALSE, FALSE) BY <1>2, <3>2 DEF LetGo
            <4>2. Follows(again', s') /\ s'.bits \cap Both = (s.bits \ {key}) \cap Both
                BY <1>b, <2>3, <3>1, <4>1
            <4> QED BY <2>2, <2>3, <3>1, <3>2, <4>2 DEF Followed
        <3>3. CASE ~awake
            <4>1. s' = s BY <1>2, <3>3 DEF LetGo
            <4> QED BY <2>2, <2>3, <3>1, <3>3, <4>1 DEF Followed
        <3> QED BY <3>2, <3>3
    <2> QED BY <2>2, <2>3, <2>4
<1>3. CASE Repeat
    <2>1. /\ awake /\ lost \subseteq lost' /\ held # <<>>
          /\ held' = held /\ repeats' = repeats /\ awake' = awake /\ again' = again
        BY <1>3 DEF Repeat
    <2>2. Last(held) \in HeldKeys BY <2>1 DEF Last, HeldKeys, ToSet
    <2>3. PICK limited \in BOOLEAN : s' = KeyEvent(s, Last(held), TRUE, limited)
        BY <1>3 DEF Repeat
    <2>4. ASSUME lost' \cap Both = {} PROVE Followed'
        <3>1. Followed BY <2>1, <2>4
        <3>2. Follows(again', s') /\ s'.bits \cap Both = (s.bits \cup {Last(held)}) \cap Both
            <4>1. Last(held) \in Both => Last(held) \in s.bits BY <1>3, <3>1 DEF Followed, Repeat
            <4>2. After(again, s, Last(held), TRUE) = again BY <4>1 DEF After
            <4> QED BY <1>a, <2>1, <2>3, <3>1, <4>2
        <3> QED BY <2>1, <2>2, <3>1, <3>2 DEF Followed, HeldKeys
    <2> QED BY <2>1, <2>4
<1>4. CASE Sleep
    <2>1. lost' = lost \cup HeldKeys BY <1>4 DEF Sleep
    <2>2. ASSUME lost' \cap Both = {} PROVE s.bits \cap Both = {} /\ Followed
        <3>1. Followed BY <2>1, <2>2
        <3> QED BY <2>1, <2>2, <3>1 DEF Followed
    <2>3. /\ s' = s /\ held' = held /\ awake' = FALSE /\ repeats' = FALSE /\ again' = again
        BY <1>4 DEF Sleep
    <2> QED BY <2>2, <2>3 DEF Followed, HeldKeys
<1>5. CASE Wake
    <2>1. /\ ~awake /\ awake' = TRUE /\ s' = Woken(s) /\ again' = FALSE
          /\ held' = held /\ repeats' = repeats /\ lost' = lost
        BY <1>5 DEF Wake
    <2>2. ASSUME lost' \cap Both = {} PROVE Followed'
        <3>1. Followed /\ s.toggle = FALSE BY <2>1, <2>2 DEF Followed, Follows, Logging
        <3>2. Follows(again', s') /\ s'.bits = {}
            BY <2>1, <3>1 DEF Woken, Followed, Follows, Logging
        <3> QED BY <2>1, <3>1, <3>2 DEF Followed
    <2> QED BY <2>1, <2>2
<1>6. ASSUME Kept(s, s'), held' = held, repeats' = repeats, awake' = awake, lost' = lost, again' = again
      PROVE  LogInv'
    BY <1>6 DEF Followed, Follows, Kept, HeldKeys
<1>7. ASSUME s' = s, held' = held, repeats' = repeats, awake' = awake, lost' = lost, again' = again
      PROVE  LogInv'
    BY <1>7 DEF Followed, HeldKeys
<1>8. ASSUME Followed
      PROVE  /\ Kept(s, [s EXCEPT !.app = TRUE, !.gesture = TRUE, !.sys = @ \cup {Command}])
             /\ Kept(s, [ReleaseCmdKey(s) EXCEPT !.app = FALSE])
             /\ \A modifiers : Kept(s, Chord(s, modifiers))
    <2>1. Kept(s, s) BY <1>8, KeptAtFirst DEF Followed, Follows
    <2>2. Kept(s, ReleaseCmdKey(s)) BY <2>1 DEF Kept, Logging, ReleaseCmdKey
    <2>3. Kept(s, [ReleaseCmdKey(s) EXCEPT !.app = FALSE])
        BY <2>2 DEF Kept, Logging
    <2>4. Kept(s, [s EXCEPT !.app = TRUE, !.gesture = TRUE, !.sys = @ \cup {Command}])
        BY <2>1 DEF Kept, Logging
    <2> QED BY <2>1, <2>3, <2>4, EventsKeep
<1>9. CASE AppSwitch \/ EndAppSwitch \/ Gesture
    <2>1. held' = held /\ repeats' = repeats /\ awake' = awake /\ lost' = lost /\ again' = again
        BY <1>9 DEF AppSwitch, EndAppSwitch, Gesture
    <2>2. Followed => Kept(s, s')
        BY <1>8, <1>9 DEF AppSwitch, EndAppSwitch, Gesture
    <2> QED BY <1>6, <2>1, <2>2
<1>10. CASE UNCHANGED vars
    BY <1>7, <1>10 DEF vars
<1> QED BY <1>1, <1>2, <1>3, <1>4, <1>5, <1>9, <1>10 DEF Next

LEMMA FollowedSuffices == LogInv => LogFollowsMode
BY DEF LogInv, Followed, Follows, LogFollowsMode, Both

\* The touchpad's log, which the keyboard driver can only switch over and which
\* keeps the touchpad from ending touches, is on in the feature toggle mode and
\* off outside, and the other way round after every press of one of the mode's
\* keys in the mode, until the next such press: whatever else is pressed,
\* repeated and let go, on every keyboard, until one of the two keys is down at
\* a sleep.
THEOREM LogTurnsWithTheMode == Spec => []LogFollowsMode
<1>1. Spec => []LogInv
    BY FollowsAtFirst, FollowedStays, PTL DEF Spec
<1> QED BY <1>1, FollowedSuffices, PTL


---------------------------------------------------------------------------
(* What the touchpad is told of modifiers: TouchpadLetGo.  News of them are   *)
(* told in ModifierNews only, left shift in LeftShift only; the other methods *)
(* are calm: of what matters here they change nothing, but may end a hold.    *)

Three == {"ctrl", "alt", "win"}

\* What the lemmas need to know of a state's type, and that the touchpad takes
\* for down what the keyboard driver last told it.
Informed(t) ==
    /\ {"bits", "mods", "ctrl", "fast", "hold", "toggle", "dark"} \subseteq DOMAIN t
    /\ t.hold \in BOOLEAN /\ t.toggle \in BOOLEAN /\ t.dark \in BOOLEAN
    /\ t.ctrl = ("C" \in t.mods) /\ t.fast = ("CF" \in t.mods)

Calm(o, t) ==
    /\ Informed(t)
    /\ t.bits = o.bits /\ t.mods = o.mods /\ t.toggle = o.toggle /\ t.dark = o.dark
    /\ t.hold => o.hold

LEMMA CalmAtFirst ==
    ASSUME NEW t, Informed(t)
    PROVE  Calm(t, t)
BY DEF Calm

LEMMA NotificationsCalm ==
    ASSUME NEW o, NEW t, Calm(o, t)
    PROVE  /\ Calm(o, Escape(t)) /\ ~Escape(t).hold
           /\ Calm(o, EnableTouchpad(t)) /\ Calm(o, SwitchTouchpad(t)) /\ Calm(o, RestoreTouchpad(t))
<1>1. Calm(o, ReleaseCmdKey(t)) BY DEF Informed, Calm, ReleaseCmdKey
<1>2. ASSUME NEW u, Calm(o, u)
      PROVE  LET w == [u EXCEPT !.hold = FALSE, !.app = FALSE] IN Calm(o, w) /\ ~w.hold
    BY <1>2 DEF Informed, Calm
<1>3. Calm(o, Escape(t)) /\ ~Escape(t).hold
    <2> DEFINE u == IF t.app THEN ReleaseCmdKey(t) ELSE t
    <2>1. Calm(o, u) BY <1>1
    <2>2. Escape(t) = [u EXCEPT !.hold = FALSE, !.app = FALSE] BY DEF Escape
    <2> HIDE DEF u
    <2> QED BY <1>2, <2>1, <2>2
<1>4. Calm(o, EnableTouchpad(t)) BY DEF Informed, Calm, EnableTouchpad
<1>5. Calm(o, SwitchTouchpad(t)) BY DEF Informed, Calm, SwitchTouchpad
<1>6. Calm(o, RestoreTouchpad(t)) BY DEF Informed, Calm, RestoreTouchpad
<1> QED BY <1>3, <1>4, <1>5, <1>6

LEMMA EventsCalm ==
    ASSUME NEW o, NEW t, Calm(o, t)
    PROVE  /\ \A key, down : Calm(o, Dispatch(t, key, down))
           /\ \A modifiers : Calm(o, Chord(t, modifiers))
<1>1. ASSUME NEW sys PROVE Calm(o, [t EXCEPT !.sys = sys])
    BY DEF Informed, Calm
<1> QED BY <1>1 DEF Dispatch, Chord

LEMMA CombinationsCalm ==
    ASSUME NEW o, NEW t, NEW key, NEW down, Calm(o, t)
    PROVE  Calm(o, Combination(t, key, down))
<1>1. Calm(o, MapGermanTurkishKeyboardLayout(t, down))
    <2>1. CASE down
        <3> DEFINE up == IF CtrlDown(t) THEN Dispatch(t, Control, FALSE) ELSE t
        <3>1. Calm(o, up) BY EventsCalm
        <3> QED BY <2>1, <3>1, EventsCalm DEF MapGermanTurkishKeyboardLayout
    <2>2. CASE ~down
        BY <2>2, EventsCalm DEF MapGermanTurkishKeyboardLayout
    <2> QED BY <2>1, <2>2
<1> QED BY <1>1, EventsCalm, NotificationsCalm DEF Combination

LEMMA ExtendedFunctionsCalm ==
    ASSUME NEW o, NEW t, NEW code, NEW down, Calm(o, t)
    PROVE  Calm(o, ProcessExtendedFunctions(t, code, down))
BY EventsCalm DEF ProcessExtendedFunctions

LEMMA ReleasesCalm ==
    ASSUME NEW o, NEW t, NEW code, Calm(o, t)
    PROVE  Calm(o, Release(t, code))
<1> DEFINE u == IF CmdDown(t) THEN Chord(t, {Command}) ELSE t
           v == Escape(u)
<1>1. Calm(o, v) BY EventsCalm, NotificationsCalm
<1>2. Calm(o, [v EXCEPT !.gesture = FALSE])
    <2> HIDE DEF v
    <2> QED BY <1>1 DEF Calm, Informed
<1> QED BY <1>2 DEF Release

LEMMA NormalKeysCalm ==
    ASSUME NEW o, NEW t, NEW code, NEW ext, NEW down, Calm(o, t)
    PROVE  Calm(o, NormalKey(t, code, ext, down))
BY EventsCalm, NotificationsCalm DEF NormalKey

---------------------------------------------------------------------------
(* The methods that are not calm. *)

\* The display's sleep and the feature toggle mode begin with a key that goes
\* down; the mode's begin ends a hold.
Stirred(o, t, down) ==
    /\ Informed(t)
    /\ t.bits = o.bits /\ t.mods = o.mods
    /\ t.hold => o.hold
    /\ t.toggle => o.toggle
    /\ ~down => (t.dark => o.dark)

LEMMA CalmStirs ==
    ASSUME NEW o, NEW t, NEW down, Calm(o, t)
    PROVE  Stirred(o, t, down)
BY DEF Calm, Stirred

LEMMA FnKeysStir ==
    ASSUME NEW t, NEW code, NEW down, NEW limited, Informed(t)
    PROVE  Stirred(t, ProcessFnKeys(t, code, down, limited), down)
<1>0. Calm(t, t) BY CalmAtFirst
<1>1. down => Stirred(t, DisplaySleep(t), down)
    <2> DEFINE u == SwitchTouchpad(Chord(t, {Control, Shift}))
    <2>1. Calm(t, u) BY <1>0, EventsCalm, NotificationsCalm
    <2>2. DisplaySleep(t) = [u EXCEPT !.dark = ~@] BY DEF DisplaySleep
    <2> HIDE DEF u
    <2> QED BY <2>1, <2>2 DEF Calm, Stirred, Informed
<1>2. /\ Stirred(t, t, down)
      /\ Stirred(t, SwitchTouchpad(t), down)
      /\ Stirred(t, Chord(t, {Shift, Option}), down)
      /\ Stirred(t, Dispatch(t, <<"f8", TRUE>>, down), down)
    BY <1>0, EventsCalm, NotificationsCalm, CalmStirs
<1> QED BY <1>1, <1>2 DEF ProcessFnKeys

LEMMA FeatureTogglesStir ==
    ASSUME NEW t, NEW code, NEW ext, NEW down, NEW limited, Informed(t), t.toggle
    PROVE  Stirred(t, FeatureToggle(t, code, ext, down, limited), down)
<1>0. Calm(t, t) BY CalmAtFirst
<1>1. Stirred(t, ToggleTouchpadFeatures(t, code, down), down)
    BY <1>0, NotificationsCalm, CalmStirs DEF ToggleTouchpadFeatures
<1>2. Stirred(t, ShowTouchPressureWidth([t EXCEPT !.toggle = FALSE]), down)
    BY DEF Stirred, Informed, ShowTouchPressureWidth
<1>3. Stirred(t, Dispatch(t, <<code, ext>>, down), down) /\ Stirred(t, t, down)
    BY <1>0, EventsCalm, CalmStirs
<1> QED BY <1>1, <1>2, <1>3, FnKeysStir DEF FeatureToggle

\* A key of the mode begins it; left shift alone begins and ends a hold.
Started(t, u) == u.toggle = t.toggle \/ (u.toggle /\ ~u.hold)

Faced(t, u, code, down) ==
    /\ Informed(u)
    /\ u.bits = t.bits /\ u.mods = t.mods /\ u.dark = t.dark
    /\ Started(t, u)
    /\ ~down \/ code \notin {"lshift", "caps"} => u.toggle = t.toggle
    /\ u.hold => t.hold \/ (down /\ code = "lshift" /\ "caps" \notin t.bits)
    /\ code = "lshift" /\ ~down /\ ~t.toggle => ~u.hold

LEMMA StartFaced ==
    ASSUME NEW t, Informed(t)
    PROVE  LET u == StartFeatureToggle(t)
           IN  Informed(u) /\ u.bits = t.bits /\ u.mods = t.mods /\ u.dark = t.dark /\ u.toggle /\ ~u.hold
<1> DEFINE on == [t EXCEPT !.toggle = TRUE]
           u  == ShowTouchPressureWidth(on)
           v  == [u EXCEPT !.gesture = FALSE]
<1>1. Informed(on) /\ on.bits = t.bits /\ on.mods = t.mods /\ on.dark = t.dark /\ on.toggle
    BY DEF Informed
<1>2. Calm(on, u)
    <2> HIDE DEF on
    <2> QED BY <1>1 DEF ShowTouchPressureWidth, Informed, Calm
<1>3. Calm(on, v)
    <2> HIDE DEF on, u
    <2> QED BY <1>2 DEF Calm, Informed
<1>4. Calm(on, Escape(Dispatch(v, Shift, FALSE))) /\ ~Escape(Dispatch(v, Shift, FALSE)).hold
    <2> HIDE DEF on, u, v
    <2> QED BY <1>3, EventsCalm, NotificationsCalm
<1>5. StartFeatureToggle(t) = Escape(Dispatch(v, Shift, FALSE)) BY DEF StartFeatureToggle
<1> HIDE DEF on, u, v
<1> QED BY <1>1, <1>4, <1>5 DEF Calm

LEMMA SpecialKeysFaced ==
    ASSUME NEW t, NEW code, NEW ext, NEW down, Informed(t)
    PROVE  Faced(t, SpecialKey(t, code, ext, down), code, down)
<1>0. Calm(t, t) BY CalmAtFirst
<1>1. ASSUME NEW u, Calm(t, u), code # "lshift"
      PROVE  Faced(t, u, code, down)
    BY <1>1 DEF Calm, Faced, Started
<1>2. ASSUME NEW u, Faced(t, u, code, down)
      PROVE  Faced(t, Exception(u), code, down)
    BY <1>2 DEF Faced, Started, Informed, Exception
<1>3. code \in {"lshift", "caps"} /\ down => Faced(t, StartFeatureToggle(t), code, down)
    BY StartFaced DEF Faced, Started
<1>4. /\ Calm(t, [t EXCEPT !.numlock = ~@])
      /\ Calm(t, [t EXCEPT !.fn = down])
      /\ Calm(t, [t EXCEPT !.numpad = ~ext])
      /\ Calm(t, [t EXCEPT !.numpad = FALSE, !.exception = FALSE])
      /\ Calm(t, Release(t, code))
    BY <1>0, ReleasesCalm DEF Calm, Informed
<1>5. code = "lshift" => Faced(t, LeftShift(t, down), code, down)
    <2>1. CASE down /\ "caps" \in t.bits BY <1>3, <2>1 DEF LeftShift
    <2>2. CASE down /\ "caps" \notin t.bits
        <3>1. LeftShift(t, down) = ShiftKey([t EXCEPT !.gesture = TRUE]) BY <2>2 DEF LeftShift
        <3> QED BY <2>2, <3>1 DEF ShiftKey, Faced, Started, Informed
    <2>3. CASE ~down
        <3>1. Calm(t, Escape(t)) /\ ~Escape(t).hold BY <1>0, NotificationsCalm
        <3> QED BY <1>0, <2>3, <3>1 DEF LeftShift, Faced, Started, Calm
    <2> QED BY <2>1, <2>2, <2>3
<1>6. code # "lshift" => Faced(t, t, code, down) BY <1>0, <1>1
<1>7. code # "lshift" =>
          /\ Faced(t, [t EXCEPT !.numlock = ~@], code, down)
          /\ Faced(t, [t EXCEPT !.fn = down], code, down)
          /\ Faced(t, [t EXCEPT !.numpad = ~ext], code, down)
          /\ Faced(t, [t EXCEPT !.numpad = FALSE, !.exception = FALSE], code, down)
          /\ Faced(t, Release(t, code), code, down)
    BY <1>1, <1>4
<1>8. code = "lshift" => Faced(t, Exception(LeftShift(t, down)), code, down)
    <2> DEFINE u == LeftShift(t, down)
    <2> HIDE DEF u
    <2> QED BY <1>2, <1>5 DEF u
<1>9. code = "caps" =>
          Faced(t, Exception(IF "lshift" \in t.bits /\ down THEN StartFeatureToggle(t) ELSE t), code, down)
    <2> DEFINE u == IF "lshift" \in t.bits /\ down THEN StartFeatureToggle(t) ELSE t
    <2>1. code = "caps" => Faced(t, u, code, down) BY <1>3, <1>6
    <2>2. Faced(t, u, code, down) => Faced(t, Exception(u), code, down)
        <3> HIDE DEF u
        <3> QED BY <1>2
    <2> QED BY <2>1, <2>2
<1> DEFINE Good(u) == Faced(t, u, code, down)
<1>10. /\ code = "numlock" => Good(IF ~kb.clear /\ down THEN [t EXCEPT !.numlock = ~@] ELSE t)
       /\ code \in {"esc", "space"} => Good(Exception(Release(t, code)))
       /\ code = "menu" => Good(IF kb.menu = "fn" /\ kb.mode > 1 THEN [t EXCEPT !.fn = down] ELSE t)
       /\ code \in {"ctrl", "win", "rwin", "alt", "rshift", "tab"} => Good(Exception(t))
       /\ code = "num7" => Good(Exception([t EXCEPT !.numpad = ~ext]))
       /\ code = "break" => Good(t)
       /\ code # "lshift" =>
              Good(IF CmdDown(t) THEN Exception(t) ELSE [t EXCEPT !.numpad = FALSE, !.exception = FALSE])
    BY <1>2, <1>6, <1>7
<1>11. /\ code = "lshift" => Good(Exception(LeftShift(t, down)))
       /\ code = "caps" => Good(Exception(IF "lshift" \in t.bits /\ down THEN StartFeatureToggle(t) ELSE t))
    BY <1>8, <1>9
<1> HIDE DEF Good
<1>12. Good(SpecialKey(t, code, ext, down)) BY <1>10, <1>11, Zenon DEF SpecialKey
<1> QED BY <1>12 DEF Good
---------------------------------------------------------------------------
(* News of modifiers. *)

All(bits) == Three \subseteq bits

\* The modifiers the touchpad believes down after one piece of news of bits.
NewMods(mods, bits) ==
    IF "CF" \notin mods /\ All(bits)   THEN mods \cup {"CF"}
    ELSE IF "CF" \in mods /\ ~All(bits) THEN mods \ {"CF"}
    ELSE IF "AF" \notin mods /\ "win" \in bits /\ "alt" \in bits THEN mods \cup {"AF"}
    ELSE IF "CMD" \notin mods /\ "win" \in bits  THEN mods \cup {"CMD"}
    ELSE IF "CMD" \in mods /\ "win" \notin bits  THEN mods \ {"CMD"}
    ELSE IF "C" \notin mods /\ "ctrl" \in bits   THEN mods \cup {"C"}
    ELSE IF "C" \in mods /\ "ctrl" \notin bits   THEN mods \ {"C"}
    ELSE mods

LEMMA NewsTold ==
    ASSUME NEW t, Informed(t)
    PROVE  LET u == ModifierNews(t)
           IN  /\ Informed(u)
               /\ u.bits = t.bits /\ u.toggle = t.toggle /\ u.dark = t.dark /\ u.hold = t.hold
               /\ u.mods = NewMods(t.mods, t.bits)
<1> DEFINE Good(u, mods) ==
        /\ Informed(u)
        /\ u.bits = t.bits /\ u.toggle = t.toggle /\ u.dark = t.dark /\ u.hold = t.hold
        /\ u.mods = mods
<1>1. ASSUME NEW mods PROVE Good(Tell(t, mods, "C" \in mods, "CF" \in mods), mods)
    BY DEF Tell, Informed
<1>2. All(t.bits) <=> CmdDown(t) /\ CtrlDown(t) /\ AltDown(t)
    BY DEF All, Three, CmdDown, CtrlDown, AltDown
<1>3. t.ctrl = ("C" \in t.mods) /\ t.fast = ("CF" \in t.mods) BY DEF Informed
<1>4. Good(t, t.mods) BY DEF Informed
<1>4a. ASSUME NEW mods, NEW ctrl, NEW fast, ctrl = ("C" \in mods), fast = ("CF" \in mods)
      PROVE  Good(Tell(t, mods, ctrl, fast), mods)
    BY <1>1, <1>4a
<1>5. /\ Good(Tell(t, t.mods \cup {"CF"}, t.ctrl, TRUE), t.mods \cup {"CF"})
      /\ Good(Tell(t, t.mods \ {"CF"}, t.ctrl, FALSE), t.mods \ {"CF"})
    <2> HIDE DEF Good
    <2>1. t.ctrl = ("C" \in t.mods \cup {"CF"}) /\ t.ctrl = ("C" \in t.mods \ {"CF"}) BY <1>3
    <2>2. TRUE = ("CF" \in t.mods \cup {"CF"}) /\ FALSE = ("CF" \in t.mods \ {"CF"}) OBVIOUS
    <2> QED BY <1>4a, <2>1, <2>2
<1>7. \A m \in {"AF", "CMD"} :
          /\ Good(Tell(t, t.mods \cup {m}, t.ctrl, t.fast), t.mods \cup {m})
          /\ Good(Tell(t, t.mods \ {m}, t.ctrl, t.fast), t.mods \ {m})
    <2> HIDE DEF Good
    <2> QED BY <1>3, <1>4a
<1>8. /\ Good(Tell(t, t.mods \cup {"C"}, TRUE, t.fast), t.mods \cup {"C"})
      /\ Good(Tell(t, t.mods \ {"C"}, FALSE, t.fast), t.mods \ {"C"})
    <2> HIDE DEF Good
    <2>1. t.fast = ("CF" \in t.mods \cup {"C"}) /\ t.fast = ("CF" \in t.mods \ {"C"}) BY <1>3
    <2>2. TRUE = ("C" \in t.mods \cup {"C"}) /\ FALSE = ("C" \in t.mods \ {"C"}) OBVIOUS
    <2> QED BY <1>4a, <2>1, <2>2
<1> HIDE DEF Good
<1>9. Good(ModifierNews(t), NewMods(t.mods, t.bits))
    BY <1>2, <1>4, <1>5, <1>7, <1>8 DEF ModifierNews, NewMods, CmdDown, CtrlDown, AltDown
<1> QED BY <1>9 DEF Good

\* No news, or one piece of it, which is told outside of the mode only.
Heard(t, u) ==
    \/ u.mods = t.mods
    \/ u.mods = NewMods(t.mods, u.bits) /\ ~u.toggle /\ ~u.dark

LEMMA DispatchedKeysHeard ==
    ASSUME NEW t, NEW code, NEW ext, NEW down, NEW limited, Informed(t)
    PROVE  LET u == DispatchKey(t, code, ext, down, limited)
           IN  /\ Informed(u)
               /\ u.bits = t.bits
               /\ u.hold => t.hold
               /\ u.toggle => t.toggle
               /\ ~down => (u.dark => t.dark)
               /\ Heard(t, u)
               /\ code \in Three /\ ~t.toggle /\ ~t.dark => u.mods = NewMods(t.mods, t.bits)
<1> DEFINE Good(u) ==
        /\ Informed(u)
        /\ u.bits = t.bits
        /\ u.hold => t.hold
        /\ u.toggle => t.toggle
        /\ ~down => (u.dark => t.dark)
        /\ Heard(t, u)
        /\ code \in Three /\ ~t.toggle /\ ~t.dark => u.mods = NewMods(t.mods, t.bits)
<1>0. Calm(t, t) BY CalmAtFirst
<1>1. ASSUME NEW u, Stirred(t, u, down), code \notin Three \/ t.toggle \/ t.dark PROVE Good(u)
    BY <1>1 DEF Stirred, Heard
<1>2. Stirred(t, t, down) BY <1>0, CalmStirs
<1>3. CASE t.toggle
    <2>1. Good(FeatureToggle(t, code, ext, down, limited))
        BY <1>1, <1>3, FeatureTogglesStir
    <2> QED BY <1>3, <2>1 DEF DispatchKey
<1>4. CASE ~t.toggle /\ (code = NoCode \/ (FnKeyComb(t, code) /\ (t.fn \/ kb.mode = 1)))
    <2>1. code \notin Three BY <1>4 DEF NoCode, FnKeyComb, FunctionKeys, Three
    <2>2. Good(t) /\ Good(ProcessFnKeys(t, code, down, limited))
        BY <1>1, <1>2, <2>1, FnKeysStir
    <2> HIDE DEF Good
    <2>3. Good(DispatchKey(t, code, ext, down, limited)) BY <1>4, <2>2 DEF DispatchKey
    <2> QED BY <2>3 DEF Good
<1>5. CASE ~t.toggle /\ code # NoCode /\ ~(FnKeyComb(t, code) /\ (t.fn \/ kb.mode = 1)) /\ t.dark
    <2>1. DispatchKey(t, code, ext, down, limited) = t BY <1>5 DEF DispatchKey
    <2> QED BY <1>1, <1>2, <1>5, <2>1
<1>6. CASE ~t.toggle /\ code # NoCode /\ ~(FnKeyComb(t, code) /\ (t.fn \/ kb.mode = 1)) /\ ~t.dark
    <2> DEFINE news == ModifierNews(t)
    <2>1. Good(news)
        BY <1>6, NewsTold DEF Heard
    <2>2. ASSUME NEW key PROVE Good(Dispatch(news, key, down))
        <3>1. Calm(news, Dispatch(news, key, down))
            <4> HIDE DEF news
            <4> QED BY <2>1, CalmAtFirst, EventsCalm
        <3> HIDE DEF news
        <3> QED BY <2>1, <3>1 DEF Calm, Heard
    <2>3. code \notin Three => Good(NormalKey(t, code, ext, down)) /\ Good(t)
        BY <1>0, <1>1, NormalKeysCalm, CalmStirs
    <2>4. ModifierKey(t, code, ext, down) = IF code = "menu" THEN news ELSE Dispatch(news, <<code, ext>>, down)
        BY DEF ModifierKey
    <2> HIDE DEF Good, news
    <2>5. Good(ModifierKey(t, code, ext, down)) BY <2>1, <2>2, <2>4
    <2>6. code \in Three => code \in Modifiers BY DEF Three, Modifiers
    <2>7. Good(DispatchKey(t, code, ext, down, limited))
        BY <1>6, <2>3, <2>5, <2>6 DEF DispatchKey
    <2> QED BY <2>7 DEF Good
<1> QED BY <1>3, <1>4, <1>5, <1>6

\* What a key event past the swallowed ones makes of what matters here; t has
\* the key's new bit already.
LEMMA KeysHeard ==
    ASSUME NEW t, NEW code, NEW ext, NEW down, NEW limited, Informed(t)
    PROVE  LET u == HandleKey(t, code, ext, down, limited)
           IN  /\ Informed(u)
               /\ u.bits = t.bits
               /\ u.hold => t.hold \/ (down /\ code = "lshift" /\ "caps" \notin t.bits)
               /\ code = "lshift" /\ ~down /\ ~t.toggle => ~u.hold
               /\ u.toggle => t.toggle \/ ~u.hold
               /\ ~down => (u.toggle => t.toggle) /\ (u.dark => t.dark)
               /\ Heard(t, u)
               /\ code \in Three /\ ~t.toggle /\ ~t.dark => u.mods = NewMods(t.mods, t.bits)
<1>1. CASE ExtendedFunction(t, code)
    <2>1. code \notin Three /\ code # "lshift" BY <1>1 DEF ExtendedFunction, Fx, Three
    <2>2. Calm(t, ProcessExtendedFunctions(t, code, down))
        BY CalmAtFirst, ExtendedFunctionsCalm
    <2> QED BY <1>1, <2>1, <2>2 DEF HandleKey, Calm, Heard
<1>2. CASE ~ExtendedFunction(t, code)
    <2> DEFINE w == SpecialKey(t, code, ext, down)
               c == SpecialCode(code)
               u == DispatchKey(w, c, ext, down, limited)
    <2>1. Faced(t, w, code, down) BY SpecialKeysFaced
    <2>2. HandleKey(t, code, ext, down, limited) = u BY <1>2 DEF HandleKey
    <2>3. code \in Three => c = code BY DEF SpecialCode, Three
    <2> HIDE DEF w, c
    <2>4. Informed(w) BY <2>1 DEF Faced
    <2>5. /\ Informed(u) /\ u.bits = w.bits
          /\ u.hold => w.hold
          /\ u.toggle => w.toggle
          /\ ~down => (u.dark => w.dark)
          /\ Heard(w, u)
          /\ c \in Three /\ ~w.toggle /\ ~w.dark => u.mods = NewMods(w.mods, w.bits)
        BY <2>4, DispatchedKeysHeard
    <2> HIDE DEF u
    <2>6. code \in Three => code \notin {"lshift", "caps"} BY DEF Three
    <2> QED BY <2>1, <2>2, <2>3, <2>5, <2>6 DEF Faced, Started, Heard
<1> QED BY <1>1, <1>2

---------------------------------------------------------------------------
(* Key events. *)

\* A key's code on a keyboard.
CodeOn(board, key) ==
    IF board.mac /\ key \in DOMAIN MacSwap THEN MacSwap[key][1]
    ELSE IF key \in DOMAIN Twin THEN Twin[key]
    ELSE key

Swallowable == {"q", "f4", "tab", "p", "volume", "touch", "print", "del"}

LEMMA CodesOfKeys ==
    ASSUME NEW key
    PROVE  /\ \A t : KeyCode(t, key)[1] = CodeOn(kb, key)
           /\ key \in {"lshift", "caps"} => CodeOn(kb, key) = key
           /\ key # "lshift" => CodeOn(kb, key) # "lshift"
           /\ key \in Swallowable => CodeOn(kb, key) = key
<1>1. /\ DOMAIN MacSwap = {"alt", "ralt", "win", "rwin"}
      /\ MacSwap["alt"] = <<"win", TRUE>> /\ MacSwap["ralt"] = <<"rwin", TRUE>>
      /\ MacSwap["win"] = <<"alt", FALSE>> /\ MacSwap["rwin"] = <<"alt", TRUE>>
    BY DEF MacSwap
<1>2. /\ DOMAIN Twin = {"ralt", "rctrl", "home"}
      /\ Twin["ralt"] = "alt" /\ Twin["rctrl"] = "ctrl" /\ Twin["home"] = "num7"
    BY DEF Twin
<1>3. \A t : KeyCode(t, key)[1] = CodeOn(kb, key) BY <1>1, <1>2 DEF KeyCode, CodeOn
<1>4. key \in {"lshift", "caps"} \cup Swallowable => CodeOn(kb, key) = key
    BY <1>1, <1>2 DEF CodeOn, Swallowable
<1>5. key # "lshift" => CodeOn(kb, key) # "lshift" BY <1>1, <1>2 DEF CodeOn
<1> QED BY <1>3, <1>4, <1>5

\* What a key event makes of what matters here.
Effect(t, u, key, down) ==
    LET code == CodeOn(kb, key)
    IN  /\ Informed(u)
        /\ u.bits = IF Swallowed(t, key, down) THEN t.bits
                    ELSE IF down THEN t.bits \cup {code} ELSE t.bits \ {code}
        /\ u.hold => t.hold \/ (down /\ key = "lshift" /\ t.bits \cap Both = {})
        /\ key = "lshift" /\ ~down /\ ~t.toggle => ~u.hold
        /\ u.toggle => t.toggle \/ ~u.hold
        /\ ~down => (u.toggle => t.toggle) /\ (u.dark => t.dark)
        /\ Heard(t, u)
        /\ code \in Three /\ ~t.toggle /\ ~t.dark /\ ~(down /\ code \in t.bits) =>
               u.mods = NewMods(t.mods, u.bits)

LEMMA KeyEventsHeard ==
    ASSUME NEW t, NEW key, NEW down, NEW limited, Informed(t)
    PROVE  Effect(t, KeyEvent(t, key, down, limited), key, down)
<1> DEFINE code == CodeOn(kb, key)
           u    == IF down /\ key = "break" THEN Dispatch(t, Control, FALSE) ELSE t
           v    == [u EXCEPT !.bits = IF down THEN @ \cup {code} ELSE @ \ {code}]
           w    == HandleKey(v, code, KeyCode(t, key)[2], down, limited)
<1>1. /\ KeyCode(t, key)[1] = code
      /\ key \in {"lshift", "caps"} => code = key
      /\ key # "lshift" => code # "lshift"
      /\ key \in Swallowable => code = key
    BY CodesOfKeys
<1>2. Calm(t, u) BY CalmAtFirst, EventsCalm
<1>3. Calm(t, Combination(t, key, down)) BY CalmAtFirst, CombinationsCalm
<1>4. KeyEvent(t, key, down, limited) =
          IF Swallowed(t, key, down) THEN Combination(t, key, down)
          ELSE IF down /\ code \in t.bits /\ ~MayRepeat(t, code) THEN u
          ELSE w
    BY <1>1 DEF KeyEvent
<1>5. Swallowed(t, key, down) => key \in Swallowable BY DEF Swallowed, Swallowable
<1>6. Swallowable \cap (Three \cup {"lshift"}) = {} BY DEF Swallowable, Three
<1>7. /\ Informed(v)
      /\ v.bits = IF down THEN t.bits \cup {code} ELSE t.bits \ {code}
      /\ v.mods = t.mods /\ v.toggle = t.toggle /\ v.dark = t.dark /\ (v.hold => t.hold)
    <2> HIDE DEF u, code
    <2> QED BY <1>2 DEF Calm, Informed
<1>8. MayRepeat(t, code) => code \notin Three /\ code # "lshift" BY DEF MayRepeat, Three
<1> HIDE DEF code, u
<1>9. CASE Swallowed(t, key, down)
    BY <1>1, <1>3, <1>4, <1>5, <1>6, <1>9 DEF Calm, Heard, Effect, code
<1>10. CASE ~Swallowed(t, key, down) /\ down /\ code \in t.bits /\ ~MayRepeat(t, code)
    BY <1>1, <1>2, <1>4, <1>10 DEF Calm, Heard, Effect, code
<1>11. CASE ~Swallowed(t, key, down) /\ ~(down /\ code \in t.bits /\ ~MayRepeat(t, code))
    <2> HIDE DEF v
    <2>1. /\ Informed(w)
          /\ w.bits = v.bits
          /\ w.hold => v.hold \/ (down /\ code = "lshift" /\ "caps" \notin v.bits)
          /\ code = "lshift" /\ ~down /\ ~v.toggle => ~w.hold
          /\ w.toggle => v.toggle \/ ~w.hold
          /\ ~down => (w.toggle => v.toggle) /\ (w.dark => v.dark)
          /\ Heard(v, w)
          /\ code \in Three /\ ~v.toggle /\ ~v.dark => w.mods = NewMods(v.mods, v.bits)
        BY <1>7, KeysHeard
    <2>2. KeyEvent(t, key, down, limited) = w BY <1>4, <1>11
    <2> HIDE DEF w
    <2>3. down /\ code = "lshift" /\ "caps" \notin v.bits => t.bits \cap Both = {}
        BY <1>7, <1>8, <1>11 DEF Both
    <2> QED BY <1>1, <1>7, <1>11, <2>1, <2>2, <2>3 DEF Heard, Effect, code
<1> QED BY <1>9, <1>10, <1>11

---------------------------------------------------------------------------
(* The system and what the touchpad believes. *)

Watched == Three \cup {"lshift"}

Holds(code) == \E key \in HeldKeys : CodeOn(kb, key) = code
Lost(code)  == \E key \in lost : CodeOn(kb, key) = code

\* Control, alt and command are not all three on the keyboard.
FewModifiers == ~\A code \in Three : \E key \in kb.keys : CodeOn(kb, key) = code

\* News are told, in their time.
Heeded == awake /\ ~s.toggle /\ ~s.dark

BitsHeld == awake => \A code \in s.bits \cap Watched : Holds(code)

\* The end of the alternate function goes before all other news.
SpeedKnown == "CF" \in s.mods => (\E code \in Three : Lost(code)) \/ (Heeded /\ All(s.bits))

HoldKnown ==
    lost \cap Both # {} \/
        /\ s.hold => awake /\ "lshift" \in s.bits /\ ~s.toggle
        /\ repeats /\ Last(held) = "lshift" => "lshift" \in s.bits

\* News of control are the last in line: they are told once those of command
\* have been, and from then on nothing is left that could go before them.
ControlKnown ==
    FewModifiers =>
        /\ "CF" \notin s.mods
        /\ "C" \in s.mods =>
               Lost("ctrl") \/ (Heeded /\ "ctrl" \in s.bits /\ ("CMD" \in s.mods <=> "win" \in s.bits))

BelievedInv ==
    /\ LogInv
    /\ Informed(s)
    /\ held \in Seq(kb.keys) /\ awake \in BOOLEAN /\ repeats \in BOOLEAN
    /\ repeats => awake /\ held # <<>>
    /\ BitsHeld /\ SpeedKnown /\ HoldKnown /\ ControlKnown

LEMMA BelievedAtFirst == Init => BelievedInv
<1> SUFFICES ASSUME Init PROVE BelievedInv
    OBVIOUS
<1>1. /\ s.bits = {} /\ s.mods = {} /\ s.hold = FALSE /\ s.toggle = FALSE /\ s.dark = FALSE
      /\ s.ctrl = FALSE /\ s.fast = FALSE
      /\ {"bits", "mods", "ctrl", "fast", "hold", "toggle", "dark"} \subseteq DOMAIN s
    BY DEF Init, InitState
<1>1a. ("C" \in s.mods) = FALSE /\ ("CF" \in s.mods) = FALSE BY <1>1
<1>1b. Informed(s) BY <1>1, <1>1a DEF Informed
<1>2. held \in Seq(kb.keys) /\ awake /\ repeats = FALSE BY DEF Init
<1> QED BY <1>1, <1>1b, <1>2, FollowsAtFirst DEF BelievedInv, BitsHeld, SpeedKnown, HoldKnown, ControlKnown, Init

\* One key event; what Press, Repeat and LetGo have in common.
KeyStep(key, down, limited) ==
    /\ awake /\ kb' = kb /\ awake' = awake
    /\ s' = KeyEvent(s, key, down, limited)
    /\ lost \subseteq lost'
    /\ down /\ ((s'.dark /\ ~s.dark) \/ (s'.toggle /\ ~s.toggle)) => HeldKeys \ {"lshift", "caps"} \subseteq lost'
    /\ down /\ s'.numlock # s.numlock => HeldKeys \cap {"num7"} \subseteq lost'
    /\ held' \in Seq(kb.keys)
    /\ IF down THEN HeldKeys \cup {key} \subseteq HeldKeys' ELSE HeldKeys \ {key} \subseteq HeldKeys'
    /\ repeats' \in BOOLEAN
    /\ repeats' => down /\ held' # <<>> /\ Last(held') = key

LEMMA BelievedAfterKey ==
    ASSUME BelievedInv, LogInv', NEW key, NEW down, NEW limited, KeyStep(key, down, limited)
    PROVE  BelievedInv'
<1> DEFINE code == CodeOn(kb, key)
           swallowed == Swallowed(s, key, down)
<1>0. Effect(s, s', key, down) BY KeyEventsHeard DEF BelievedInv, KeyStep
<1>1. /\ Informed(s')
      /\ s'.bits = IF swallowed THEN s.bits ELSE IF down THEN s.bits \cup {code} ELSE s.bits \ {code}
      /\ s'.hold => s.hold \/ (down /\ key = "lshift" /\ s.bits \cap Both = {})
      /\ key = "lshift" /\ ~down /\ ~s.toggle => ~s'.hold
      /\ s'.toggle => s.toggle \/ ~s'.hold
      /\ ~down => (s'.toggle => s.toggle) /\ (s'.dark => s.dark)
      /\ Heard(s, s')
      /\ code \in Three /\ ~s.toggle /\ ~s.dark /\ ~(down /\ code \in s.bits) =>
             s'.mods = NewMods(s.mods, s'.bits)
    BY <1>0 DEF Effect
<1> USE DEF BelievedInv, KeyStep
<1>2. /\ code = "lshift" <=> key = "lshift"
      /\ swallowed => code \notin Watched
    <2>1. swallowed => key \in Swallowable BY DEF Swallowed, Swallowable
    <2>2. Swallowable \cap Watched = {} BY DEF Swallowable, Watched, Three
    <2> QED BY <2>1, <2>2, CodesOfKeys
<1>3. ASSUME NEW c, Lost(c) PROVE Lost(c)'
    BY <1>3 DEF Lost
<1> HIDE DEF swallowed, code
<1>4. s'.bits \cap Watched = IF down THEN (s.bits \cup {code}) \cap Watched ELSE (s.bits \ {code}) \cap Watched
    BY <1>1, <1>2
<1>5. ASSUME NEW c \in Watched, c \in s.bits \/ (down /\ c = code)
      PROVE  c \in s.bits => Holds(c)
    BY DEF BitsHeld
<1>6. BitsHeld'
    <2> SUFFICES ASSUME NEW c \in Watched, c \in s'.bits PROVE \E k \in HeldKeys' : CodeOn(kb', k) = c
        BY DEF BitsHeld, Holds
    <2>1. CASE down /\ c = code BY <2>1 DEF code
    <2>2. CASE ~(down /\ c = code)
        <3>1. c \in s.bits /\ (~down => c # code) BY <1>4, <2>2
        <3>2. PICK k \in HeldKeys : CodeOn(kb, k) = c BY <3>1 DEF BitsHeld, Holds
        <3>3. k \in HeldKeys' BY <3>1, <3>2 DEF code
        <3> QED BY <3>2, <3>3
    <2> QED BY <2>1, <2>2
\* What is down when a mode begins in which no news are told is lost.
<1>7. ASSUME NEW c \in Three, c \in s.bits, Heeded, ~Heeded' PROVE Lost(c)'
    <2>1. PICK k \in HeldKeys : CodeOn(kb, k) = c BY <1>7 DEF BitsHeld, Holds, Watched
    <2>2. k \notin {"lshift", "caps"} BY <2>1, CodesOfKeys DEF Three
    <2>3. k \in lost' BY <1>1, <1>7, <2>2 DEF Heeded
    <2> QED BY <2>1, <2>3 DEF Lost
<1>8. ASSUME Heeded, ~(down /\ code \in s.bits), code \in Three
      PROVE  s'.mods = NewMods(s.mods, s'.bits)
    BY <1>1, <1>8 DEF Heeded
<1>9. SpeedKnown'
    <2> SUFFICES ASSUME "CF" \in s'.mods, ~\E c \in Three : Lost(c)'
                 PROVE  Heeded' /\ All(s'.bits)
        BY DEF SpeedKnown
    <2>1. CASE s'.mods = NewMods(s.mods, s'.bits) /\ ~s'.toggle /\ ~s'.dark
        BY <2>1 DEF NewMods, Heeded
    <2>2. CASE s'.mods = s.mods /\ ~(s'.mods = NewMods(s.mods, s'.bits) /\ ~s'.toggle /\ ~s'.dark)
        <3>1. Heeded /\ All(s.bits) BY <1>3, <2>2 DEF SpeedKnown
        <3>2. Heeded' BY <1>7, <3>1 DEF All, Three
        <3>3. ~(code \in Three /\ ~down) BY <1>8, <2>2, <3>1, <3>2 DEF Heeded
        <3>4. All(s'.bits) BY <1>4, <3>1, <3>3 DEF All, Watched
        <3> QED BY <3>2, <3>4
    <2> QED BY <1>1, <2>1, <2>2 DEF Heard
<1>10. HoldKnown'
    <2> SUFFICES ASSUME lost' \cap Both = {}
                 PROVE  /\ s'.hold => "lshift" \in s'.bits /\ ~s'.toggle
                        /\ repeats' /\ Last(held') = "lshift" => "lshift" \in s'.bits
        BY DEF HoldKnown
    <2>1. lost \cap Both = {} /\ (s.hold => "lshift" \in s.bits /\ ~s.toggle) BY DEF HoldKnown
    <2>a. s.toggle => s.bits \cap Both # {} BY <2>1 DEF LogInv, Followed, Follows
    <2>2. "lshift" \in s'.bits <=> (IF down THEN "lshift" \in s.bits \/ key = "lshift" ELSE "lshift" \in s.bits /\ key # "lshift")
        BY <1>2, <1>4 DEF Watched
    <2> QED BY <1>1, <2>1, <2>a, <2>2
<1>11. ControlKnown'
    <2> SUFFICES ASSUME FewModifiers'
                 PROVE  /\ "CF" \notin s'.mods
                        /\ "C" \in s'.mods /\ ~Lost("ctrl")' =>
                               Heeded' /\ "ctrl" \in s'.bits /\ ("CMD" \in s'.mods <=> "win" \in s'.bits)
        BY DEF ControlKnown
    <2>1. FewModifiers BY DEF FewModifiers
    <2>2. PICK c \in Three : ~\E k \in kb.keys : CodeOn(kb, k) = c BY <2>1 DEF FewModifiers
    <2>3. c \notin s.bits /\ c \notin s'.bits
        <3>1. HeldKeys \subseteq kb.keys /\ HeldKeys' \subseteq kb.keys BY DEF HeldKeys, ToSet
        <3> QED BY <1>6, <2>2, <3>1 DEF BitsHeld, Holds, Watched
    <2>4. "CF" \notin s.mods BY <2>1 DEF ControlKnown
    <2>5. ~All(s'.bits) BY <2>3 DEF All
    <2>6. "CF" \notin s'.mods BY <1>1, <2>4, <2>5 DEF Heard, NewMods
    <2>7. ASSUME "C" \in s'.mods, ~Lost("ctrl")'
          PROVE  Heeded' /\ "ctrl" \in s'.bits /\ ("CMD" \in s'.mods <=> "win" \in s'.bits)
        <3>1. "C" \in s.mods =>
                  Heeded /\ "ctrl" \in s.bits /\ ("CMD" \in s.mods <=> "win" \in s.bits)
            BY <1>3, <2>1, <2>7 DEF ControlKnown
        <3>2. "C" \in s.mods => Heeded' BY <1>7, <2>7, <3>1 DEF Three
        <3>3. CASE s'.mods = NewMods(s.mods, s'.bits) /\ ~s'.toggle /\ ~s'.dark
            <4>1. Heeded' BY <3>3 DEF Heeded
            <4>2. CASE "AF" \notin s.mods /\ "win" \in s'.bits /\ "alt" \in s'.bits
                <5>1. s'.mods = s.mods \cup {"AF"} BY <2>4, <2>5, <3>3, <4>2 DEF NewMods
                <5>2. "C" \in s.mods /\ "ctrl" \in s.bits BY <2>7, <3>1, <5>1
                <5> QED BY <2>2, <2>3, <4>2, <5>2 DEF Three
            <4>3. CASE ~("AF" \notin s.mods /\ "win" \in s'.bits /\ "alt" \in s'.bits)
                <5>1. "CMD" \in s'.mods <=> "win" \in s'.bits
                    BY <2>4, <2>5, <3>3, <4>3 DEF NewMods
                <5>2. "ctrl" \in s'.bits
                    <6>1. CASE "CMD" \in s.mods <=> "win" \in s'.bits
                        BY <2>4, <2>5, <2>7, <3>3, <4>3, <6>1 DEF NewMods
                    <6>2. CASE ~("CMD" \in s.mods <=> "win" \in s'.bits)
                        <7>1. "C" \in s.mods BY <2>4, <2>5, <2>7, <3>3, <4>3, <6>2 DEF NewMods
                        <7>2. code = "win" BY <1>4, <3>1, <6>2, <7>1 DEF Watched, Three
                        <7> QED BY <1>4, <3>1, <7>1, <7>2 DEF Watched, Three
                    <6> QED BY <6>1, <6>2
                <5> QED BY <4>1, <5>1, <5>2
            <4> QED BY <4>2, <4>3
        <3>4. CASE s'.mods = s.mods /\ ~(s'.mods = NewMods(s.mods, s'.bits) /\ ~s'.toggle /\ ~s'.dark)
            <4>1. Heeded' /\ Heeded /\ "ctrl" \in s.bits /\ ("CMD" \in s.mods <=> "win" \in s.bits)
                BY <2>7, <3>1, <3>2, <3>4
            <4>2. code \in Three => down /\ code \in s.bits BY <1>8, <3>4, <4>1 DEF Heeded
            <4>3. s'.bits \cap Three = s.bits \cap Three BY <1>4, <4>2 DEF Watched
            <4> QED BY <3>4, <4>1, <4>3 DEF Three
        <3> QED BY <1>1, <3>3, <3>4 DEF Heard
    <2> QED BY <2>6, <2>7
<1> QED BY <1>1, <1>6, <1>9, <1>10, <1>11

\* The keys after one more went down.
LEMMA HeldAfterPress ==
    ASSUME NEW S, NEW q \in Seq(S), NEW key \in S
    PROVE  /\ Append(q, key) \in Seq(S) /\ Append(q, key) # <<>>
           /\ Last(Append(q, key)) = key
           /\ ToSet(Append(q, key)) = ToSet(q) \cup {key}
<1> DEFINE r == Append(q, key)
<1>1. /\ r \in Seq(S) /\ Len(r) = Len(q) + 1
      /\ \A i \in 1..Len(q) : r[i] = q[i]
      /\ r[Len(q) + 1] = key
    OBVIOUS
<1> HIDE DEF r
<1>2. ToSet(r) \subseteq ToSet(q) \cup {key} BY <1>1 DEF ToSet
<1>3. ToSet(q) \cup {key} \subseteq ToSet(r) BY <1>1 DEF ToSet
<1> QED BY <1>1, <1>2, <1>3 DEF Last, r

\* What the user does with a key while the machine is awake is a key event.
LEMMA KeySteps ==
    ASSUME BelievedInv, awake
    PROVE  /\ \A key : Press(key) => \E limited : KeyStep(key, TRUE, limited)
           /\ Repeat => \E limited : KeyStep(Last(held), TRUE, limited)
           /\ \A key : LetGo(key) => KeyStep(key, FALSE, FALSE)
<1>0. held \in Seq(kb.keys) /\ (repeats => awake /\ held # <<>>) BY DEF BelievedInv
<1>1. ASSUME NEW key, Press(key) PROVE \E limited : KeyStep(key, TRUE, limited)
    <2>1. PICK limited \in BOOLEAN : s' = KeyEvent(s, key, TRUE, limited)
        BY <1>1 DEF Press
    <2>2. /\ held' \in Seq(kb.keys) /\ held' # <<>> /\ Last(held') = key
          /\ HeldKeys' = HeldKeys \cup {key}
        BY <1>0, <1>1, HeldAfterPress DEF Press, HeldKeys
    <2>3. kb' = kb /\ awake' = awake /\ repeats' = TRUE
        BY <1>1 DEF Press
    <2>4. lost' = lost \cup Disturbed BY <1>1 DEF Press
    <2>5. ((s'.dark /\ ~s.dark) \/ (s'.toggle /\ ~s.toggle)) => HeldKeys \ {"lshift", "caps"} \subseteq lost'
        BY <2>4 DEF Disturbed
    <2>6. s'.numlock # s.numlock => HeldKeys \cap {"num7"} \subseteq lost' BY <2>4 DEF Disturbed
    <2> QED BY <1>1, <2>1, <2>2, <2>3, <2>4, <2>5, <2>6 DEF KeyStep
<1>2. ASSUME Repeat PROVE \E limited : KeyStep(Last(held), TRUE, limited)
    <2>1. PICK limited \in BOOLEAN : s' = KeyEvent(s, Last(held), TRUE, limited)
        BY <1>2 DEF Repeat
    <2>2. /\ kb' = kb /\ awake' = awake /\ repeats' = repeats /\ held' = held /\ repeats /\ awake
          /\ lost' = lost \cup Disturbed
        BY <1>0, <1>2 DEF Repeat
    <2>3. Last(held) \in HeldKeys BY <1>0, <2>2 DEF Last, HeldKeys, ToSet
    <2>4. ((s'.dark /\ ~s.dark) \/ (s'.toggle /\ ~s.toggle)) => HeldKeys \ {"lshift", "caps"} \subseteq lost'
        BY <2>2 DEF Disturbed
    <2>6. HeldKeys' = HeldKeys BY <2>2 DEF HeldKeys
    <2>7. s'.numlock # s.numlock => HeldKeys \cap {"num7"} \subseteq lost' BY <2>2 DEF Disturbed
    <2> QED BY <1>0, <2>1, <2>2, <2>3, <2>4, <2>6, <2>7 DEF KeyStep, BelievedInv
<1>3. ASSUME NEW key, LetGo(key) PROVE KeyStep(key, FALSE, FALSE)
    <2>1. PICK i \in DOMAIN held : held[i] = key /\ held' = RemoveAt(held, i)
        BY <1>3 DEF LetGo
    <2>2. held' \in Seq(kb.keys) /\ HeldKeys \ {key} \subseteq HeldKeys'
        BY <1>0, <2>1, HeldAfterRemoval DEF HeldKeys
    <2>3. /\ kb' = kb /\ awake' = awake /\ repeats' = FALSE /\ lost' = lost
          /\ s' = KeyEvent(s, key, FALSE, FALSE)
        BY <1>3 DEF LetGo
    <2> QED BY <2>2, <2>3 DEF KeyStep
<1> QED BY <1>1, <1>2, <1>3

LEMMA BelievedStays == BelievedInv /\ [Next]_vars => BelievedInv'
<1> SUFFICES ASSUME BelievedInv, [Next]_vars PROVE BelievedInv'
    OBVIOUS
<1>0. held \in Seq(kb.keys) /\ (repeats => awake /\ held # <<>>) BY DEF BelievedInv
<1>a. LogInv' BY FollowedStays DEF BelievedInv
<1>1. ASSUME NEW key \in Keys, Press(key), awake PROVE BelievedInv'
    BY <1>1, <1>a, KeySteps, BelievedAfterKey
<1>2. ASSUME NEW key \in Keys, LetGo(key), awake PROVE BelievedInv'
    BY <1>2, <1>a, KeySteps, BelievedAfterKey
<1>3. CASE Repeat
    <2>1. awake BY <1>0, <1>3 DEF Repeat
    <2> QED BY <1>3, <1>a, <2>1, KeySteps, BelievedAfterKey
\* While the machine sleeps only the keys that the user holds change.
<1>4. ASSUME NEW key \in Keys, Press(key) \/ LetGo(key), ~awake PROVE BelievedInv'
    <2>1. /\ s' = s /\ kb' = kb /\ awake' = awake /\ repeats' = FALSE /\ lost \subseteq lost'
          /\ held' \in Seq(kb.keys)
        <3>1. CASE Press(key)
            <4>1. held' \in Seq(kb.keys) BY <1>0, <3>1, HeldAfterPress DEF Press
            <4> QED BY <1>4, <3>1, <4>1 DEF Press, BelievedInv
        <3>2. CASE LetGo(key)
            <4>1. PICK i \in DOMAIN held : held' = RemoveAt(held, i) BY <3>2 DEF LetGo
            <4>2. held' \in Seq(kb.keys) BY <1>0, <4>1, HeldAfterRemoval
            <4> QED BY <1>4, <3>2, <4>2 DEF LetGo
        <3> QED BY <1>4, <3>1, <3>2
    <2>2. \A code : Lost(code) => Lost(code)' BY <2>1 DEF Lost
    <2>3. ~Heeded /\ ~Heeded' BY <1>4, <2>1 DEF Heeded
    <2>4. BitsHeld' BY <1>4, <2>1 DEF BitsHeld
    <2>5. SpeedKnown' BY <2>1, <2>2, <2>3 DEF BelievedInv, SpeedKnown
    <2>6. HoldKnown' BY <1>4, <2>1 DEF BelievedInv, HoldKnown
    <2>7. ControlKnown' BY <2>1, <2>2, <2>3 DEF BelievedInv, ControlKnown, FewModifiers
    <2> QED BY <1>a, <2>1, <2>4, <2>5, <2>6, <2>7 DEF BelievedInv
<1>5. CASE Sleep
    <2>1. /\ s' = s /\ kb' = kb /\ held' = held /\ awake /\ awake' = FALSE /\ repeats' = FALSE
          /\ lost' = lost \cup HeldKeys
        BY <1>5 DEF Sleep
    <2>2. \A code : Lost(code) \/ Holds(code) => Lost(code)' BY <2>1 DEF Lost, Holds
    <2>3. \A code \in s.bits \cap Watched : Lost(code)' BY <2>1, <2>2 DEF BelievedInv, BitsHeld
    <2>4. SpeedKnown' BY <2>1, <2>2, <2>3 DEF BelievedInv, SpeedKnown, All, Three, Watched
    <2>5. HoldKnown'
        <3>1. s.hold => lost' \cap Both # {}
            <4>1. \A key \in lost' : CodeOn(kb, key) = "lshift" => key = "lshift" BY CodesOfKeys
            <4>2. s.hold /\ lost \cap Both = {} => Lost("lshift")'
                BY <2>3 DEF BelievedInv, HoldKnown, Watched
            <4> QED BY <2>1, <4>1, <4>2 DEF Lost, Both
        <3> QED BY <2>1, <3>1 DEF HoldKnown
    <2>6. ControlKnown' BY <2>1, <2>2, <2>3 DEF BelievedInv, ControlKnown, FewModifiers, Watched, Three
    <2> QED BY <1>0, <1>a, <2>1, <2>4, <2>5, <2>6 DEF BelievedInv, BitsHeld
<1>6. CASE Wake
    <2>1. /\ s' = Woken(s) /\ kb' = kb /\ held' = held /\ ~awake /\ awake' = TRUE /\ repeats' = repeats
          /\ lost' = lost
        BY <1>6 DEF Wake
    <2>2. Informed(s') /\ s'.bits = {} /\ s'.mods = s.mods /\ s'.hold = s.hold
        BY <2>1 DEF BelievedInv, Informed, Woken
    <2>3. \A code : Lost(code)' <=> Lost(code) BY <2>1 DEF Lost
    <2>4. ~Heeded /\ ~repeats BY <1>0, <2>1 DEF Heeded
    <2>5. SpeedKnown' BY <2>2, <2>3, <2>4 DEF BelievedInv, SpeedKnown
    <2>6. HoldKnown' BY <2>1, <2>2, <2>4 DEF BelievedInv, HoldKnown
    <2>7. ControlKnown' BY <2>1, <2>2, <2>3, <2>4 DEF BelievedInv, ControlKnown, FewModifiers
    <2> QED BY <1>a, <2>1, <2>2, <2>4, <2>5, <2>6, <2>7 DEF BelievedInv, BitsHeld
<1>7. ASSUME Calm(s, s'), UNCHANGED <<kb, held, repeats, awake, lost>> PROVE BelievedInv'
    <2>1. \A code : (Lost(code)' <=> Lost(code)) /\ (Holds(code)' <=> Holds(code))
        BY <1>7 DEF Lost, Holds, HeldKeys
    <2>2. Informed(s') /\ s'.bits = s.bits /\ s'.mods = s.mods /\ (s'.hold => s.hold) /\ s'.toggle = s.toggle
        BY <1>7 DEF Calm
    <2>3. Heeded' <=> Heeded BY <1>7 DEF Calm, Heeded
    <2>4. BitsHeld' BY <1>7, <2>1, <2>2 DEF BelievedInv, BitsHeld
    <2>5. SpeedKnown' BY <2>1, <2>2, <2>3 DEF BelievedInv, SpeedKnown
    <2>6. HoldKnown' BY <1>7, <2>2 DEF BelievedInv, HoldKnown
    <2>7. ControlKnown' BY <1>7, <2>1, <2>2, <2>3 DEF BelievedInv, ControlKnown, FewModifiers
    <2> QED BY <1>7, <1>a, <2>2, <2>4, <2>5, <2>6, <2>7 DEF BelievedInv
<1>8. CASE AppSwitch \/ EndAppSwitch \/ Gesture \/ UNCHANGED vars
    <2>1. Informed(s) BY DEF BelievedInv
    <2>2. Calm(s, s) BY <2>1, CalmAtFirst
    <2>3. CASE AppSwitch
        BY <1>7, <2>1, <2>3 DEF AppSwitch, Calm, Informed
    <2>4. CASE EndAppSwitch
        BY <1>7, <2>1, <2>4 DEF EndAppSwitch, ReleaseCmdKey, Calm, Informed
    <2>5. CASE Gesture
        <3>1. Calm(s, s') BY <2>2, <2>5, EventsCalm DEF Gesture
        <3> QED BY <1>7, <2>5, <3>1 DEF Gesture
    <2>6. CASE UNCHANGED vars
        <3>1. Calm(s, s') BY <2>2, <2>6 DEF vars
        <3> QED BY <1>7, <2>6, <3>1 DEF vars
    <2> QED BY <1>8, <2>3, <2>4, <2>5, <2>6
<1>9. awake \in BOOLEAN BY DEF BelievedInv
<1> QED BY <1>1, <1>2, <1>3, <1>4, <1>5, <1>6, <1>8, <1>9 DEF Next

\* With nothing held the invariant leaves what was lost.
LEMMA BelievedSuffices ==
    ASSUME BelievedInv, AtRest
    PROVE  SpeedLetGo /\ HoldLetGo /\ (FewModifiers => ControlLetGo)
<1>1. HeldKeys = {} BY DEF AtRest, HeldKeys, ToSet
<1>2. s.bits \cap Watched = {} BY <1>1 DEF BelievedInv, BitsHeld, Holds, AtRest
<1>3. ASSUME NEW code, Lost(code) PROVE code \in CodesOf(lost)
    BY <1>3, CodesOfKeys DEF Lost, CodesOf
<1>4. SpeedLetGo
    BY <1>2, <1>3 DEF BelievedInv, SpeedKnown, SpeedLetGo, Informed, All, Three, Watched
<1>5. HoldLetGo BY <1>2 DEF BelievedInv, HoldKnown, HoldLetGo, Watched, Both
<1>6. FewModifiers => ControlLetGo
    BY <1>2, <1>3 DEF BelievedInv, ControlKnown, ControlLetGo, Informed, Three, Watched
<1> QED BY <1>4, <1>5, <1>6

\* At rest the touchpad scrolls neither at double speed nor in reverse, on every
\* keyboard, in whatever order the keys were played, unless the keys that switch
\* these, or caps lock for the second, were down at a sleep or when the display
\* fell asleep or the toggle mode began (lost).
THEOREM SpeedAndHoldEnd == Spec => [](AtRest => SpeedLetGo /\ HoldLetGo)
<1>1. Spec => []BelievedInv
    BY BelievedAtFirst, BelievedStays, PTL DEF Spec
<1>2. BelievedInv => (AtRest => SpeedLetGo /\ HoldLetGo) BY BelievedSuffices
<1> QED BY <1>1, <1>2, PTL

\* On a keyboard without all three of control, alt and command, the touchpad
\* does not take control for down either: one piece of news with every event
\* then keeps up, whatever keys are pressed and let go in any order.
THEOREM ModifiersLetGo == Spec => [](FewModifiers => TouchpadLetGo)
<1>1. Spec => []BelievedInv
    BY BelievedAtFirst, BelievedStays, PTL DEF Spec
<1>2. BelievedInv => (FewModifiers => TouchpadLetGo) BY BelievedSuffices DEF TouchpadLetGo
<1> QED BY <1>1, <1>2, PTL

---------------------------------------------------------------------------
(* The bit vector: VectorClears.  Bits stay behind when the press of a key    *)
(* set its bit and its release is swallowed.                                  *)

\* Keys that a modifier turns into a combination, and the modifier's code.
Combined == {"p", "f4", "tab"} \cup (IF kb.german THEN {"q"} ELSE {})
Modifier(key) == IF key = "q" \/ (key = "p" /\ kb.mac) \/ (key # "p" /\ ~kb.mac) THEN "alt" ELSE "win"

\* The last key goes first, or no such key is on the keyboard with its modifier.
Untangled == kb.nested \/ \A key \in kb.keys \cap Combined, k \in kb.keys : CodeOn(kb, k) # Modifier(key)

LEMMA Swallowing ==
    ASSUME NEW t, NEW key, NEW down
    PROVE  /\ Swallowed(t, key, down) <=>
                  \/ key \in Combined /\ Modifier(key) \in t.bits
                  \/ key \in {"volume", "touch", "print"}
                  \/ key = "del" /\ kb.del /\ down
           /\ key \in Combined => Modifier(key) # CodeOn(kb, key)
           /\ \A k : CodeOn(kb, k) \in Swallowable => CodeOn(kb, k) = k
           /\ Combined \subseteq Swallowable
           /\ \A k : Modifier(k) \notin Swallowable
<1>1. Combined \subseteq Swallowable /\ \A k : Modifier(k) \notin Swallowable
    BY DEF Combined, Modifier, Swallowable
<1>2. \A k : CodeOn(kb, k) \in Swallowable => CodeOn(kb, k) = k
    <2>1. /\ DOMAIN MacSwap = {"alt", "ralt", "win", "rwin"}
          /\ MacSwap["alt"][1] = "win" /\ MacSwap["ralt"][1] = "rwin"
          /\ MacSwap["win"][1] = "alt" /\ MacSwap["rwin"][1] = "alt"
        BY DEF MacSwap
    <2>2. /\ DOMAIN Twin = {"ralt", "rctrl", "home"}
          /\ Twin["ralt"] = "alt" /\ Twin["rctrl"] = "ctrl" /\ Twin["home"] = "num7"
        BY DEF Twin
    <2> QED BY <2>1, <2>2 DEF CodeOn, Swallowable
<1>3. key \in Combined => CodeOn(kb, key) = key BY <1>1, CodesOfKeys
<1>4. Swallowed(t, key, down) <=>
          \/ key \in Combined /\ Modifier(key) \in t.bits
          \/ key \in {"volume", "touch", "print"}
          \/ key = "del" /\ kb.del /\ down
    BY DEF Swallowed, Combined, Modifier, AltDown, CmdDown
<1> QED BY <1>1, <1>2, <1>3, <1>4

\* Every bit is the code of a key that the user holds.
Backed ==
    /\ \A code \in s.bits : Holds(code)
    /\ s.bits \cap {"volume", "touch", "print"} = {}

\* A modifier that would swallow the release of a key goes before the key does.
Layered ==
    kb.nested => \A key \in Combined :
        key \in s.bits /\ Modifier(key) \in s.bits =>
            \E j \in DOMAIN held :
                CodeOn(kb, held[j]) = Modifier(key) /\ \A i \in DOMAIN held : held[i] = key => i < j

VectorInv ==
    /\ BelievedInv
    /\ Untangled /\ awake => Backed /\ Layered

LEMMA VectorAtFirst == Init => VectorInv
<1> SUFFICES ASSUME Init PROVE VectorInv
    OBVIOUS
<1>1. s.bits = {} BY DEF Init, InitState
<1> QED BY <1>1, BelievedAtFirst DEF VectorInv, Backed, Layered

\* A key goes down, again perhaps.
LEMMA VectorAfterDown ==
    ASSUME Backed, Layered, held \in Seq(kb.keys), kb' = kb,
           NEW key, Effect(s, s', key, TRUE),
           held' \in Seq(kb.keys), Len(held) <= Len(held'), held' # <<>>, held'[Len(held')] = key,
           \A i \in DOMAIN held : held'[i] = held[i],
           HeldKeys' = HeldKeys \cup {key},
           held' = held \/ (key \notin HeldKeys /\ Len(held') = Len(held) + 1)
    PROVE  Backed' /\ Layered'
<1> DEFINE code == CodeOn(kb, key)
<1>1. s'.bits = IF Swallowed(s, key, TRUE) THEN s.bits ELSE s.bits \cup {code}
    BY DEF Effect
<1>2. /\ Swallowed(s, key, TRUE) <=>
                    \/ key \in Combined /\ Modifier(key) \in s.bits
                    \/ key \in {"volume", "touch", "print"}
                    \/ key = "del" /\ kb.del
      /\ \A k : CodeOn(kb, k) \in Swallowable => CodeOn(kb, k) = k
      /\ Combined \subseteq Swallowable
      /\ \A k : Modifier(k) \notin Swallowable
    BY Swallowing
<1>3. Combined' = Combined /\ \A k : Modifier(k)' = Modifier(k) BY DEF Combined, Modifier
<1> HIDE DEF code
<1>4. Backed'
    <2>1. ASSUME NEW c \in s'.bits PROVE \E k \in HeldKeys' : CodeOn(kb', k) = c
        <3>1. CASE c \in s.bits
            <4>1. PICK k \in HeldKeys : CodeOn(kb, k) = c BY <3>1 DEF Backed, Holds
            <4> QED BY <4>1
        <3>2. CASE c \notin s.bits BY <1>1, <2>1, <3>2 DEF code
        <3> QED BY <3>1, <3>2
    <2>2. s'.bits \cap {"volume", "touch", "print"} = {}
        <3>1. code \in {"volume", "touch", "print"} => code = key BY <1>2 DEF code, Swallowable
        <3> QED BY <1>1, <1>2, <3>1 DEF Backed
    <2> QED BY <2>1, <2>2 DEF Backed, Holds
<1>5. Layered'
    <2> SUFFICES ASSUME kb.nested, NEW k \in Combined, k \in s'.bits, Modifier(k) \in s'.bits
                 PROVE  \E j \in DOMAIN held' :
                            CodeOn(kb, held'[j]) = Modifier(k) /\ \A i \in DOMAIN held' : held'[i] = k => i < j
        BY <1>3 DEF Layered
    <2> DEFINE m == Modifier(k)
    <2>1. m \notin Swallowable /\ k \in Swallowable BY <1>2
    <2> HIDE DEF m
    <2>2. CASE k \in s.bits /\ m \in s.bits
        <3>1. PICK j \in DOMAIN held : CodeOn(kb, held[j]) = m /\ \A i \in DOMAIN held : held[i] = k => i < j
            BY <2>2 DEF Layered, m
        <3>2. k = key => held' = held
            <4>1. PICK h \in HeldKeys : CodeOn(kb, h) = k BY <2>2 DEF Backed, Holds
            <4>2. h = k BY <1>2, <2>1, <4>1
            <4> QED BY <4>1, <4>2
        <3>3. ASSUME NEW i \in DOMAIN held', held'[i] = k PROVE i < j
            <4>1. CASE i \in DOMAIN held BY <3>1, <3>3, <4>1
            <4>2. CASE i \notin DOMAIN held
                <5>1. i = Len(held') /\ held' # held BY <4>2
                <5> QED BY <3>2, <3>3, <5>1
            <4> QED BY <4>1, <4>2
        <3>4. j \in DOMAIN held' /\ held'[j] = held[j] OBVIOUS
        <3> QED BY <3>1, <3>3, <3>4 DEF m
    <2>3. CASE k \in s.bits /\ m \notin s.bits
        <3>1. code = m BY <1>1, <2>3 DEF m
        <3>2. key # k BY <1>2, <2>1, <3>1, CodesOfKeys DEF code
        <3>3. Len(held') \in DOMAIN held' /\ \A i \in DOMAIN held' : i <= Len(held') OBVIOUS
        <3>4. \A i \in DOMAIN held' : held'[i] = k => i < Len(held') BY <3>2, <3>3
        <3> QED BY <3>1, <3>3, <3>4 DEF m, code
    <2>4. CASE k \notin s.bits
        <3>1. code = k /\ ~Swallowed(s, key, TRUE) BY <1>1, <2>4
        <3>2. key = k BY <1>2, <2>1, <3>1 DEF code
        <3>3. m \notin s.bits BY <1>2, <3>1, <3>2 DEF m
        <3> QED BY <1>1, <2>1, <3>1, <3>3 DEF m
    <2> QED BY <2>2, <2>3, <2>4
<1> QED BY <1>4, <1>5

\* A release that is swallowed leaves no bit, for there was none.
LEMMA SwallowedReleases ==
    ASSUME Backed, Layered, Untangled, held \in Seq(kb.keys),
           NEW i \in DOMAIN held, kb.nested => i = Len(held),
           Swallowed(s, held[i], FALSE)
    PROVE  CodeOn(kb, held[i]) \notin s.bits
<1> DEFINE key == held[i]
<1>1. SUFFICES ASSUME CodeOn(kb, key) \in s.bits PROVE FALSE
    OBVIOUS
<1>2. key \in HeldKeys /\ HeldKeys \subseteq kb.keys BY DEF HeldKeys, ToSet
<1>3. key \in Swallowable BY DEF Swallowed, Swallowable
<1>4. CodeOn(kb, key) = key BY <1>3, CodesOfKeys
<1>5. key \in Combined /\ Modifier(key) \in s.bits
    <2>1. (key \in Combined /\ Modifier(key) \in s.bits) \/ key \in {"volume", "touch", "print"}
        BY Swallowing
    <2> QED BY <1>1, <1>4, <2>1 DEF Backed
<1>6. CASE kb.nested
    <2>1. PICK j \in DOMAIN held : \A h \in DOMAIN held : held[h] = key => h < j
        BY <1>1, <1>4, <1>5, <1>6 DEF Layered
    <2> QED BY <1>6, <2>1
<1>7. CASE ~kb.nested
    <2>1. PICK k \in HeldKeys : CodeOn(kb, k) = Modifier(key) BY <1>5 DEF Backed, Holds
    <2> QED BY <1>2, <1>5, <1>7, <2>1 DEF Untangled
<1> QED BY <1>6, <1>7

\* A key comes up.
LEMMA VectorAfterUp ==
    ASSUME Backed, Layered, Untangled, held \in Seq(kb.keys), kb' = kb,
           NEW i \in DOMAIN held, held' = RemoveAt(held, i), kb.nested => i = Len(held),
           Effect(s, s', held[i], FALSE)
    PROVE  Backed' /\ Layered'
<1> DEFINE key  == held[i]
           code == CodeOn(kb, key)
<1>1. s'.bits = IF Swallowed(s, key, FALSE) THEN s.bits ELSE s.bits \ {code}
    BY DEF Effect
<1>2. /\ HeldKeys \ {key} \subseteq HeldKeys' /\ Len(held') = Len(held) - 1 /\ held' \in Seq(kb.keys)
      /\ \A j \in DOMAIN held' : held'[j] = IF j < i THEN held[j] ELSE held[j + 1]
    BY HeldAfterRemoval DEF HeldKeys
<1>3. Combined' = Combined /\ \A k : Modifier(k)' = Modifier(k) BY DEF Combined, Modifier
<1> HIDE DEF code
<1>4. Swallowed(s, key, FALSE) => code \notin s.bits BY SwallowedReleases DEF code
<1>5. code \notin s'.bits /\ s'.bits \subseteq s.bits BY <1>1, <1>4
<1>6. Backed'
    <2>1. ASSUME NEW c \in s'.bits PROVE \E k \in HeldKeys' : CodeOn(kb', k) = c
        <3>1. PICK k \in HeldKeys : CodeOn(kb, k) = c BY <1>5, <2>1 DEF Backed, Holds
        <3>2. k # key BY <1>5, <2>1, <3>1 DEF code
        <3> QED BY <1>2, <3>1, <3>2
    <2> QED BY <1>5, <2>1 DEF Backed, Holds
<1>7. Layered'
    <2> SUFFICES ASSUME kb.nested, NEW k \in Combined, k \in s'.bits, Modifier(k) \in s'.bits
                 PROVE  \E j \in DOMAIN held' :
                            CodeOn(kb, held'[j]) = Modifier(k) /\ \A h \in DOMAIN held' : held'[h] = k => h < j
        BY <1>3 DEF Layered
    <2>1. PICK j \in DOMAIN held :
              CodeOn(kb, held[j]) = Modifier(k) /\ \A h \in DOMAIN held : held[h] = k => h < j
        BY <1>5 DEF Layered
    <2>2. j # i BY <1>5, <2>1 DEF code
    <2>3. i = Len(held) OBVIOUS
    <2>4. j \in DOMAIN held' /\ held'[j] = held[j] BY <1>2, <2>2, <2>3
    <2>5. \A h \in DOMAIN held' : h \in DOMAIN held /\ held'[h] = held[h] BY <1>2, <2>3
    <2> QED BY <2>1, <2>4, <2>5
<1> QED BY <1>6, <1>7


LEMMA VectorStays == VectorInv /\ [Next]_vars => VectorInv'
<1> SUFFICES ASSUME VectorInv, [Next]_vars PROVE VectorInv'
    OBVIOUS
<1>0. /\ BelievedInv /\ BelievedInv'
      /\ Informed(s) /\ held \in Seq(kb.keys) /\ held' \in Seq(kb'.keys)
      /\ repeats => awake /\ held # <<>>
    BY BelievedStays DEF VectorInv, BelievedInv
<1>1. SUFFICES ASSUME Untangled', awake' PROVE Backed' /\ Layered'
    BY <1>0 DEF VectorInv
<1>2. ASSUME NEW key \in Keys, Press(key) PROVE Backed' /\ Layered'
    <2>1. /\ kb' = kb /\ awake' = awake /\ key \in kb.keys \ HeldKeys
          /\ held' = Append(held, key)
        BY <1>2 DEF Press
    <2>2. awake /\ Backed /\ Layered BY <1>1, <2>1 DEF VectorInv, Untangled, Combined, Modifier
    <2>3. PICK limited \in BOOLEAN : s' = KeyEvent(s, key, TRUE, limited)
        BY <1>2, <2>2 DEF Press
    <2>4. Effect(s, s', key, TRUE) BY <1>0, <2>3, KeyEventsHeard
    <2>5. /\ held' # <<>> /\ Last(held') = key /\ HeldKeys' = HeldKeys \cup {key}
        BY <1>0, <2>1, HeldAfterPress DEF HeldKeys
    <2>6. /\ held' \in Seq(kb.keys) /\ Len(held') = Len(held) + 1 /\ held'[Len(held')] = key
          /\ \A i \in DOMAIN held : held'[i] = held[i]
        BY <1>0, <2>1
    <2>7. Len(held) <= Len(held') BY <1>0, <2>6
    <2> QED BY <1>0, <2>1, <2>2, <2>4, <2>5, <2>6, <2>7, VectorAfterDown
<1>3. ASSUME Repeat PROVE Backed' /\ Layered'
    <2>1. kb' = kb /\ awake' = awake /\ held' = held /\ repeats BY <1>3 DEF Repeat
    <2>2. Backed /\ Layered BY <1>1, <2>1 DEF VectorInv, Untangled, Combined, Modifier
    <2>3. PICK limited \in BOOLEAN : s' = KeyEvent(s, Last(held), TRUE, limited)
        BY <1>3 DEF Repeat
    <2>4. Effect(s, s', Last(held), TRUE) BY <1>0, <2>3, KeyEventsHeard
    <2>5. held # <<>> /\ held[Len(held)] = Last(held) /\ Last(held) \in HeldKeys
        BY <1>0, <2>1 DEF Last, HeldKeys, ToSet
    <2>6. HeldKeys' = HeldKeys \cup {Last(held)} BY <2>1, <2>5 DEF HeldKeys
    <2>7. Len(held) <= Len(held') BY <1>0, <2>1
    <2> QED BY <1>0, <2>1, <2>2, <2>4, <2>5, <2>6, <2>7, VectorAfterDown
<1>4. ASSUME NEW key \in Keys, LetGo(key) PROVE Backed' /\ Layered'
    <2>1. PICK i \in DOMAIN held : held[i] = key /\ (kb.nested => i = Len(held)) /\ held' = RemoveAt(held, i)
        BY <1>4 DEF LetGo
    <2>2. kb' = kb /\ awake' = awake BY <1>4 DEF LetGo
    <2>3. awake /\ Untangled /\ Backed /\ Layered
        BY <1>1, <2>2 DEF VectorInv, Untangled, Combined, Modifier
    <2>4. s' = KeyEvent(s, key, FALSE, FALSE) BY <1>4, <2>3 DEF LetGo
    <2>5. Effect(s, s', held[i], FALSE) BY <1>0, <2>1, <2>4, KeyEventsHeard
    <2> QED BY <1>0, <2>1, <2>2, <2>3, <2>5, VectorAfterUp
<1>5. CASE Wake
    <2>1. s'.bits = {} BY <1>0, <1>5 DEF Wake, Woken, Informed
    <2> QED BY <2>1 DEF Backed, Layered
<1>6. CASE AppSwitch \/ EndAppSwitch \/ Gesture \/ UNCHANGED vars
    <2>1. s'.bits = s.bits /\ UNCHANGED <<kb, held, awake>>
        <3>1. CASE AppSwitch BY <1>0, <3>1 DEF AppSwitch, Informed
        <3>2. CASE EndAppSwitch BY <1>0, <3>2 DEF EndAppSwitch, ReleaseCmdKey, Informed
        <3>3. CASE Gesture
            <4>1. Calm(s, s') BY <1>0, <3>3, CalmAtFirst, EventsCalm DEF Gesture
            <4> QED BY <3>3, <4>1 DEF Gesture, Calm
        <3>4. CASE UNCHANGED vars BY <3>4 DEF vars
        <3> QED BY <1>6, <3>1, <3>2, <3>3, <3>4
    <2>2. Backed /\ Layered BY <1>1, <2>1 DEF VectorInv, Untangled, Combined, Modifier
    <2>3. \A code : Holds(code)' <=> Holds(code) BY <2>1 DEF Holds, HeldKeys
    <2>4. Combined' = Combined /\ \A k : Modifier(k)' = Modifier(k) BY <2>1 DEF Combined, Modifier
    <2> QED BY <2>1, <2>2, <2>3, <2>4 DEF Backed, Layered
<1>7. CASE Sleep BY <1>1, <1>7 DEF Sleep
<1> QED BY <1>2, <1>3, <1>4, <1>5, <1>6, <1>7 DEF Next

\* When nothing is held the bit vector is empty, and so no key is taken for
\* down already when it is pressed next: whatever chords of modifiers and of
\* keys that they swallow were played before, on every keyboard whose user lets
\* the last key go first, or that has no key together with the modifier that
\* swallows its release.
THEOREM VectorEmptyAtRest == Spec => [](Untangled => (AtRest => VectorClears))
<1>1. Spec => []VectorInv
    BY VectorAtFirst, VectorStays, PTL DEF Spec
<1>2. VectorInv => (Untangled => (AtRest => VectorClears))
    BY DEF VectorInv, Backed, Holds, HeldKeys, ToSet, AtRest, VectorClears
<1> QED BY <1>1, <1>2, PTL

---------------------------------------------------------------------------
(* The keys down for the system: KeysComeUp.  Most methods are quiet: they    *)
(* let keys come up only, and a touchpad that ends switching applications     *)
(* lets command go.                                                           *)

Kinds(t) ==
    /\ {"bits", "sys", "toggle", "dark", "fn", "numlock", "app"} \subseteq DOMAIN t
    /\ t.toggle \in BOOLEAN /\ t.dark \in BOOLEAN /\ t.fn \in BOOLEAN /\ t.app \in BOOLEAN

\* The keys of before that may still be down.
Remaining(o, t) == IF t.app = o.app THEN o.sys ELSE o.sys \ {Command}

Quiet(o, t) ==
    /\ Kinds(t)
    /\ t.sys \subseteq Remaining(o, t)
    /\ t.bits = o.bits /\ t.toggle = o.toggle /\ t.dark = o.dark /\ t.fn = o.fn /\ t.numlock = o.numlock

LEMMA QuietAtFirst ==
    ASSUME NEW t, Kinds(t)
    PROVE  Quiet(t, t)
BY DEF Quiet, Remaining

LEMMA EventsQuiet ==
    ASSUME NEW o, NEW t, Quiet(o, t)
    PROVE  /\ \A key : Quiet(o, Dispatch(t, key, FALSE)) /\ (key[1] # "caps" => key \notin Dispatch(t, key, FALSE).sys)
           /\ \A modifiers : Quiet(o, Chord(t, modifiers)) /\ Chord(t, modifiers).sys = t.sys \ modifiers
<1>1. ASSUME NEW gone
      PROVE  LET u == [t EXCEPT !.sys = @ \ gone] IN Quiet(o, u) /\ u.sys = t.sys \ gone
    BY DEF Kinds, Quiet, Remaining
<1>2. ASSUME NEW key
      PROVE  Quiet(o, Dispatch(t, key, FALSE)) /\ (key[1] # "caps" => key \notin Dispatch(t, key, FALSE).sys)
    <2>1. Dispatch(t, key, FALSE) = IF key[1] = "caps" THEN t ELSE [t EXCEPT !.sys = @ \ {key}]
        BY DEF Dispatch
    <2> QED BY <1>1, <2>1
<1> QED BY <1>1, <1>2 DEF Chord

LEMMA NotificationsQuiet ==
    ASSUME NEW o, NEW t, Quiet(o, t)
    PROVE  /\ Quiet(o, Escape(t))
           /\ Quiet(o, EnableTouchpad(t)) /\ Quiet(o, SwitchTouchpad(t)) /\ Quiet(o, RestoreTouchpad(t))
           /\ Quiet(o, ShowTouchPressureWidth(t)) /\ Quiet(o, ShiftKey(t))
           /\ Quiet(o, [t EXCEPT !.gesture = TRUE]) /\ Quiet(o, [t EXCEPT !.gesture = FALSE])
           /\ Quiet(o, Exception(t))
<1>1. Quiet(o, Escape(t))
    <2>1. CASE t.app
        <3> DEFINE u == ReleaseCmdKey(t)
        <3>1. /\ Quiet(o, u) /\ u.sys = t.sys \ {Command} /\ u.app = t.app
            BY DEF ReleaseCmdKey, Kinds, Quiet, Remaining
        <3>2. Escape(t) = [u EXCEPT !.hold = FALSE, !.app = FALSE] BY <2>1 DEF Escape
        <3> HIDE DEF u
        <3> QED BY <3>1, <3>2 DEF Kinds, Quiet, Remaining
    <2>2. CASE ~t.app
        <3>1. Escape(t) = [t EXCEPT !.hold = FALSE, !.app = FALSE] BY <2>2 DEF Escape
        <3> QED BY <2>2, <3>1 DEF Kinds, Quiet, Remaining
    <2> QED BY <2>1, <2>2
<1>2. Quiet(o, EnableTouchpad(t)) BY DEF Kinds, Quiet, Remaining, EnableTouchpad
<1>3. Quiet(o, SwitchTouchpad(t)) BY DEF Kinds, Quiet, Remaining, SwitchTouchpad
<1>4. Quiet(o, RestoreTouchpad(t)) BY DEF Kinds, Quiet, Remaining, RestoreTouchpad
<1>5. Quiet(o, ShowTouchPressureWidth(t)) /\ Quiet(o, ShiftKey(t))
    BY DEF Kinds, Quiet, Remaining, ShowTouchPressureWidth, ShiftKey
<1>6. Quiet(o, [t EXCEPT !.gesture = TRUE]) /\ Quiet(o, [t EXCEPT !.gesture = FALSE]) /\ Quiet(o, Exception(t))
    BY DEF Kinds, Quiet, Remaining, Exception
<1> QED BY <1>1, <1>2, <1>3, <1>4, <1>5, <1>6

LEMMA ReleasesQuiet ==
    ASSUME NEW o, NEW t, NEW code, Quiet(o, t)
    PROVE  Quiet(o, Release(t, code))
<1> DEFINE u == IF CmdDown(t) THEN Chord(t, {Command}) ELSE t
           v == Escape(u)
<1>1. Quiet(o, v) BY EventsQuiet, NotificationsQuiet
<1>2. Quiet(o, [v EXCEPT !.gesture = FALSE])
    <2> HIDE DEF v
    <2> QED BY <1>1, NotificationsQuiet
<1> QED BY <1>2 DEF Release

\* The modes' keys: what SpecialKey makes of a state t with the key's bit set.
Spoken(t, u, code, down) ==
    /\ Kinds(u)
    /\ u.sys \subseteq Remaining(t, u)
    /\ u.bits = t.bits /\ u.dark = t.dark
    /\ u.fn = t.fn \/ (code = "menu" /\ kb.menu = "fn" /\ kb.mode > 1)
    /\ u.numlock = t.numlock \/ (down /\ code = "numlock" /\ ~kb.clear)
    /\ u.toggle = t.toggle \/ (u.toggle /\ down /\ Shift \notin u.sys /\ {"lshift", "caps"} \subseteq t.bits)

LEMMA StartSpoken ==
    ASSUME NEW t, NEW code, NEW down, Kinds(t), down, {"lshift", "caps"} \subseteq t.bits
    PROVE  Spoken(t, StartFeatureToggle(t), code, down)
<1> DEFINE on == [t EXCEPT !.toggle = TRUE]
           u  == ShowTouchPressureWidth(on)
           v  == [u EXCEPT !.gesture = FALSE]
           w  == Dispatch(v, Shift, FALSE)
<1>1. /\ Kinds(on) /\ on.sys = t.sys /\ on.bits = t.bits /\ on.dark = t.dark /\ on.fn = t.fn
      /\ on.numlock = t.numlock /\ on.app = t.app /\ on.toggle
    BY DEF Kinds
<1> HIDE DEF on
<1>2. Quiet(on, u) BY <1>1, QuietAtFirst, NotificationsQuiet
<1> HIDE DEF u
<1>3. Quiet(on, v) BY <1>2, NotificationsQuiet
<1> HIDE DEF v
<1>4. Quiet(on, w) /\ Shift \notin w.sys BY <1>3, EventsQuiet DEF Shift
<1> HIDE DEF w
<1>5. Quiet(on, Escape(w)) BY <1>4, NotificationsQuiet
<1>6. Escape(w).sys \subseteq w.sys
    <2>1. Kinds(w) BY <1>4 DEF Quiet
    <2>2. Quiet(w, Escape(w)) BY <2>1, QuietAtFirst, NotificationsQuiet
    <2> QED BY <2>2 DEF Quiet, Remaining
<1>7. StartFeatureToggle(t) = Escape(w) BY DEF StartFeatureToggle, on, u, v, w
<1> QED BY <1>1, <1>4, <1>5, <1>6, <1>7 DEF Quiet, Spoken, Remaining

LEMMA SpecialKeysSpoken ==
    ASSUME NEW t, NEW code, NEW ext, NEW down \in BOOLEAN, Kinds(t), down => code \in t.bits
    PROVE  Spoken(t, SpecialKey(t, code, ext, down), code, down)
<1>0. Quiet(t, t) BY QuietAtFirst
<1>1. ASSUME NEW u, Quiet(t, u) PROVE Spoken(t, u, code, down)
    BY <1>1 DEF Quiet, Spoken
<1>2. ASSUME NEW u, Spoken(t, u, code, down) PROVE Spoken(t, Exception(u), code, down)
    BY <1>2 DEF Spoken, Kinds, Remaining, Exception
<1>3. Spoken(t, t, code, down) /\ Spoken(t, Exception(t), code, down)
    BY <1>0, <1>1, <1>2
<1>4. down /\ {"lshift", "caps"} \subseteq t.bits => Spoken(t, StartFeatureToggle(t), code, down)
    BY StartSpoken
<1>5. code = "lshift" => Spoken(t, LeftShift(t, down), code, down)
    <2> DEFINE u == [t EXCEPT !.gesture = TRUE]
    <2>1. Quiet(t, u) BY <1>0, NotificationsQuiet
    <2>2. Quiet(t, ShiftKey(u))
        <3> HIDE DEF u
        <3> QED BY <2>1, NotificationsQuiet
    <2>3. Quiet(t, Escape(t)) BY <1>0, NotificationsQuiet
    <2> QED BY <1>0, <1>1, <1>4, <2>2, <2>3 DEF LeftShift
<1>6. code = "caps" => Spoken(t, IF "lshift" \in t.bits /\ down THEN StartFeatureToggle(t) ELSE t, code, down)
    BY <1>3, <1>4
<1>7. /\ code = "numlock" /\ down /\ ~kb.clear => Spoken(t, [t EXCEPT !.numlock = ~@], code, down)
      /\ code = "menu" /\ kb.menu = "fn" /\ kb.mode > 1 => Spoken(t, [t EXCEPT !.fn = down], code, down)
      /\ Spoken(t, [t EXCEPT !.numpad = ~ext], code, down)
      /\ Spoken(t, [t EXCEPT !.numpad = FALSE, !.exception = FALSE], code, down)
    BY DEF Spoken, Kinds, Remaining
<1>8. Spoken(t, Release(t, code), code, down) BY <1>0, <1>1, ReleasesQuiet
<1>9. code = "lshift" => Spoken(t, Exception(LeftShift(t, down)), code, down)
    <2> DEFINE u == LeftShift(t, down)
    <2> HIDE DEF u
    <2> QED BY <1>2, <1>5 DEF u
<1>10. code = "caps" =>
           Spoken(t, Exception(IF "lshift" \in t.bits /\ down THEN StartFeatureToggle(t) ELSE t), code, down)
    <2> DEFINE u == IF "lshift" \in t.bits /\ down THEN StartFeatureToggle(t) ELSE t
    <2> HIDE DEF u
    <2> QED BY <1>2, <1>6 DEF u
<1> DEFINE Good(u) == Spoken(t, u, code, down)
<1>11. /\ code = "numlock" => Good(IF ~kb.clear /\ down THEN [t EXCEPT !.numlock = ~@] ELSE t)
       /\ code = "menu" => Good(IF kb.menu = "fn" /\ kb.mode > 1 THEN [t EXCEPT !.fn = down] ELSE t)
       /\ Good(IF CmdDown(t) THEN Exception(t) ELSE [t EXCEPT !.numpad = FALSE, !.exception = FALSE])
    BY <1>3, <1>7
<1>12. /\ Good(Exception(Release(t, code))) /\ Good(Exception(t)) /\ Good(t)
       /\ Good(Exception([t EXCEPT !.numpad = ~ext]))
    BY <1>2, <1>3, <1>7, <1>8
<1>13. /\ code = "lshift" => Good(Exception(LeftShift(t, down)))
       /\ code = "caps" => Good(Exception(IF "lshift" \in t.bits /\ down THEN StartFeatureToggle(t) ELSE t))
    BY <1>9, <1>10
<1> HIDE DEF Good
<1>14. Good(SpecialKey(t, code, ext, down)) BY <1>11, <1>12, <1>13, Zenon DEF SpecialKey
<1> QED BY <1>14 DEF Good

\* Codes that are not dispatched, or whose state in the system is not followed.
Silent == {NoCode, "menu", "caps"}

\* What DispatchKey makes of a state in which function keys are none.
Sounded(t, u, code, ext, down) ==
    /\ Kinds(u)
    /\ u.sys \subseteq Remaining(t, u) \cup
           (IF down /\ ~t.toggle /\ code \notin Silent THEN {<<code, ext>>} ELSE {})
    /\ ~down /\ ~t.toggle /\ code \notin Silent => <<code, ext>> \notin u.sys
    /\ u.bits = t.bits /\ u.dark = t.dark /\ u.fn = t.fn /\ u.numlock = t.numlock
    /\ u.toggle => t.toggle

LEMMA KeysSounded ==
    ASSUME NEW t, NEW code, NEW ext, NEW down \in BOOLEAN, Kinds(t), ~t.toggle, code \notin Silent
    PROVE  Sounded(t, Dispatch(t, <<code, ext>>, down), code, ext, down)
<1>1. CASE down
    <2>1. Dispatch(t, <<code, ext>>, down) = [t EXCEPT !.sys = @ \cup {<<code, ext>>}]
        BY <1>1 DEF Dispatch, Silent
    <2> QED BY <1>1, <2>1 DEF Sounded, Kinds, Remaining
<1>2. CASE ~down
    <2>1. Quiet(t, Dispatch(t, <<code, ext>>, FALSE)) /\ <<code, ext>> \notin Dispatch(t, <<code, ext>>, FALSE).sys
        BY QuietAtFirst, EventsQuiet DEF Silent
    <2>2. Dispatch(t, <<code, ext>>, down) = Dispatch(t, <<code, ext>>, FALSE)
        BY <1>2 DEF Dispatch
    <2> QED BY <1>2, <2>1, <2>2 DEF Sounded, Quiet
<1> QED BY <1>1, <1>2

LEMMA NewsQuiet ==
    ASSUME NEW t, Kinds(t)
    PROVE  Quiet(t, ModifierNews(t)) /\ ModifierNews(t).app = t.app
<1>1. ASSUME NEW mods, NEW ctrl, NEW fast
      PROVE  Quiet(t, Tell(t, mods, ctrl, fast)) /\ Tell(t, mods, ctrl, fast).app = t.app
    BY DEF Tell, Kinds, Quiet, Remaining
<1> QED BY <1>1, QuietAtFirst DEF ModifierNews

LEMMA DispatchedKeysSounded ==
    ASSUME NEW t, NEW code, NEW ext, NEW down \in BOOLEAN, NEW limited,
           Kinds(t), ~t.dark, ~t.fn, ~FnKeyComb(t, code)
    PROVE  Sounded(t, DispatchKey(t, code, ext, down, limited), code, ext, down)
<1> DEFINE Good(u) == Sounded(t, u, code, ext, down)
<1>0. Quiet(t, t) BY QuietAtFirst
<1>1. ASSUME NEW u, Quiet(t, u), t.toggle \/ code \in Silent PROVE Good(u)
    BY <1>1 DEF Quiet, Sounded
<1>2. CASE t.toggle
    <2>1. Good(ToggleTouchpadFeatures(t, code, down)) /\ Good(t)
        BY <1>0, <1>1, <1>2, NotificationsQuiet DEF ToggleTouchpadFeatures
    <2>2. Good(ShowTouchPressureWidth([t EXCEPT !.toggle = FALSE]))
        BY <1>2 DEF Sounded, Kinds, Remaining, ShowTouchPressureWidth
    <2> HIDE DEF Good
    <2>3. Good(FeatureToggle(t, code, ext, down, limited)) BY <2>1, <2>2 DEF FeatureToggle
    <2>4. Good(DispatchKey(t, code, ext, down, limited)) BY <1>2, <2>3 DEF DispatchKey
    <2> QED BY <2>4 DEF Good
<1>3. CASE ~t.toggle /\ code = NoCode
    BY <1>0, <1>1, <1>3 DEF DispatchKey, Silent
<1>4. CASE ~t.toggle /\ code # NoCode
    <2> DEFINE news == ModifierNews(t)
               normal == Dispatch(t, <<code, ext>>, down)
    <2>1. Quiet(t, news) /\ news.app = t.app BY NewsQuiet
    <2> HIDE DEF news
    <2>2. code = "menu" => Good(ModifierKey(t, code, ext, down))
        BY <1>1, <2>1 DEF ModifierKey, Silent, news
    <2>3. code \in Modifiers => Good(ModifierKey(t, code, ext, down))
        <3> SUFFICES ASSUME code \in Modifiers PROVE Good(ModifierKey(t, code, ext, down))
            OBVIOUS
        <3>1. code \notin Silent BY DEF Modifiers, Silent, NoCode
        <3>2. Kinds(news) /\ ~news.toggle BY <1>4, <2>1 DEF Quiet
        <3>3. Sounded(news, Dispatch(news, <<code, ext>>, down), code, ext, down)
            BY <3>1, <3>2, KeysSounded
        <3>4. ModifierKey(t, code, ext, down) = Dispatch(news, <<code, ext>>, down)
            BY <3>1 DEF ModifierKey, Silent, news
        <3> QED BY <2>1, <3>3, <3>4 DEF Sounded, Quiet, Remaining
    <2>4. code \notin Modifiers /\ code # "menu" => Good(NormalKey(t, code, ext, down))
        <3> SUFFICES ASSUME code # "menu" PROVE Good(NormalKey(t, code, ext, down))
            OBVIOUS
        <3> DEFINE u == Dispatch(t, <<code, ext>>, down)
        <3>1. Good(u)
            <4>1. CASE code = "caps"
                <5>1. u = t BY <4>1 DEF Dispatch
                <5> QED BY <1>0, <1>1, <4>1, <5>1 DEF Silent
            <4>2. CASE code # "caps" BY <1>4, <4>2, KeysSounded DEF Silent
            <4> QED BY <4>1, <4>2
        <3> HIDE DEF u
        <3>2. Good(EnableTouchpad(u))
            <4>1. Kinds(u) BY <3>1 DEF Sounded
            <4>2. EnableTouchpad(u).sys = u.sys /\ EnableTouchpad(u).app = u.app
                BY <4>1 DEF EnableTouchpad, Kinds
            <4>3. Quiet(u, EnableTouchpad(u)) BY <4>1, QuietAtFirst, NotificationsQuiet
            <4> QED BY <3>1, <4>2, <4>3 DEF Sounded, Quiet, Remaining
        <3> HIDE DEF Good
        <3>3. NormalKey(t, code, ext, down) \in {u, EnableTouchpad(u)} BY DEF NormalKey, u
        <3> QED BY <3>1, <3>2, <3>3
    <2> HIDE DEF Good, news
    <2>5. Good(DispatchKey(t, code, ext, down, limited))
        BY <1>4, <2>2, <2>3, <2>4 DEF DispatchKey
    <2> QED BY <2>5 DEF Good
<1> QED BY <1>2, <1>3, <1>4

---------------------------------------------------------------------------
(* Keyboards on which what goes down comes up as it went down.               *)

\* What a key is dispatched as on a keyboard.
SentAs(board, numlock, key) ==
    LET code == CodeOn(board, key)
    IN  <<IF code = "numlock" /\ ~board.clear THEN NoCode
          ELSE IF code = "menu" /\ board.menu = "rwin" /\ board.mac THEN "alt"
          ELSE IF code = "menu" THEN board.menu
          ELSE code,
          IF board.mac /\ key \in DOMAIN MacSwap THEN MacSwap[key][2]
          ELSE IF key = "num7" THEN ~numlock
          ELSE key \in Extended>>

LEMMA KeysSent ==
    ASSUME NEW t, NEW key
    PROVE  /\ SentAs(kb, t.numlock, key) = <<SpecialCode(CodeOn(kb, key)), KeyCode(t, key)[2]>>
           /\ CodeOn(kb, key) \in FunctionKeys \cup Fx \cup {"menu", "numlock", "caps"} => CodeOn(kb, key) = key
<1>1. /\ DOMAIN MacSwap = {"alt", "ralt", "win", "rwin"}
      /\ MacSwap["alt"] = <<"win", TRUE>> /\ MacSwap["ralt"] = <<"rwin", TRUE>>
      /\ MacSwap["win"] = <<"alt", FALSE>> /\ MacSwap["rwin"] = <<"alt", TRUE>>
    BY DEF MacSwap
<1>2. /\ DOMAIN Twin = {"ralt", "rctrl", "home"}
      /\ Twin["ralt"] = "alt" /\ Twin["rctrl"] = "ctrl" /\ Twin["home"] = "num7"
    BY DEF Twin
<1>3. CodeOn(kb, key) \in FunctionKeys \cup Fx \cup {"menu", "numlock", "caps"} => CodeOn(kb, key) = key
    BY <1>1, <1>2 DEF CodeOn, FunctionKeys, Fx
<1>4. SpecialCode(CodeOn(kb, key)) =
          IF CodeOn(kb, key) = "numlock" /\ ~kb.clear THEN NoCode
          ELSE IF CodeOn(kb, key) = "menu" /\ kb.menu = "rwin" /\ kb.mac THEN "alt"
          ELSE IF CodeOn(kb, key) = "menu" THEN kb.menu
          ELSE CodeOn(kb, key)
    BY DEF SpecialCode
<1>5. KeyCode(t, key)[2] =
          IF kb.mac /\ key \in DOMAIN MacSwap THEN MacSwap[key][2]
          ELSE IF key = "num7" THEN ~t.numlock
          ELSE key \in Extended
    BY <1>1, <1>2, Zenon DEF KeyCode, Extended
<1> QED BY <1>3, <1>4, <1>5, Zenon DEF SentAs

\* A keyboard is steady if no function keys are in use, no key has the function
\* of its German letter with ALT, and the combination with tab, which presses
\* the left control key again, finds neither the right one in its place nor the
\* feature toggle mode.
On(code) == \E key \in kb.keys : CodeOn(kb, key) = code
Toggles  == {"lshift", "caps"} \subseteq kb.keys

Steady ==
    /\ Untangled
    /\ kb.mode = 0 \/ kb.keys \cap FunctionKeys = {}
    /\ kb.ext => kb.keys \cap (Fx \cup {"f9"}) = {}
    /\ "menu" \in kb.keys /\ kb.menu = "fn" => kb.mode < 2
    /\ kb.german /\ "q" \in kb.keys => ~On("alt")
    /\ "tab" \in kb.keys /\ On(Modifier("tab")) => "rctrl" \notin kb.keys /\ (Toggles => "ctrl" \notin kb.keys)

\* What a key event makes of the keys down for the system on such a keyboard.
Signals(t, u, key, down) ==
    LET sent == SentAs(kb, t.numlock, key)
        swallowed == Swallowed(t, key, down)
    IN  /\ Kinds(u) /\ ~u.dark /\ ~u.fn
        /\ \A k \in u.sys :
              \/ k \in Remaining(t, u)
              \/ k = sent /\ down /\ ~swallowed /\ ~u.toggle /\ k[1] \notin Silent
              \/ k = Control /\ key = "tab" /\ down /\ swallowed /\ CtrlDown(t)
        /\ ~down /\ ~swallowed /\ ~t.toggle /\ sent[1] \notin Silent => sent \notin u.sys
        /\ u.numlock = t.numlock \/ (down /\ key = "numlock" /\ ~kb.clear)
        /\ u.toggle = t.toggle \/ ~u.toggle \/ (down /\ Shift \notin u.sys /\ {"lshift", "caps"} \subseteq u.bits)

LEMMA CombinationsSignalled ==
    ASSUME NEW t, NEW key, NEW down \in BOOLEAN, Kinds(t), ~t.dark, ~t.fn, key # "q",
           Swallowed(t, key, down)
    PROVE  Signals(t, Combination(t, key, down), key, down)
<1> DEFINE Good(u) == Signals(t, u, key, down)
<1>0. Quiet(t, t) BY QuietAtFirst
<1>1. ASSUME NEW u, Quiet(t, u) PROVE Good(u)
    BY <1>1 DEF Quiet, Signals, Remaining
<1>2. Good(t) /\ Good(SwitchTouchpad(t)) /\ \A modifiers : Good(Chord(t, modifiers))
    BY <1>0, <1>1, NotificationsQuiet, EventsQuiet
<1>3. key = "tab" /\ down /\ CtrlDown(t) => Good(Dispatch(t, Control, TRUE))
    <2>1. Dispatch(t, Control, TRUE) = [t EXCEPT !.sys = @ \cup {Control}] BY DEF Dispatch, Control
    <2> QED BY <2>1 DEF Signals, Kinds, Remaining
<1> HIDE DEF Good
<1>4. Good(Combination(t, key, down)) BY <1>2, <1>3, Zenon DEF Combination
<1> QED BY <1>4 DEF Good

\* The same of a key event past the swallowed ones; t has the key's new bit.
Handled(t, u, key, down) ==
    LET sent == <<SpecialCode(CodeOn(kb, key)), KeyCode(t, key)[2]>>
    IN  /\ Kinds(u) /\ ~u.dark /\ ~u.fn
        /\ \A k \in u.sys :
              \/ k \in Remaining(t, u)
              \/ k = sent /\ down /\ ~u.toggle /\ k[1] \notin Silent
        /\ ~down /\ ~t.toggle /\ sent[1] \notin Silent => sent \notin u.sys
        /\ u.numlock = t.numlock \/ (down /\ key = "numlock" /\ ~kb.clear)
        /\ u.toggle = t.toggle \/ ~u.toggle \/ (down /\ Shift \notin u.sys /\ {"lshift", "caps"} \subseteq u.bits)

LEMMA KeysSignalled ==
    ASSUME NEW t, NEW key \in kb.keys, NEW down \in BOOLEAN, NEW limited,
           Kinds(t), ~t.dark, ~t.fn, kb \in Keyboards, Steady,
           down => CodeOn(kb, key) \in t.bits
    PROVE  Handled(t, HandleKey(t, CodeOn(kb, key), KeyCode(t, key)[2], down, limited), key, down)
<1> DEFINE code == CodeOn(kb, key)
           ext  == KeyCode(t, key)[2]
           u    == HandleKey(t, code, ext, down, limited)
           c    == SpecialCode(code)
           w    == SpecialKey(t, code, ext, down)
<1>1. code \in FunctionKeys \cup Fx \cup {"menu", "numlock", "caps"} => code = key
    BY KeysSent
<1>2. kb.menu \in {"menu", "rwin", "fn"} /\ kb.mode \in 0..3
    BY KeyboardsAssumption
<1>3. ~ExtendedFunction(t, code)
    BY <1>1 DEF ExtendedFunction, Steady, FunctionKeys
<1>4. ~(code = "menu" /\ kb.menu = "fn" /\ kb.mode > 1)
    BY <1>1, <1>2 DEF Steady
<1>5. c = code \/ c \in {NoCode, "alt", "menu", "rwin", "fn"}
    BY <1>2 DEF SpecialCode
<1> HIDE DEF code, ext, c
<1>6. ~FnKeyComb(w, c)
    <2>1. kb.mode > 0 => code \notin FunctionKeys BY <1>1, <1>2 DEF Steady
    <2> QED BY <1>2, <1>5, <2>1 DEF FnKeyComb, FunctionKeys, NoCode
<1>7. Spoken(t, w, code, down) BY SpecialKeysSpoken DEF code
<1> HIDE DEF w
<1>8. Kinds(w) /\ ~w.dark /\ ~w.fn BY <1>4, <1>7 DEF Spoken
<1>9. u = DispatchKey(w, c, ext, down, limited) BY <1>3 DEF HandleKey, w, c
<1>10. Sounded(w, u, c, ext, down) BY <1>6, <1>8, <1>9, DispatchedKeysSounded
<1> HIDE DEF u
<1>11. \A k \in u.sys :
          \/ k \in Remaining(t, u)
          \/ k = <<c, ext>> /\ down /\ ~u.toggle /\ k[1] \notin Silent
    BY <1>7, <1>10 DEF Spoken, Sounded, Remaining, Kinds
<1>12. ~down /\ ~t.toggle /\ c \notin Silent => <<c, ext>> \notin u.sys
    BY <1>7, <1>10 DEF Spoken, Sounded
<1>13. u.toggle = t.toggle \/ ~u.toggle
       \/ (down /\ Shift \notin u.sys /\ {"lshift", "caps"} \subseteq u.bits)
    BY <1>7, <1>8, <1>10 DEF Spoken, Sounded, Kinds, Remaining
<1>14. u.numlock = t.numlock \/ (down /\ key = "numlock" /\ ~kb.clear)
    BY <1>1, <1>7, <1>10 DEF Spoken, Sounded
<1>15. Kinds(u) /\ ~u.dark /\ ~u.fn
    BY <1>7, <1>8, <1>10 DEF Spoken, Sounded
<1> QED BY <1>11, <1>12, <1>13, <1>14, <1>15 DEF Handled, u, c, code, ext

LEMMA KeyEventsSignalled ==
    ASSUME NEW t, NEW key \in kb.keys, NEW down \in BOOLEAN, NEW limited,
           Kinds(t), ~t.dark, ~t.fn, kb \in Keyboards, Steady,
           kb.german /\ key = "q" => ~AltDown(t)
    PROVE  Signals(t, KeyEvent(t, key, down, limited), key, down)
<1> DEFINE code == CodeOn(kb, key)
           o    == IF down /\ key = "break" THEN Dispatch(t, Control, FALSE) ELSE t
           v    == [o EXCEPT !.bits = IF down THEN @ \cup {code} ELSE @ \ {code}]
           ext  == KeyCode(t, key)[2]
           u    == HandleKey(v, code, ext, down, limited)
           sent == SentAs(kb, t.numlock, key)
<1>0. sent = <<SpecialCode(code), ext>> BY KeysSent
<1>1. KeyCode(t, key)[1] = code BY CodesOfKeys
<1>2. Quiet(t, o) /\ o.app = t.app
    <2>1. Quiet(t, t) BY QuietAtFirst
    <2>2. Dispatch(t, Control, FALSE) = [t EXCEPT !.sys = @ \ {Control}] BY DEF Dispatch, Control
    <2> QED BY <2>1, <2>2, EventsQuiet DEF Kinds
<1>3. KeyEvent(t, key, down, limited) =
          IF Swallowed(t, key, down) THEN Combination(t, key, down)
          ELSE IF down /\ code \in t.bits /\ ~MayRepeat(t, code) THEN o
          ELSE u
    BY <1>1 DEF KeyEvent
<1> HIDE DEF code, o, ext, sent
<1>4. CASE Swallowed(t, key, down)
    <2>1. key # "q" BY <1>4 DEF Swallowed
    <2> QED BY <1>3, <1>4, <2>1, CombinationsSignalled
<1>5. CASE ~Swallowed(t, key, down) /\ down /\ code \in t.bits /\ ~MayRepeat(t, code)
    BY <1>2, <1>3, <1>5 DEF Signals, Quiet, Remaining
<1>6. CASE ~Swallowed(t, key, down) /\ ~(down /\ code \in t.bits /\ ~MayRepeat(t, code))
    <2>1. /\ Kinds(v) /\ v.sys = o.sys /\ v.app = o.app /\ v.toggle = t.toggle /\ ~v.dark /\ ~v.fn
          /\ v.numlock = t.numlock /\ (down => code \in v.bits)
        BY <1>2 DEF Quiet, Kinds
    <2>2. KeyCode(v, key)[2] = ext BY <2>1 DEF ext, KeyCode
    <2> HIDE DEF v
    <2>3. Handled(v, u, key, down) BY <2>1, <2>2, KeysSignalled DEF code
    <2>4. KeyEvent(t, key, down, limited) = u BY <1>3, <1>6
    <2> HIDE DEF u
    <2>5. sent = <<SpecialCode(CodeOn(kb, key)), KeyCode(v, key)[2]>> BY <1>0, <2>2 DEF code
    <2>6. Remaining(v, u) \subseteq Remaining(t, u)
        BY <1>2, <2>1 DEF Remaining, Quiet
    <2> QED BY <1>6, <2>1, <2>3, <2>4, <2>5, <2>6 DEF Signals, Handled, sent
<1> QED BY <1>4, <1>5, <1>6

LEMMA CodesSent ==
    ASSUME NEW board, NEW key
    PROVE  /\ \A n, m : SentAs(board, n, key)[1] = SentAs(board, m, key)[1]
           /\ key # "num7" => \A n, m : SentAs(board, n, key) = SentAs(board, m, key)
           /\ key = "lshift" => \A n : SentAs(board, n, key) = Shift
           /\ key = "ctrl" => \A n : SentAs(board, n, key) = Control
           /\ key = "caps" => \A n : SentAs(board, n, key)[1] \in Silent
           /\ key = "numlock" /\ ~board.clear => \A n : SentAs(board, n, key)[1] \in Silent
           /\ CodeOn(board, key) = "ctrl" => key \in {"ctrl", "rctrl"}
           /\ CodeOn(board, key) \in {"lshift", "caps"} => CodeOn(board, key) = key
<1>1. /\ DOMAIN MacSwap = {"alt", "ralt", "win", "rwin"}
      /\ MacSwap["alt"] = <<"win", TRUE>> /\ MacSwap["ralt"] = <<"rwin", TRUE>>
      /\ MacSwap["win"] = <<"alt", FALSE>> /\ MacSwap["rwin"] = <<"alt", TRUE>>
    BY DEF MacSwap
<1>2. /\ DOMAIN Twin = {"ralt", "rctrl", "home"}
      /\ Twin["ralt"] = "alt" /\ Twin["rctrl"] = "ctrl" /\ Twin["home"] = "num7"
    BY DEF Twin
<1>3. \A n, m : SentAs(board, n, key)[1] = SentAs(board, m, key)[1] BY DEF SentAs
<1>4. key # "num7" => \A n, m : SentAs(board, n, key) = SentAs(board, m, key)
    BY Zenon DEF SentAs
<1>5. key \in {"lshift", "ctrl", "caps", "numlock"} => CodeOn(board, key) = key /\ key \notin DOMAIN MacSwap
    BY <1>1, <1>2 DEF CodeOn
<1>6. key \in {"lshift", "ctrl"} => \A n : SentAs(board, n, key) = <<key, FALSE>>
    <2>1. key \in {"lshift", "ctrl"} => key \notin {"num7", "numlock", "menu"} \cup Extended
        BY DEF Extended
    <2>2. key \in {"lshift", "ctrl"} => (key \in Extended) = FALSE BY <2>1
    <2> QED BY <1>5, <2>1, <2>2, Zenon DEF SentAs
<1>7. /\ key = "caps" => \A n : SentAs(board, n, key)[1] = "caps"
      /\ key = "numlock" /\ ~board.clear => \A n : SentAs(board, n, key)[1] = NoCode
    BY <1>5 DEF SentAs
<1>8. /\ CodeOn(board, key) = "ctrl" => key \in {"ctrl", "rctrl"}
      /\ CodeOn(board, key) \in {"lshift", "caps"} => CodeOn(board, key) = key
    BY <1>1, <1>2 DEF CodeOn
<1> QED BY <1>3, <1>4, <1>6, <1>7, <1>8 DEF Shift, Control, Silent

\* What was down when something else than a key came in between, by code.
LostAs(code) == \E key \in lost : SentAs(kb, TRUE, key)[1] = code

\* A key that will be let go for the system as it was pressed.
HeldAs(k) == \E key \in HeldKeys : SentAs(kb, s.numlock, key) = k /\ (key \in Swallowable => key \in s.bits)

Accounted(k) ==
    /\ k[1] \notin Silent
    /\ \/ LostAs(k[1])
       \/ k = Command /\ s.app
       \/ Heeded /\ HeldAs(k)

\* Every key that is down for the system is lost, a gesture's command, or held.
AllAccounted ==
    /\ kb \in Keyboards /\ Kinds(s) /\ ~s.dark /\ ~s.fn
    /\ s.toggle => Toggles
    /\ \A k \in s.sys : Accounted(k)

SystemInv == VectorInv /\ (Steady => AllAccounted)

LEMMA SystemAtFirst == Init => SystemInv
<1> SUFFICES ASSUME Init PROVE SystemInv
    OBVIOUS
<1>1. s.sys = {} /\ kb \in Keyboards /\ Kinds(s) /\ ~s.dark /\ ~s.fn /\ ~s.toggle
    BY DEF Init, InitState, Kinds
<1> QED BY <1>1, VectorAtFirst DEF SystemInv, AllAccounted

LEMMA AccountedAfterKey ==
    ASSUME VectorInv, VectorInv', Steady, AllAccounted,
           NEW key \in kb.keys, NEW down \in BOOLEAN, NEW limited, KeyStep(key, down, limited),
           ~down /\ Swallowed(s, key, FALSE) => CodeOn(kb, key) \notin s.bits
    PROVE  AllAccounted'
<1> DEFINE sent == SentAs(kb, s.numlock, key)
           swallowed == Swallowed(s, key, down)
<1>1. /\ awake /\ awake' = awake /\ kb' = kb /\ lost \subseteq lost'
      /\ down /\ s'.toggle /\ ~s.toggle => HeldKeys \ {"lshift", "caps"} \subseteq lost'
      /\ down /\ s'.numlock # s.numlock => HeldKeys \cap {"num7"} \subseteq lost'
      /\ IF down THEN HeldKeys \cup {key} \subseteq HeldKeys' ELSE HeldKeys \ {key} \subseteq HeldKeys'
    BY DEF KeyStep
<1>2. /\ held \in Seq(kb.keys) /\ held' \in Seq(kb.keys) /\ Informed(s)
      /\ HeldKeys \subseteq kb.keys /\ HeldKeys' \subseteq kb.keys
    BY <1>1 DEF VectorInv, BelievedInv, HeldKeys, ToSet
<1>3. Backed /\ Backed'
    BY <1>1 DEF VectorInv, Steady, Untangled, Combined, Modifier
<1>4. Effect(s, s', key, down) BY <1>2, KeyEventsHeard DEF KeyStep
<1>5. s'.bits = IF swallowed THEN s.bits ELSE IF down THEN s.bits \cup {CodeOn(kb, key)} ELSE s.bits \ {CodeOn(kb, key)}
    BY <1>4 DEF Effect
<1>6. Signals(s, s', key, down)
    <2>1. kb.german /\ key = "q" => ~AltDown(s)
        <3>1. "alt" \in s.bits => On("alt") BY <1>2, <1>3 DEF Backed, Holds, On
        <3> QED BY <3>1 DEF Steady, AltDown
    <2> QED BY <2>1, KeyEventsSignalled DEF KeyStep, AllAccounted
<1>7. /\ Kinds(s') /\ ~s'.dark /\ ~s'.fn
      /\ \A k \in s'.sys :
            \/ k \in Remaining(s, s')
            \/ k = sent /\ down /\ ~swallowed /\ ~s'.toggle /\ k[1] \notin Silent
            \/ k = Control /\ key = "tab" /\ down /\ swallowed /\ CtrlDown(s)
      /\ ~down /\ ~swallowed /\ ~s.toggle /\ sent[1] \notin Silent => sent \notin s'.sys
      /\ s'.numlock = s.numlock \/ (down /\ key = "numlock" /\ ~kb.clear)
      /\ s'.toggle = s.toggle \/ ~s'.toggle \/ (down /\ Shift \notin s'.sys /\ {"lshift", "caps"} \subseteq s'.bits)
    BY <1>6 DEF Signals
<1>8. Swallowed(s, key, down) => key \in Swallowable BY DEF Swallowed, Swallowable
<1>9. \A h : (h \in Swallowable => CodeOn(kb, h) = h) /\ (CodeOn(kb, h) \in Swallowable => CodeOn(kb, h) = h)
    BY CodesOfKeys, Swallowing
<1>10. s.toggle \in BOOLEAN /\ s'.toggle \in BOOLEAN BY <1>7 DEF AllAccounted, Kinds
<1> HIDE DEF sent, swallowed
<1>11. s'.toggle => Toggles'
    <2>1. CASE s.toggle BY <1>1, <2>1 DEF AllAccounted, Toggles
    <2>2. CASE ~s.toggle
        <3>1. s'.toggle => {"lshift", "caps"} \subseteq s'.bits BY <1>7, <1>10, <2>2
        <3>2. ASSUME NEW c \in {"lshift", "caps"}, c \in s'.bits PROVE c \in kb.keys
            <4>1. PICK k \in HeldKeys' : CodeOn(kb, k) = c BY <1>1, <1>3, <3>2 DEF Backed, Holds
            <4>2. k = c BY <4>1, CodesSent
            <4> QED BY <1>2, <4>1, <4>2
        <3> QED BY <1>1, <3>1, <3>2 DEF Toggles
    <2> QED BY <2>1, <2>2
<1>12. ASSUME NEW k \in s'.sys PROVE Accounted(k)'
    <2>1. CASE k \in Remaining(s, s')
        <3>1. k \in s.sys /\ Accounted(k) BY <2>1 DEF Remaining, AllAccounted
        <3>2. CASE LostAs(k[1]) BY <1>1, <3>1, <3>2 DEF Accounted, LostAs
        <3>3. CASE k = Command /\ s.app
            BY <2>1, <3>1, <3>3 DEF Accounted, Remaining
        <3>4. CASE Heeded /\ HeldAs(k)
            <4>1. PICK h \in HeldKeys : SentAs(kb, s.numlock, h) = k /\ (h \in Swallowable => h \in s.bits)
                BY <3>4 DEF HeldAs
            <4>2. CASE h \in lost'
                <5>1. \A n, m : SentAs(kb, n, h)[1] = SentAs(kb, m, h)[1] BY CodesSent
                <5>2. SentAs(kb, TRUE, h)[1] = k[1]
                    <6>1. SentAs(kb, TRUE, h)[1] = SentAs(kb, s.numlock, h)[1] BY <5>1
                    <6> QED BY <4>1, <6>1
                <5> QED BY <1>1, <3>1, <4>2, <5>2 DEF Accounted, LostAs
            <4>3. CASE h \notin lost'
                <5>1. ~s'.toggle
                    <6>1. SUFFICES ASSUME s'.toggle PROVE FALSE
                        OBVIOUS
                    <6>2. ~s.toggle BY <3>4 DEF Heeded
                    <6>3. down /\ Shift \notin s'.sys /\ h \in {"lshift", "caps"}
                        BY <1>1, <1>7, <1>10, <4>3, <6>1, <6>2
                    <6> QED BY <3>1, <4>1, <6>3, CodesSent DEF Accounted
                <5>2. SentAs(kb, s'.numlock, h) = k
                    <6>1. CASE s'.numlock = s.numlock BY <4>1, <6>1
                    <6>2. CASE s'.numlock # s.numlock
                        <7>1. h # "num7" BY <1>1, <1>7, <4>3, <6>2
                        <7> QED BY <4>1, <7>1, CodesSent
                    <6> QED BY <6>1, <6>2
                <5>3. ~(~down /\ h = key)
                    <6>1. SUFFICES ASSUME ~down, h = key PROVE FALSE
                        OBVIOUS
                    <6>2. sent = k BY <4>1, <6>1 DEF sent
                    <6>3. ~swallowed BY <1>8, <1>9, <4>1, <6>1 DEF swallowed
                    <6>4. ~s.toggle /\ k[1] \notin Silent BY <3>1, <3>4 DEF Heeded, Accounted
                    <6> QED BY <1>7, <6>1, <6>2, <6>3, <6>4
                <5>4. h \in HeldKeys' BY <1>1, <5>3
                <5>5. h \in Swallowable => h \in s'.bits BY <1>5, <1>9, <4>1, <5>3
                <5> QED BY <1>1, <1>7, <3>1, <5>1, <5>2, <5>4, <5>5 DEF Accounted, Heeded, HeldAs
            <4> QED BY <4>2, <4>3
        <3> QED BY <3>1, <3>2, <3>3, <3>4 DEF Accounted
    <2>2. CASE k = sent /\ down /\ ~swallowed /\ ~s'.toggle /\ k[1] \notin Silent
        <3>1. s'.numlock = s.numlock BY <1>7, <2>2, CodesSent DEF sent
        <3>2. key \in HeldKeys' /\ (key \in Swallowable => key \in s'.bits)
            BY <1>1, <1>5, <1>9, <2>2
        <3>3. SentAs(kb', s'.numlock, key) = k BY <1>1, <2>2, <3>1 DEF sent
        <3> QED BY <1>1, <1>7, <2>2, <3>2, <3>3 DEF Accounted, Heeded, HeldAs
    <2>3. CASE k = Control /\ key = "tab" /\ down /\ swallowed /\ CtrlDown(s)
        <3>1. Modifier("tab") \in s.bits
            <4>1. swallowed => (key \in Combined /\ Modifier(key) \in s.bits) \/ key \in {"volume", "touch", "print", "del"}
                BY Swallowing DEF swallowed
            <4> QED BY <2>3, <4>1
        <3>2. On(Modifier("tab")) BY <1>2, <1>3, <3>1 DEF Backed, Holds, On
        <3>3. PICK h \in HeldKeys : CodeOn(kb, h) = "ctrl" BY <1>3, <2>3 DEF Backed, Holds, CtrlDown
        <3>4. h = "ctrl" /\ "ctrl" \in kb.keys /\ ~Toggles
            <4>1. h \in {"ctrl", "rctrl"} /\ h \in kb.keys BY <1>2, <3>3, CodesSent
            <4> QED BY <2>3, <3>2, <4>1 DEF Steady
        <3>5. ~s'.toggle BY <1>1, <1>11, <3>4 DEF Toggles
        <3>6. h \in HeldKeys' /\ SentAs(kb', s'.numlock, h) = k /\ h \notin Swallowable
            BY <1>1, <2>3, <3>4, CodesSent DEF Swallowable
        <3>7. k[1] \notin Silent BY <2>3 DEF Control, Silent, NoCode
        <3> QED BY <1>1, <1>7, <3>5, <3>6, <3>7 DEF Accounted, Heeded, HeldAs
    <2> QED BY <1>7, <2>1, <2>2, <2>3
<1> QED BY <1>1, <1>7, <1>11, <1>12 DEF AllAccounted

LEMMA SystemStays == SystemInv /\ [Next]_vars => SystemInv'
<1> SUFFICES ASSUME SystemInv, [Next]_vars PROVE SystemInv'
    OBVIOUS
<1>0. /\ VectorInv /\ VectorInv' /\ BelievedInv
      /\ held \in Seq(kb.keys) /\ HeldKeys \subseteq kb.keys /\ (repeats => awake /\ held # <<>>)
    BY VectorStays DEF SystemInv, VectorInv, BelievedInv, HeldKeys, ToSet
<1>1. kb' = kb
    BY DEF Next, Press, LetGo, Repeat, Sleep, Wake, AppSwitch, EndAppSwitch, Gesture, vars
<1>2. SUFFICES ASSUME Steady PROVE AllAccounted'
    BY <1>0, <1>1 DEF SystemInv, Steady, Untangled, Combined, Modifier, On, Toggles
<1>3. AllAccounted BY <1>2 DEF SystemInv
<1>4. ASSUME NEW key \in Keys, Press(key), awake PROVE AllAccounted'
    <2>1. PICK limited : KeyStep(key, TRUE, limited) BY <1>0, <1>4, KeySteps
    <2>2. key \in kb.keys BY <1>4 DEF Press
    <2> QED BY <1>0, <1>2, <1>3, <2>1, <2>2, AccountedAfterKey
<1>5. CASE Repeat
    <2>1. awake /\ Last(held) \in kb.keys BY <1>0, <1>5 DEF Repeat, Last
    <2>2. PICK limited : KeyStep(Last(held), TRUE, limited) BY <1>0, <1>5, <2>1, KeySteps
    <2> QED BY <1>0, <1>2, <1>3, <2>1, <2>2, AccountedAfterKey
<1>6. ASSUME NEW key \in Keys, LetGo(key), awake PROVE AllAccounted'
    <2>1. PICK i \in DOMAIN held : held[i] = key /\ (kb.nested => i = Len(held))
        BY <1>6 DEF LetGo
    <2>2. Backed /\ Layered /\ Untangled BY <1>0, <1>2, <1>6 DEF VectorInv, Steady
    <2>3. Swallowed(s, key, FALSE) => CodeOn(kb, key) \notin s.bits
        BY <1>0, <2>1, <2>2, SwallowedReleases
    <2>4. KeyStep(key, FALSE, FALSE) BY <1>0, <1>6, KeySteps
    <2>5. key \in kb.keys BY <1>0, <2>1
    <2> QED BY <1>0, <1>2, <1>3, <2>3, <2>4, <2>5, AccountedAfterKey
\* What happens between key events lets keys come up only, or presses command.
<1>7. ASSUME Quiet(s, s'), lost \subseteq lost', ~Heeded \/ (Heeded' /\ UNCHANGED held) \/ HeldKeys \subseteq lost'
      PROVE  AllAccounted'
    <2>1. ASSUME NEW k \in s'.sys PROVE Accounted(k)'
        <3>1. k \in s.sys /\ k \in Remaining(s, s') /\ Accounted(k)
            BY <1>3, <1>7, <2>1 DEF Quiet, Remaining, AllAccounted
        <3>2. CASE LostAs(k[1]) BY <1>1, <1>7, <3>1, <3>2 DEF Accounted, LostAs
        <3>3. CASE k = Command /\ s.app BY <3>1, <3>3 DEF Accounted, Remaining
        <3>4. CASE Heeded /\ HeldAs(k)
            <4>1. PICK h \in HeldKeys : SentAs(kb, s.numlock, h) = k /\ (h \in Swallowable => h \in s.bits)
                BY <3>4 DEF HeldAs
            <4>2. CASE h \in lost'
                <5>1. \A n, m : SentAs(kb, n, h)[1] = SentAs(kb, m, h)[1] BY CodesSent
                <5>2. SentAs(kb, TRUE, h)[1] = SentAs(kb, s.numlock, h)[1] BY <5>1
                <5> QED BY <1>1, <3>1, <4>1, <4>2, <5>2 DEF Accounted, LostAs
            <4>3. CASE Heeded' /\ UNCHANGED held
                <5>1. HeldAs(k)' BY <1>1, <1>7, <4>1, <4>3 DEF HeldAs, HeldKeys, Quiet
                <5> QED BY <3>1, <4>3, <5>1 DEF Accounted
            <4> QED BY <1>7, <3>4, <4>1, <4>2, <4>3
        <3> QED BY <3>1, <3>2, <3>3, <3>4 DEF Accounted
    <2> QED BY <1>1, <1>3, <1>7, <2>1 DEF AllAccounted, Quiet, Toggles
<1>8. Quiet(s, s) BY <1>3, QuietAtFirst DEF AllAccounted
<1>9. ASSUME NEW key \in Keys, Press(key) \/ LetGo(key), ~awake PROVE AllAccounted'
    <2>1. s' = s /\ lost \subseteq lost' BY <1>9 DEF Press, LetGo
    <2> QED BY <1>7, <1>8, <1>9, <2>1 DEF Heeded
<1>10. CASE Sleep BY <1>7, <1>8, <1>10 DEF Sleep
<1>11. CASE Wake
    <2>1. s' = Woken(s) /\ ~awake /\ lost' = lost /\ held' = held /\ awake' BY <1>11 DEF Wake
    <2>2. /\ Kinds(s') /\ s'.sys = s.sys /\ s'.app = s.app /\ s'.dark = s.dark /\ s'.fn = s.fn
          /\ s'.toggle = s.toggle
        BY <1>3, <2>1 DEF AllAccounted, Kinds, Woken
    <2>3. ASSUME NEW k \in s.sys PROVE Accounted(k)'
        <3>1. k[1] \notin Silent /\ (LostAs(k[1]) \/ (k = Command /\ s.app))
            BY <1>3, <2>1 DEF AllAccounted, Accounted, Heeded
        <3> QED BY <1>1, <2>1, <2>2, <3>1 DEF Accounted, LostAs
    <2> QED BY <1>1, <1>3, <2>2, <2>3 DEF AllAccounted, Toggles
<1>12. CASE AppSwitch
    <2>1. s' = [s EXCEPT !.app = TRUE, !.gesture = TRUE, !.sys = @ \cup {Command}] /\ UNCHANGED <<held, lost, awake>>
        BY <1>12 DEF AppSwitch
    <2>2. /\ Kinds(s') /\ s'.sys = s.sys \cup {Command} /\ s'.app /\ s'.dark = s.dark /\ s'.fn = s.fn
          /\ s'.toggle = s.toggle /\ s'.bits = s.bits /\ s'.numlock = s.numlock
        BY <1>3, <2>1 DEF AllAccounted, Kinds
    <2>3. ASSUME NEW k \in s.sys PROVE Accounted(k)'
        BY <1>1, <1>3, <2>1, <2>2 DEF AllAccounted, Accounted, LostAs, Heeded, HeldAs, HeldKeys
    <2>4. Accounted(Command)' BY <2>2 DEF Accounted, Command, Silent, NoCode
    <2> QED BY <1>1, <1>3, <2>2, <2>3, <2>4 DEF AllAccounted, Toggles
<1>13. CASE EndAppSwitch
    <2>1. s' = [ReleaseCmdKey(s) EXCEPT !.app = FALSE] /\ UNCHANGED <<held, lost, awake>>
        BY <1>13 DEF EndAppSwitch
    <2>2. Quiet(s, s') BY <1>3, <2>1 DEF AllAccounted, ReleaseCmdKey, Quiet, Kinds, Remaining
    <2> QED BY <1>7, <2>1, <2>2 DEF Heeded, Quiet
<1>14. CASE Gesture
    <2>1. UNCHANGED <<held, lost, awake>> BY <1>14 DEF Gesture
    <2>2. PICK modifiers : s' = Chord(s, modifiers) BY <1>14 DEF Gesture
    <2>3. Quiet(s, Chord(s, modifiers)) BY <1>8, EventsQuiet
    <2> QED BY <1>7, <2>1, <2>2, <2>3 DEF Heeded, Quiet
<1>15. CASE UNCHANGED vars
    <2>1. UNCHANGED <<held, lost, awake>> /\ s' = s BY <1>15 DEF vars
    <2> QED BY <1>7, <1>8, <2>1 DEF Heeded
<1>16. awake \in BOOLEAN BY <1>0 DEF BelievedInv
<1> QED BY <1>4, <1>5, <1>6, <1>9, <1>10, <1>11, <1>12, <1>13, <1>14, <1>15, <1>16 DEF Next

LEMMA SystemSuffices ==
    ASSUME SystemInv, Steady, AtRest
    PROVE  VectorClears /\ SystemLetsGo
<1>1. HeldKeys = {} BY DEF AtRest, HeldKeys, ToSet
<1>2. VectorClears
    BY <1>1 DEF SystemInv, VectorInv, Steady, AtRest, Backed, Holds, VectorClears
<1>3. ASSUME NEW k \in s.sys PROVE k[1] \in CodesOf(lost)
    <2>1. k[1] \notin Silent /\ LostAs(k[1])
        BY <1>1 DEF SystemInv, AllAccounted, Accounted, HeldAs, AtRest
    <2>2. PICK key \in lost : SentAs(kb, TRUE, key)[1] = k[1] BY <2>1 DEF LostAs
    <2>3. CASE CodeOn(kb, key) = "menu"
        <3>1. key = "menu" BY <2>3, KeysSent
        <3>2. kb.menu \in {"menu", "rwin", "fn"} BY KeyboardsAssumption DEF SystemInv, AllAccounted
        <3> QED BY <2>1, <2>2, <2>3, <3>1, <3>2 DEF SentAs, CodesOf, Silent
    <2>4. CASE CodeOn(kb, key) # "menu"
        <3>1. k[1] = CodeOn(kb, key) BY <2>1, <2>2, <2>4 DEF SentAs, Silent
        <3>2. KeyCode(s, key)[1] = CodeOn(kb, key) BY CodesOfKeys
        <3> QED BY <2>2, <3>1, <3>2 DEF CodesOf
    <2> QED BY <2>3, <2>4
<1> QED BY <1>2, <1>3 DEF SystemLetsGo

\* On every steady keyboard, when all keys are up, none is down for the driver
\* nor for the system, but those that were down when the machine fell asleep,
\* the feature toggle mode began or NumLock changed: with modifiers and their
\* twins in any order, swallowed keys, repeats, gestures and sleep in between.
THEOREM SteadyKeysComeUp == Spec => [](Steady => KeysComeUp)
<1>1. Spec => []SystemInv
    BY SystemAtFirst, SystemStays, PTL DEF Spec
<1>2. SystemInv => (Steady => KeysComeUp) BY SystemSuffices DEF KeysComeUp
<1> QED BY <1>1, <1>2, PTL
=============================================================================
