--------------------------- MODULE TouchpadGestures ---------------------------
(***************************************************************************)
(* What the touchpad driver makes of fingers and buttons: clicks, taps,    *)
(* drags, presses, swipes and the timers that end them.                    *)
(*                                                                         *)
(* Every packet, timer and notification runs to its end behind the work    *)
(* loop's gate, so each method of the driver is a function from a state to *)
(* the set of states it may leave.  What a method decides by coordinates,  *)
(* pressure or elapsed time is a choice; what it decides by its own        *)
(* variables is not.  An outcome [go, s] also says whether the method goes *)
(* on after a part of it, has returned, or leaves the rest to another.     *)
(***************************************************************************)
EXTENDS Naturals, FiniteSets

CONSTANTS
    Touchpads,   \* configurations, see the assumption
    Overlaps     \* buttons, taps and touches overlap

TapActions == {"click", "app", "nc", "other"}
Notifications == {"escape", "shift", "menu", "typing", "disable", "enable", "feature"}

ASSUME TouchpadsAssumption ==
    /\ Touchpads \subseteq
        [vendor : {"v2", "v3", "v4", "synaptics"}, \* FocalTech decodes as ELAN v4
         clickpad : BOOLEAN,
         virtual : BOOLEAN,      \* clickPadHasVButtons
         middle : BOOLEAN,       \* enableMiddle
         move2 : BOOLEAN,        \* clickPad2FMove
         click2 : SUBSET {"R", "M"},  \* fings2Click
         dragging : BOOLEAN,     \* _isDragEnabled
         dragLock : BOOLEAN,
         pressDrag : BOOLEAN,    \* hasFPresDrag, with one, two and three fingers
         edges : BOOLEAN,        \* edge swipes and edge scrolling
         cont : BOOLEAN,         \* has2FCont, hasEdgeCont
         doubleTaps : BOOLEAN,   \* hasMulFDoubleTaps
         tapEnable : BOOLEAN,    \* a tap ends the pause for typing
         fingers : 1..5,         \* that it can tell apart
         keys : SUBSET Notifications, \* of the keyboard, that arrive
         stick : BOOLEAN,        \* a track point reports through the pad
         tap : TapActions,       \* what taps and swipes do
         press : TapActions]     \* what presses and pinches do
    /\ Overlaps \in BOOLEAN

VARIABLES
    pad,  \* the configuration; never changes
    g     \* the driver's state, see InitGestures

\* The modes that the methods tell apart: SCROLL is both two finger modes,
\* EDGE and CIR both edges', TAP4 also five fingers, PRESS2 also three, PRESS4
\* also five, MULTI three and four finger swipes, SWIPE the four edge swipes.
TapModes   == {"TAP1", "TAP2", "TAP3", "TAP4"}
Pointing   == {"TAP1", "BUTTONS", "MOVE", "IDLE"}
EdgeModes  == {"EDGE", "CIR"}
Above25    == {"SWIPE", "TOGGLE", "PINCH4", "PALM"}

InitGestures ==
    [mode |-> "IDLE", fingers |-> 0, last |-> 0, packets |-> 0, slot |-> FALSE, ended |-> FALSE,
     data |-> {}, state |-> {}, sent |-> {}, triggered |-> FALSE, right |-> FALSE,
     is2F |-> FALSE, area |-> FALSE,
     tapDrag |-> FALSE, holdDrag |-> FALSE, drag |-> FALSE, drag3 |-> FALSE,
     quick |-> FALSE, check |-> FALSE, taps |-> 0, rotate |-> FALSE,
     app |-> FALSE, cmd |-> FALSE, nc |-> FALSE,
     job |-> FALSE, buttonTimer |-> FALSE, featureTimer |-> FALSE,
     scrollTimer |-> FALSE, doCont |-> FALSE, inertia |-> FALSE,
     toggle |-> FALSE, accidental |-> FALSE, disabled |-> FALSE, palm |-> FALSE]

On(t)   == {[go |-> "on", s |-> t]}
Off(t)  == {[go |-> "return", s |-> t]}
Drag(t) == {[go |-> "drag", s |-> t]}
One(t)  == {[go |-> "one", s |-> t]}
Two(t)  == {[go |-> "two", s |-> t]}
Many(t) == {[go |-> "many", s |-> t]}
Then(outcomes, F(_)) == UNION {IF o.go = "on" THEN F(o.s) ELSE {o} : o \in outcomes}
States(outcomes) == {o.s : o \in outcomes}
Each(states, F(_)) == UNION {F(t) : t \in states}

---------------------------------------------------------------------------
(* Small steps that many methods take. *)

Bump(t)      == [t EXCEPT !.packets = IF @ < 2 THEN @ + 1 ELSE 2]   \* two or more
NoButtons(t) == [t EXCEPT !.data = {}, !.state = {}, !.sent = {}]
NoDrag(t)    == [t EXCEPT !.drag = FALSE, !.tapDrag = FALSE, !.holdDrag = FALSE, !.drag3 = FALSE]
Resend(t)    == [t EXCEPT !.sent = t.state]

\* Command stays down in the keyboard driver until it is told to release it.
AppSwitch(t)     == [t EXCEPT !.app = TRUE, !.cmd = TRUE]

ReleaseCmdKey(t) == IF t.app THEN [t EXCEPT !.app = FALSE, !.cmd = FALSE] ELSE t

\* Stopping the scroll timer also forgets that a release timer is running.
StopScrollEnhanceTimer(t) ==
    [t EXCEPT !.scrollTimer = FALSE, !.inertia = FALSE, !.job = FALSE, !.doCont = FALSE]

\* In full screen, which the shift key toggles together with the toggle mode,
\* the notification centre is clicked when the feature timer fires.
OpenNC(t) ==
    IF t.toggle THEN [t EXCEPT !.nc = TRUE, !.sent = {}, !.featureTimer = TRUE]
    ELSE [t EXCEPT !.nc = TRUE, !.sent = t.state]

Action(t) ==
    CASE pad.tap = "app" -> AppSwitch(t)
      [] pad.tap = "nc"  -> OpenNC(t)
      [] OTHER           -> t

\* Presses and pinches switch applications without remembering that they did.
PressAction(t) ==
    CASE pad.press = "app" -> [t EXCEPT !.cmd = TRUE]
      [] pad.press = "nc"  -> Resend(OpenNC(t))
      [] OTHER             -> t

---------------------------------------------------------------------------
(* Fingers come and go. *)

\* Timers of the touch before are cancelled.
CancelTimers(t) ==
    IF t.job \/ t.doCont \/ t.inertia
    THEN StopScrollEnhanceTimer([t EXCEPT !.buttonTimer = FALSE])
    ELSE t

\* A drag ends when the fingers become three or none; a hold drag only if the
\* finger hardly moved.
EndDrag(t) ==
    LET ends == (t.fingers > 2 /\ ~t.drag3) \/ t.fingers = 0
        Cleared == NoDrag(NoButtons(t))
    IN  CASE ends /\ t.tapDrag  -> {Cleared}
          [] ends /\ ~t.tapDrag /\ t.holdDrag -> {t, Cleared}
          [] OTHER -> {t}

\* Modes that do not survive a change of fingers.  A rotation is over with more
\* than two; until the touch ends it keeps others from beginning.
ChangeMode(t) ==
    LET taps     == t.last <= t.fingers /\ t.fingers > 1 /\ t.mode \in TapModes
        rotating == t.rotate /\ (t.fingers > 2 \/ (t.fingers = 2 /\ t.last # 2))
    IN  [t EXCEPT !.mode = IF taps \/ rotating THEN "IDLE" ELSE @,
                  !.rotate = @ /\ t.fingers < 3,
                  !.packets = IF t.fingers # 0 THEN 0 ELSE @,
                  !.ended = FALSE]

ProcessFingersChange(t) == {ChangeMode(u) : u \in EndDrag(CancelTimers(t))}

---------------------------------------------------------------------------
(* Buttons. *)

\* A button that is pressed.  Both at once are the middle button, if that is
\* enabled, else none; right alone is remembered.
Pressed(t, bits) ==
    LET d == IF bits = {"L", "R"} THEN (IF pad.middle THEN {"M"} ELSE {}) ELSE bits
    IN  [t EXCEPT !.triggered = TRUE, !.data = d, !.state = @ \cup d, !.sent = d,
                  !.mode = "BUTTONS", !.right = @ \/ bits = {"R"}]

Released(t) ==
    LET u == IF t.triggered \/ t.right
             THEN ReleaseCmdKey(NoDrag([t EXCEPT !.state = {}, !.sent = {}, !.right = FALSE]))
             ELSE t
    IN  [u EXCEPT !.data = {}, !.triggered = FALSE]

ProcessPhysicalButtons(t, bits) ==
    CASE t.state = bits -> [t EXCEPT !.data = bits]
      [] t.state # bits /\ bits = {} -> Released(t)
      [] OTHER -> Pressed(t, bits)

\* The button of a clickpad, pressed with one finger: where the finger is
\* chooses the button.
VirtualPressed1(t) ==
    LET u == [t EXCEPT !.triggered = TRUE, !.mode = "BUTTONS"]
        buttons == IF t.area /\ pad.virtual
                   THEN {{"L"}, {"R"}} \cup (IF pad.middle THEN {{"M"}} ELSE {})
                   ELSE {{"L"}}
    IN  IF t.data # {} THEN {u}
        ELSE {ReleaseCmdKey([u EXCEPT !.data = d, !.right = @ \/ d = {"R"}, !.state = d, !.sent = d]) :
                 d \in buttons}

\* Pressed with two fingers, of which both, none or one are on the button area.
\* A button that is down already stays.
VirtualPressed2(t) ==
    LET u == [t EXCEPT !.triggered = TRUE, !.mode = "BUTTONS", !.is2F = TRUE]
        kept == IF t.state # {} THEN [u EXCEPT !.data = t.state]
                ELSE [u EXCEPT !.state = {"L"}, !.data = {"L"}]
        both == [IF pad.middle THEN [u EXCEPT !.data = {"M"}] ELSE kept EXCEPT !.area = TRUE]
        none == [IF pad.click2 # {}
                 THEN [u EXCEPT !.data = pad.click2, !.right = @ \/ pad.click2 = {"R"}]
                 ELSE kept EXCEPT !.area = FALSE]
        one  == [u EXCEPT !.data = {"L"}, !.is2F = FALSE, !.area = pad.move2,
                          !.packets = IF @ > 1 THEN 0 ELSE @]
        chosen == IF t.state = {"L"} THEN {u}
                  ELSE {none} \cup (IF pad.virtual THEN {both, one} ELSE {})
        Dispatch(v) == IF v.is2F /\ v.data \in {{"M"}, {}} THEN v
                       ELSE [v EXCEPT !.state = v.data, !.sent = v.data]
    IN  {Dispatch(ReleaseCmdKey(v)) : v \in chosen}

VirtualReleased(t) ==
    LET u == IF t.triggered \/ t.right
             THEN NoDrag([t EXCEPT !.state = {}, !.sent = {}, !.is2F = FALSE,
                                   !.triggered = FALSE, !.right = FALSE])
             ELSE t
    IN  {[u EXCEPT !.data = {}]}

\* With more fingers a pressed button is whatever it was.
VirtualPressed3(t) ==
    LET u == ReleaseCmdKey([t EXCEPT !.triggered = TRUE])
    IN  {IF u.is2F /\ u.data \in {{"M"}, {}} THEN u
         ELSE [u EXCEPT !.state = u.data, !.sent = u.data]}

\* A button that is pressed forgets a rotation, which it may have set off.
ProcessVirtualButtons(t, pressed, n) ==
    LET p == [t EXCEPT !.rotate = FALSE]
    IN  CASE ~pressed         -> VirtualReleased(t)
          [] pressed /\ n = 1 -> VirtualPressed1(p)
          [] pressed /\ n = 2 -> VirtualPressed2(p)
          [] OTHER            -> VirtualPressed3(p)

---------------------------------------------------------------------------
(* The end of a touch. *)

\* Mutant: the tap is not noted, so no timer releases its click.
MutantTap1Click(t) ==
    IF t.data = {} \/ t.tapDrag \/ t.holdDrag
    THEN NoDrag(Resend([t EXCEPT !.data = {"L"}, !.state = @ \cup {"L"}]))
    ELSE t

\* A one finger tap is a click, which the release timer ends, or the end of a
\* drag, which is a click on the spot.
Tap1Click(t) ==
    LET noted    == IF ~t.check /\ ~t.drag THEN [t EXCEPT !.check = TRUE] ELSE t
        released == IF t.quick THEN NoButtons(noted) ELSE noted
        clicked  == IF t.holdDrag \/ t.tapDrag
                    THEN [NoButtons(released) EXCEPT !.check = FALSE]
                    ELSE Resend([released EXCEPT !.data = {"L"}, !.state = @ \cup {"L"}])
    IN  IF t.data = {} \/ t.tapDrag \/ t.holdDrag THEN NoDrag(clicked) ELSE t

\* While typing, tapEnableTPad makes it switch the touchpad on again instead.
Tap1(t) ==
    CASE pad.tap # "click" /\ ~t.toggle -> {Action(t)}
      [] ~(pad.tap # "click" /\ ~t.toggle) /\ pad.tapEnable /\ t.accidental ->
             {[t EXCEPT !.accidental = FALSE]}
      [] OTHER -> {[Tap1Click(ReleaseCmdKey(t)) EXCEPT !.quick = TRUE, !.taps = 0]}

\* The pointer goes to the corner, without a button.
CornerTap(t) == [t EXCEPT !.sent = {}]

\* Two and three finger taps: a click, an action, or the first tap of several.
\* Four is as many as any number above three.
Tap23(t) ==
    LET n == IF ~pad.doubleTaps /\ ~t.toggle THEN t.taps ELSE IF t.taps < 4 THEN t.taps + 1 ELSE 4
        u == [t EXCEPT !.taps = n]
    IN  CASE ~t.toggle /\ ~pad.doubleTaps ->
                 LET v == IF pad.tap = "click" THEN [u EXCEPT !.sent = {}] ELSE Action(u)
                 IN  {[v EXCEPT !.taps = 0, !.data = {}, !.state = {}]}
          [] ~t.toggle /\ pad.doubleTaps /\ n = 1 -> {[u EXCEPT !.featureTimer = TRUE]}
          [] t.toggle /\ n > 1 -> {[u EXCEPT !.featureTimer = TRUE], [u EXCEPT !.taps = n - 1]}
          [] OTHER -> {u}

Tap45(t) ==
    LET n == IF ~pad.doubleTaps /\ ~t.toggle THEN t.taps ELSE IF t.taps < 4 THEN t.taps + 1 ELSE 4
        u == [t EXCEPT !.taps = n]
    IN  CASE ~t.toggle -> {[Action(u) EXCEPT !.taps = 0]}
          [] t.toggle /\ n > 1 -> {[u EXCEPT !.featureTimer = TRUE], [u EXCEPT !.taps = n - 1]}
          [] OTHER -> {u}

\* The scroll timer stops and may start again for inertia, auto scroll or sling.
EndScroll(t) ==
    LET stopped == [t EXCEPT !.scrollTimer = FALSE]
    IN  {stopped, [stopped EXCEPT !.job = TRUE, !.inertia = FALSE]} \cup
        {[stopped EXCEPT !.inertia = TRUE, !.scrollTimer = TRUE, !.job = j] : j \in {TRUE, FALSE, t.job}}

\* Mutant: a drag gets no release timer.
MutantStartReleaseTimers(t) ==
    IF t.check \/ t.app THEN [t EXCEPT !.buttonTimer = TRUE, !.job = TRUE] ELSE t

StartReleaseTimers(t) ==
    IF t.check \/ ((t.tapDrag \/ t.holdDrag) /\ ~pad.dragLock /\ t.drag) \/ t.app
    THEN [t EXCEPT !.buttonTimer = TRUE, !.job = TRUE]
    ELSE t

ClearTouch(t) ==
    [t EXCEPT !.mode = "IDLE", !.last = 0, !.packets = 0, !.slot = FALSE, !.ended = FALSE,
              !.area = FALSE, !.doCont = FALSE, !.palm = FALSE, !.rotate = FALSE]

\* A tap whose time was not counted, or with clicking off, is none.
Gesture(t) ==
    CASE t.mode = "TAP1"                      -> {t} \cup Tap1(t)
      [] t.mode = "CORNER"                    -> {t, CornerTap(t)}
      [] t.mode \in {"TAP2", "TAP3"}          -> {t} \cup Tap23(t)
      [] t.mode = "TAP4"                      -> {t} \cup Tap45(t)
      [] t.mode = "MULTI"                     -> {t, Action(t)}
      [] t.mode \in {"SCROLL", "EDGE", "CONT"} -> EndScroll(t)
      [] OTHER                                -> {t}

ProcessTouchEnd(t) == {ClearTouch(StartReleaseTimers(u)) : u \in Gesture(t)}

---------------------------------------------------------------------------
(* Swipes from the edges and presses. *)

DispatchEdgeSwipe(t) == {Action(t), Resend(Action(t))}

EdgeSwipe(t) == {[u EXCEPT !.mode = "SWIPE"] : u \in DispatchEdgeSwipe(t)}

\* Two and three fingers may start a drag, of three at most; else an action.
\* A drag needs the fingers held long enough or a button, an action does not.
FingersPress(t, n) ==
    LET mode == IF n < 4 THEN "PRESS2" ELSE "PRESS4"
    IN  IF n < 4 /\ pad.pressDrag
        THEN {t, [t EXCEPT !.drag = TRUE, !.holdDrag = TRUE, !.drag3 = TRUE, !.mode = mode]}
        ELSE {[PressAction(t) EXCEPT !.mode = mode]}

\* With the toggle key held a press switches the feature instead.
PressOrToggle(t, n) ==
    IF t.toggle THEN {[Resend(t) EXCEPT !.mode = IF n < 4 THEN "PRESS2" ELSE "PRESS4"]}
    ELSE FingersPress(t, n)

---------------------------------------------------------------------------
(* One finger. *)

\* A finger that started on a clickpad's buttons does not move the pointer.
OnButtonArea(t) ==
    IF pad.clickpad /\ t.area /\ t.fingers < 2 THEN Off(Resend(Bump(t))) \cup On(Bump(t))
    ELSE On(Bump(t))

\* A swipe under way takes all packets; a finger from an edge may become one.
SwipeOfOne(t) ==
    LET performed == {t} \cup EdgeSwipe(t)
    IN  CASE t.mode = "SWIPE" -> UNION {Off(u) : u \in performed}
          [] t.mode \notin {"SWIPE", "CIR"} /\ pad.edges /\ ~t.triggered ->
                 On(t) \cup UNION {IF u.mode \in Above25 THEN Off(u) ELSE Off(u) \cup On(u) : u \in performed}
          [] OTHER -> On(t)

\* A corner once touched resets the mode when it is left or the time is over.
Corner(t) ==
    On(t) \cup On([t EXCEPT !.mode = "IDLE"]) \cup
    (IF ~t.triggered /\ t.last = 0 /\ t.packets = 2
     THEN Off(Resend([t EXCEPT !.mode = "CORNER"])) ELSE {})

\* Fingers that are left over from a gesture of more are skipped, unless they
\* drag or the gesture was a tap or scroll of five packets before.
SkipOtherGestures(t) ==
    LET stops == Off(StopScrollEnhanceTimer(t))
        dragOn == IF t.drag3 THEN On(t) ELSE stops
    IN  CASE t.mode \in {"TAP2", "TAP3", "TAP4", "SCROLL"} ->
                 dragOn \cup (IF t.packets = 2 THEN On([t EXCEPT !.mode = "IDLE"]) ELSE {})
          [] t.mode \in {"MULTI", "PINCH5", "PRESS2"} -> dragOn
          [] t.mode \in {"PRESS4", "ZOOM", "ROTATE", "SWIPE", "CORNER"} -> stops
          [] OTHER -> On(t)

\* A touch soon after a tap drags; later it is a new touch, by when (unless
\* Overlaps) the tap's timer has fired.
DoubleTap(t) ==
    LET inTime == IF pad.dragging /\ t.check
                  THEN [t EXCEPT !.data = {"L"}, !.state = @ \cup {"L"}, !.tapDrag = TRUE,
                                 !.drag = TRUE, !.job = FALSE, !.buttonTimer = FALSE]
                  ELSE [t EXCEPT !.data = {}, !.state = @ \ {"L"}]
        late   == [t EXCEPT !.quick = FALSE]
    IN  CASE t.fingers = 1 /\ t.last = 0 /\ ~t.triggered /\ t.quick ->
                 UNION {On([u EXCEPT !.check = FALSE]) :
                            u \in {inTime} \cup (IF Overlaps \/ ~t.check THEN {late} ELSE {})}
          [] t.fingers > 1 /\ t.quick -> On(late)
          [] OTHER -> On(t)

\* From the second packet on the mode is moving or scrolling along an edge.
EdgeScroll(t) ==
    LET modes == CASE t.mode = "EDGE" -> {"EDGE", "CIR", "MOVE"}
                   [] t.mode = "CIR"  -> {"CIR", "MOVE"}
                   [] OTHER           -> {"EDGE", "MOVE"}
        Chosen(m) ==
            LET u == [t EXCEPT !.mode = m]
            IN  CASE m = "MOVE" -> On(StopScrollEnhanceTimer(u))
                  [] m = "EDGE" -> On(u) \cup Off(IF u.doCont THEN StopScrollEnhanceTimer(u) ELSE u)
                  [] OTHER      -> On(u)
    IN  IF pad.edges /\ t.packets = 2 /\ ~t.triggered /\ t.mode # "MOVE"
        THEN UNION {Chosen(m) : m \in modes} ELSE On(t)

\* Buttons that go with the pointer: those of a drag, which a press of several
\* packets may start, a physical or virtual button, or none.
Buttons(t) ==
    LET dragged == [t EXCEPT !.state = @ \cup {"L"}]
        started == [dragged EXCEPT !.holdDrag = TRUE, !.drag = TRUE]
        other   == IF t.triggered THEN [t EXCEPT !.state = @ \cup t.data]
                   ELSE [t EXCEPT !.data = {}, !.state = IF t.drag THEN @ \cup {"L"} ELSE @]
        presses == pad.pressDrag /\ ~t.rotate
    IN  CASE pad.dragging /\ (t.tapDrag \/ (presses /\ t.holdDrag)) -> {dragged}
          [] pad.dragging /\ ~t.tapDrag /\ presses /\ ~t.holdDrag /\ t.packets = 2 -> {other, started}
          [] OTHER -> {other}

\* The pointer moves, with custom acceleration by its timer too; a disabled
\* edge and the first packets of a tap dispatch the buttons only.
PointerMoves(t) == {[u EXCEPT !.mode = IF t.packets = 2 THEN "MOVE" ELSE @] : u \in {t, Resend(t)}}

\* The touch goes on being a tap, or is none any more.
TapDetected(t, tap) ==
    CASE tap /\ t.last < 2 /\ t.packets = 2 -> [t EXCEPT !.mode = "TAP1"]
      [] ~tap /\ t.mode = "TAP1"            -> [t EXCEPT !.mode = "IDLE"]
      [] OTHER -> t

\* Quick taps on Synaptics pads have no end packet between them.
QuickTap(t) ==
    IF pad.vendor = "synaptics" /\ t.packets = 2 /\ ~t.ended /\ ~t.quick
    THEN {[u EXCEPT !.ended = TRUE] : u \in ProcessTouchEnd([t EXCEPT !.mode = "TAP1"])}
    ELSE {}

MovePointer(t) ==
    LET mayTap == ~t.triggered /\ (t.drag3 => t.fingers = 1 /\ t.last = 0)
        begins == {t, [t EXCEPT !.ended = FALSE]}
    IN  {TapDetected(u, FALSE) : u \in PointerMoves(t)} \cup
        (IF mayTap THEN {TapDetected(u, TRUE) : u \in Each(begins, PointerMoves)} \cup QuickTap(t) ELSE {})

\* Scrolling starts the scroll timer once.  Without the speed of a scroll it
\* takes 15 packets, after which no touch is a one finger tap.
StartScroll(t) ==
    IF t.doCont \/ (t.fingers = 2 /\ t.mode = "TAP1") THEN t
    ELSE [t EXCEPT !.doCont = TRUE, !.scrollTimer = TRUE]
StopScroll(t) == IF t.doCont THEN [t EXCEPT !.doCont = FALSE, !.scrollTimer = FALSE] ELSE t

\* Two fingers that move far enough scroll whatever they did before.
ScrollMode(t) == IF t.fingers = 2 THEN {t, [t EXCEPT !.mode = "SCROLL"]} ELSE {t}

\* The other direction begins the touch anew.
ScrollDirection(t) == IF t.mode \in {"SCROLL", "EDGE"} THEN {t, [t EXCEPT !.packets = 0]} ELSE {t}

CircularScroll(t) == {t, StartScroll(t)} \cup (IF pad.cont THEN {} ELSE {StopScroll(t)})

\* Slow fingers turn to continuous scrolling, if enabled; else the packet's own
\* scroll may be dispatched at once.  A scroll that may be a zoom waits.
TurnsContinuous(t) == IF pad.cont /\ t.mode \in {"SCROLL", "EDGE"} THEN [t EXCEPT !.mode = "CONT"] ELSE t

SlowScroll(t) ==
    LET u == TurnsContinuous(t)
    IN  {t, u, StartScroll(u)} \cup (IF u.mode = "CONT" THEN {} ELSE {StopScroll(u)})

\* The timer is started again, or the packet's own scroll dispatched at once.
NormalScroll(t) == LET u == [t EXCEPT !.doCont = FALSE] IN {u, StartScroll(u)}

ProcessScroll(t) ==
    LET scrolled(u) == IF u.mode = "CIR" THEN CircularScroll(u)
                       ELSE {u} \cup SlowScroll(u) \cup NormalScroll(u)
                            \cup (IF pad.cont THEN {} ELSE {StopScroll(u)})
    IN  Each(Each(ScrollMode(t), ScrollDirection), scrolled)

\* A finger that scrolls along an edge, in a line or in circles.
EdgePacket(t)     == {t} \cup ProcessScroll(t)
CircularPacket(t) == {t} \cup (IF pad.cont THEN {} ELSE {StopScroll(t)}) \cup ProcessScroll(t)

OneFinger(t) ==
    CASE t.mode \in Pointing         -> Each(Buttons(t), MovePointer)
      [] t.mode \in {"EDGE", "CONT"} -> EdgePacket(t)
      [] t.mode = "CIR"              -> CircularPacket(t)
      [] OTHER                       -> {t}

ProcessSingleFinger(t) ==
    LET point(u) == {[go |-> "return", s |-> v] : v \in OneFinger(u)}
    IN  States(Then(Then(Then(Then(Then(Then(OnButtonArea(t), SwipeOfOne), Corner),
                                   SkipOtherGestures), DoubleTap), EdgeScroll), point))

---------------------------------------------------------------------------
(* Two fingers. *)

\* Two fingers that both started at an edge.
TwoFromEdge(t) == (t.mode \in Above25 \/ pad.edges) /\ ~t.triggered

SwipeOfTwo(t) ==
    LET twice == UNION {EdgeSwipe(u) : u \in EdgeSwipe(t)}
    IN  (IF t.mode \in Above25 /\ ~t.triggered THEN {} ELSE On(t)) \cup
        (IF TwoFromEdge(t) THEN UNION {Off(StopScrollEnhanceTimer(u)) : u \in {t} \cup twice} ELSE {})

\* Which modes two fingers take over, and which they are left over from.
SkipForTwo(t) ==
    LET enough == t.packets = 2
        clear  == StopScrollEnhanceTimer(t)
        stop   == Off(clear)
        cleared == On(clear) \cup (IF enough THEN On([clear EXCEPT !.mode = "IDLE"]) ELSE {})
        orStop(os) == IF pad.edges THEN os \cup stop ELSE os
        dragOr(os) == IF t.drag3 THEN Drag(t) ELSE os
        dragThenStop == IF t.drag3 THEN {[go |-> "drag and stop", s |-> t]} ELSE stop
    IN  CASE t.mode = "CONT" -> (IF enough THEN On(t) ELSE {}) \cup dragOr(orStop(cleared))
          [] t.mode = "MOVE" -> dragOr(orStop(cleared))
          [] t.mode \in {"TAP1", "CORNER"} \cup EdgeModes -> orStop(cleared)
          [] t.mode = "ROTATE" -> IF t.rotate THEN dragThenStop ELSE On(t)
          [] t.mode \in {"ZOOM", "SWIPE", "MULTI", "PINCH5", "PRESS2"} -> dragThenStop
          [] t.mode \in {"PRESS4", "TAP3", "TAP4"} -> stop
          [] t.mode = "IDLE" -> dragOr(On(t) \cup (IF t.last > 2 THEN Off(t) ELSE {}))
          [] OTHER -> orStop(On(t))

\* Rotating goes on to the end of the method, zooming ends it.
Rotates(t) == On([t EXCEPT !.mode = "ROTATE", !.rotate = TRUE])
Zooms(t)   == IF t.rotate THEN {} ELSE Off([t EXCEPT !.mode = "ZOOM"])

ZoomOrRotate(t) == On(t) \cup (IF t.packets = 2 THEN Rotates(t) \cup Zooms(t) ELSE {})

\* A scroll that may be a zoom stops the timer before it is processed, one of
\* fingers that do not move alike stops it only.
ZoomConflict(t) == {t, StopScrollEnhanceTimer(t)}

ScrollWithTwo(t) ==
    IF t.rotate \/ t.mode = "ROTATE" THEN On(t)
    ELSE UNION {On(u) : u \in {t, StopScrollEnhanceTimer(t)} \cup Each(ZoomConflict(t), ProcessScroll)}

PressWithTwo(t) ==
    On(t) \cup
    (IF ~t.triggered THEN On(StopScrollEnhanceTimer(t)) \cup
                          UNION {On(StopScrollEnhanceTimer(u)) : u \in PressOrToggle(t, 2)} ELSE {})

TapWithTwo(t) ==
    {t, IF t.mode = "TAP2" THEN [t EXCEPT !.mode = "IDLE"] ELSE t} \cup
    (IF t.packets = 2 /\ ~t.triggered THEN {[t EXCEPT !.mode = "TAP2"]} ELSE {})

\* Packets of little pressure are not looked at; they may start the count again.
ProcessTwoFingers(t) ==
    LET u == Bump(t)
        low == Off(u) \cup Off([u EXCEPT !.packets = 0])
        tap(v) == UNION {Off(w) : w \in TapWithTwo(v)}
    IN  low \cup Then(Then(Then(Then(Then(SwipeOfTwo(u), SkipForTwo), ZoomOrRotate),
                               ScrollWithTwo), PressWithTwo), tap)

\* A clickpad's two fingers: scroll and other gestures, a drag with both, or
\* the thumb on the buttons while the other finger moves.
DragWithTwo(t) ==
    LET u == [t EXCEPT !.mode = "MOVE"]
    IN  Off(t) \cup (IF t.state = {"L"} THEN Off(u) \cup One(u) ELSE {})

ThumbOnButton(t, pressed) ==
    LET left(v) == IF v.triggered /\ v.data # {"L"}
                   THEN [v EXCEPT !.state = {"L"}, !.data = {"L"}, !.is2F = FALSE] ELSE v
    IN  UNION {One(left(v)) : v \in ProcessVirtualButtons([t EXCEPT !.mode = "MOVE", !.area = TRUE], pressed, 1)}

ProcessClickPad2F(t, pressed) ==
    LET Moves(u) ==
            CASE u.mode \in {"CONT", "SCROLL", "ZOOM", "ROTATE", "PRESS2", "TAP2"}
                 \/ ~(pad.move2 \/ pressed) \/ u.drag3 -> Two(u)
              [] OTHER ->
                 IF (~pad.virtual \/ u.is2F) /\ pressed THEN DragWithTwo(u)
                 ELSE ThumbOnButton(u, pressed) \cup (IF ~u.triggered /\ ~u.drag THEN Two(u) ELSE Off(u))
    IN  Each(ProcessVirtualButtons(t, pressed, t.fingers), Moves)

---------------------------------------------------------------------------
(* Three fingers and more. *)

\* A short touch that does not move is a tap.
TapWithMany(t) ==
    LET tap == IF t.last > t.fingers THEN t
               ELSE [t EXCEPT !.mode = IF t.fingers = 3 THEN "TAP3" ELSE "TAP4"]
        notTap == IF t.mode \in {"TAP3", "TAP4"} THEN [t EXCEPT !.mode = "IDLE"] ELSE t
    IN  Off(notTap) \cup On(tap) \cup On(notTap)

\* Other modes of fewer fingers end; a drag of three goes on.
SkipForMany(t) ==
    LET stops == Off(StopScrollEnhanceTimer(t))
        dragOr(u, os) == IF u.drag3 THEN Drag(u) ELSE os
        skip(u) == IF ~u.app /\ ~((u.is2F \/ u.area) /\ u.triggered) THEN On(u)
                   ELSE dragOr(u, Off(StopScrollEnhanceTimer(u)))
    IN  CASE t.mode \in {"MOVE", "IDLE"} /\ t.drag3 -> Drag(t)
          [] (t.mode = "MOVE" /\ ~t.drag3) \/ t.mode \in {"TAP1", "TAP2", "CORNER", "CONT", "SCROLL"} \cup EdgeModes ->
                 On([StopScrollEnhanceTimer(t) EXCEPT !.mode = "IDLE"])
          [] t.mode \in {"MULTI", "TOGGLE", "PINCH4", "PINCH5", "PRESS2"} -> dragOr(t, stops)
          [] t.mode \in {"PRESS4", "ZOOM", "ROTATE"} -> stops
          [] OTHER -> Then(TapWithMany(t), skip)

PressWithMany(t) ==
    LET outcome(u) == IF u.mode \in {"PRESS2", "PRESS4"} THEN Off(u) ELSE On(u)
    IN  IF t.packets < 2 THEN Off(t)
        ELSE (IF t.triggered THEN {} ELSE On(t)) \cup UNION {outcome(u) : u \in PressOrToggle(t, t.fingers)}

\* Swipes wait for the end of the touch, pinches act at once.
SwipeOfMany(t) == {t, IF t.toggle THEN [Resend(t) EXCEPT !.mode = "TOGGLE"] ELSE [t EXCEPT !.mode = "MULTI"]}
PinchOfFour(t) == {[PressAction(t) EXCEPT !.mode = "PINCH4"]}
PinchOfFive(t) == {t, [PressAction(t) EXCEPT !.mode = "PINCH5"]}

SwipeOrPinch(t) ==
    CASE t.fingers = 5 -> PinchOfFive(t)
      [] t.fingers \in 3..4 /\ t.taps = 0 ->
             SwipeOfMany(t) \cup (IF t.fingers = 4 /\ ~t.toggle /\ pad.vendor = "v4" THEN PinchOfFour(t) ELSE {})
      [] OTHER -> {t}

ProcessMultiFingers(t) ==
    LET last(u) == UNION {Off(v) : v \in SwipeOrPinch(u)}
    IN  Then(Then(SkipForMany(Bump(t)), PressWithMany), last)

\* The methods that the decoders hand the fingers to.  Fingers that take part
\* in a drag of three move the pointer with the first finger's movement; some
\* then stop scrolling.
Touched(outcomes) ==
    LET handed(o) == CASE o.go = "two"  -> ProcessTwoFingers(o.s)
                       [] o.go = "many" -> ProcessMultiFingers(o.s)
                       [] OTHER         -> {o}
        after(o, u) == IF o.go = "drag and stop" THEN StopScrollEnhanceTimer(u) ELSE u
        moved(o)    == IF o.go \in {"on", "return"} THEN {o.s}
                       ELSE (IF o.go = "one" THEN {} ELSE {o.s}) \cup ProcessSingleFinger(o.s)
    IN  UNION {{after(o, u) : u \in moved(o)} : o \in UNION {handed(o) : o \in outcomes}}

---------------------------------------------------------------------------
(* Timers. *)

Releases(t) == (t.drag /\ ~pad.dragLock /\ (t.holdDrag \/ t.tapDrag)) \/ (~t.drag /\ t.check)
TimerDone(t) == [t EXCEPT !.quick = FALSE, !.job = FALSE, !.buttonTimer = FALSE]

\* Mutant: command is released only together with a button.
MutantReleaseWithCommand(t) ==
    {IF Releases(t) THEN NoDrag(NoButtons([TimerDone(ReleaseCmdKey(t)) EXCEPT !.check = FALSE]))
     ELSE TimerDone(t)}

\* Mutant: the buttons of the packet stay, and with them the end of a touch.
MutantReleaseKeepsData(t) ==
    LET u == TimerDone(ReleaseCmdKey(t))
    IN  {IF Releases(t) THEN NoDrag([u EXCEPT !.check = FALSE, !.state = {}, !.sent = {}]) ELSE u}

\* Mutant: what is dispatched is the state before it is cleared.
MutantReleaseSendsState(t) ==
    LET u == Resend(TimerDone(ReleaseCmdKey(t)))
    IN  {IF Releases(t) THEN NoDrag([u EXCEPT !.check = FALSE, !.state = {}, !.data = {}]) ELSE u}

ReleaseButtonsAndDrag(t) ==
    LET u == TimerDone(ReleaseCmdKey(t))
    IN  {IF Releases(t) THEN NoDrag(NoButtons([u EXCEPT !.check = FALSE])) ELSE u}

\* The notification centre's click is released; then the taps counted so far
\* are a click, or switch a feature, which moves the pointer a little.
ClickNC(t)       == IF t.nc THEN [NoButtons(t) EXCEPT !.nc = FALSE] ELSE t
TapsClick(t)     == {[NoButtons(t) EXCEPT !.taps = 0]}
SwitchFeature(t) == {[t EXCEPT !.taps = 0], [Resend(t) EXCEPT !.taps = 0]}

ProcessFeaturesToggle(t) ==
    LET u == ClickNC([t EXCEPT !.featureTimer = FALSE])
    IN  CASE u.taps = 1         -> TapsClick(u)
          [] u.taps \in {2, 3} -> SwitchFeature(u)
          [] OTHER              -> {u}

\* Inertia goes on until its level is zero, which does not clear it.
ProcessInertia(t) == {[t EXCEPT !.scrollTimer = FALSE], t}

\* Continuous scrolling without data for a second ends the touch.
EnhanceScrollAcceleration(t) ==
    LET fired == [t EXCEPT !.scrollTimer = FALSE]
        idle  == [fired EXCEPT !.job = FALSE]
    IN  CASE t.accidental \/ t.palm -> {fired}
          [] ~(t.accidental \/ t.palm) /\ ~t.inertia /\ t.doCont ->
                 {[idle EXCEPT !.scrollTimer = TRUE]} \cup
                 {StopScrollEnhanceTimer(u) : u \in ProcessTouchEnd(idle)}
          [] ~(t.accidental \/ t.palm) /\ ~t.inertia /\ ~t.doCont -> {idle}
          [] OTHER -> ProcessInertia(t)

---------------------------------------------------------------------------
(* Notifications from the keyboard. *)

Escape(t) ==
    LET u == IF t.drag THEN NoDrag(NoButtons(t)) ELSE t
    IN  {ReleaseCmdKey([u EXCEPT !.toggle = FALSE, !.taps = 0])}

ShiftKey(t) == {[t EXCEPT !.toggle = ~@, !.taps = IF t.toggle THEN 0 ELSE @]}

DoContextMenu(t) == {[t EXCEPT !.sent = {}, !.state = {}]}

AccidentalInput(t) == {[t EXCEPT !.accidental = TRUE]}

DisableTouchpad(t) == {[t EXCEPT !.disabled = TRUE]}

EnableTouchpad(t) == {[t EXCEPT !.disabled = FALSE, !.accidental = FALSE]}

FeatureKey(t) == {Resend(t)}

ReceiveKeyboardNotifications(t, key) ==
    CASE key = "escape"  -> Escape(t)
      [] key = "shift"   -> ShiftKey(t)
      [] key = "menu"    -> DoContextMenu(t)
      [] key = "typing"  -> AccidentalInput(t)
      [] key = "disable" -> DisableTouchpad(t)
      [] key = "enable"  -> EnableTouchpad(t)
      [] key = "feature" -> FeatureKey(t)

===============================================================================
