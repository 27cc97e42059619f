----------------------- MODULE TouchpadDecoders_proofs -----------------------
(***************************************************************************)
(* Proofs about what is left of a touch when the touchpad is left alone,   *)
(* for every configuration of the touchpads that the model knows and that  *)
(* a theorem's condition admits.                                           *)
(*                                                                         *)
(* The driver's methods are functions from a state to the states they may  *)
(* leave; there is a lemma for each that its outcomes are Held, and for    *)
(* those that end a touch that what is left will end.                      *)
(***************************************************************************)
EXTENDS TouchpadDecoders, TLAPS

\* Touchpads that switch applications by taps and swipes only, whose packets
\* end every touch, and whose stick does not swipe from the edges.
Commands ==
    /\ pad.press # "app"
    /\ pad.vendor \in {"v2", "v3", "synaptics"}
    /\ pad.vendor = "v3" /\ pad.stick => ~pad.edges

\* Touchpads that drag by presses only where every touch is ended, and only with
\* fingers: not ELAN v4, and not with the stick of ELAN v3.
Drags == pad.pressDrag => pad.vendor \in {"v2", "synaptics"} \/ (pad.vendor = "v3" /\ ~pad.stick)

\* ELAN touchpads with buttons beside the pad that drag, by presses only as in
\* Drags, and whose users are not faster than the timers.
Plain ==
    /\ pad.vendor \in {"v2", "v3"} /\ ~pad.clickpad
    /\ pad.dragging /\ ~Overlaps /\ Drags

\* A button is down, for the system or in one of the driver's variables.  It is
\* Noted if it is a tap's, which the release timer ends, or a drag's.
Shown(t) == t.data # {} \/ t.state # {} \/ t.sent # {}
Noted(t) == Shown(t) => t.check \/ t.drag

\* Of a state t of the driver with n fingers: a drag is one of a tap or of a held
\* button or press, and who made the keyboard driver hold command knows that.  A
\* button that is down and not noted is pressed, and the driver will see it let go:
\* it compares the packet's buttons with state, which two and three finger taps
\* clear.
Held(n, t) ==
    /\ {"mode", "fingers", "last", "data", "state", "sent", "triggered", "tapDrag", "holdDrag",
        "drag", "check", "app", "cmd", "buttonTimer"} \subseteq DOMAIN t
    /\ t.fingers = n
    /\ Plain => /\ t.tapDrag \/ t.holdDrag => t.drag
                /\ \/ Noted(t)
                   \/ t.triggered /\ (t.sent # {} => t.state # {}) /\ t.mode \notin {"TAP2", "TAP3"}
    /\ t.drag => t.tapDrag \/ t.holdDrag
    /\ ~pad.pressDrag /\ t.holdDrag => t.triggered /\ pad.clickpad
    /\ pad.press # "app" /\ t.cmd => t.app

\* A timer will end what is left, or the user locked the drag.
ButtonEnds(t)  == t.data # {} => (t.buttonTimer /\ (t.check \/ t.drag)) \/ (pad.dragLock /\ t.drag)
SentEnds(t)    == Plain /\ Shown(t) => (t.buttonTimer /\ (t.check \/ t.drag)) \/ (pad.dragLock /\ t.drag)
DragEnds(t)    == Drags /\ t.drag => t.buttonTimer \/ pad.dragLock
CommandEnds(t) == Commands /\ t.app => t.buttonTimer

Calm(t) ==
    /\ ButtonEnds(t) /\ SentEnds(t) /\ DragEnds(t) /\ CommandEnds(t)
    /\ Commands => t.mode # "SWIPE"

\* The stick of ELAN touchpads moves the pointer while no finger touches.
StickAlone(n) == n = 0 /\ pad.vendor \in {"v3", "v4"} /\ pad.stick

\* What the methods keep: Held, and, if only the stick is used, Calm.
Good(n, calm, t) == Held(n, t) /\ (calm => StickAlone(n) /\ Calm(t))

\* The small steps keep both Held and Calm.
LEMMA SmallSteps ==
    ASSUME NEW n, NEW calm, NEW t, Good(n, calm, t)
    PROVE  /\ Good(n, calm, Bump(t))
           /\ Good(n, calm, Resend(t))
           /\ Good(n, calm, StopScrollEnhanceTimer(t))
           /\ Good(n, calm, NoDrag(NoButtons(t)))
           /\ Good(n, calm, ReleaseCmdKey(t))
           /\ \A m : m \notin {"SWIPE", "TAP2", "TAP3"} => Good(n, calm, [t EXCEPT !.mode = m])
           /\ \A p : Good(n, calm, [t EXCEPT !.packets = p])
           /\ \A b : Good(n, calm, [t EXCEPT !.ended = b])
<1> USE DEF Good, Held, Noted, Shown, Calm, ButtonEnds, SentEnds, DragEnds, CommandEnds
<1>1. Good(n, calm, Bump(t)) /\ Good(n, calm, Resend(t)) /\ Good(n, calm, StopScrollEnhanceTimer(t))
    BY DEF Bump, Resend, StopScrollEnhanceTimer
<1>2. Good(n, calm, NoDrag(NoButtons(t)))
    BY DEF NoDrag, NoButtons
<1>3. Good(n, calm, ReleaseCmdKey(t))
    BY DEF ReleaseCmdKey
<1>4. ASSUME NEW m, m \notin {"SWIPE", "TAP2", "TAP3"} PROVE Good(n, calm, [t EXCEPT !.mode = m])
    BY <1>4
<1>5. ASSUME NEW p PROVE /\ Good(n, calm, [t EXCEPT !.packets = p])
                         /\ Good(n, calm, [t EXCEPT !.ended = p])
    OBVIOUS
<1> QED
    <2> HIDE DEF Good
    <2> QED BY <1>1, <1>2, <1>3, <1>4, <1>5

\* Who holds command by a tap notes it; by a press only where presses may.
LEMMA Actions ==
    ASSUME NEW n, NEW t, Held(n, t)
    PROVE  Held(n, AppSwitch(t)) /\ Held(n, OpenNC(t)) /\ Held(n, Action(t)) /\ Held(n, PressAction(t))
<1>1. Held(n, AppSwitch(t)) BY DEF Held, Noted, Shown, AppSwitch
<1>2. Held(n, OpenNC(t)) BY DEF Held, Noted, Shown, OpenNC
<1>3. pad.press # "nc" \/ Held(n, Resend(OpenNC(t))) BY <1>2 DEF Held, Noted, Shown, Resend
<1>4. pad.press # "app" \/ Held(n, [t EXCEPT !.cmd = TRUE]) BY DEF Held, Noted, Shown
<1>5. Held(n, Action(t))
    <2> HIDE DEF Held, Noted, Shown
    <2> QED BY <1>1, <1>2, Zenon DEF Action
<1>6. Held(n, PressAction(t))
    BY <1>3, <1>4, Zenon DEF PressAction
<1> QED BY <1>1, <1>2, <1>5, <1>6

\* A change to no fingers ends drags, but not one that a finger held.
LEMMA FingersChange ==
    ASSUME NEW n, NEW t, Held(n, t), NEW u \in ProcessFingersChange(t)
    PROVE  /\ Held(n, u)
           /\ t.data = {} => u.data = {}
           /\ n = 0 /\ (~Drags \/ ~t.holdDrag) => DragEnds(u)
<1> DEFINE c == CancelTimers(t)
<1>1. /\ Held(n, c) /\ c.data = t.data /\ c.drag = t.drag /\ c.holdDrag = t.holdDrag
      /\ c.tapDrag = t.tapDrag /\ c.fingers = n
    BY DEF Held, Noted, Shown, CancelTimers, StopScrollEnhanceTimer
<1> DEFINE Ended(v) == /\ Held(n, v)
                       /\ t.data = {} => v.data = {}
                       /\ n = 0 /\ (~Drags \/ ~t.holdDrag) => ~v.drag \/ ~Drags
<1> HIDE DEF c
<1>2. Ended(NoDrag(NoButtons(c))) BY <1>1 DEF Held, Noted, Shown, NoDrag, NoButtons
<1>3. ASSUME ~(((c.fingers > 2 /\ ~c.drag3) \/ c.fingers = 0) /\ c.tapDrag) PROVE Ended(c)
    BY <1>1, <1>3 DEF Held
<1>4. PICK v \in EndDrag(c) : u = ChangeMode(v) BY DEF ProcessFingersChange, c
<1>5. Ended(v)
    <2> HIDE DEF Ended
    <2>1. /\ v \in {c, NoDrag(NoButtons(c))}
          /\ v = c => \/ ~(((c.fingers > 2 /\ ~c.drag3) \/ c.fingers = 0) /\ c.tapDrag)
                      \/ c = NoDrag(NoButtons(c))
        BY <1>4, Zenon DEF EndDrag
    <2> QED BY <2>1, <1>2, <1>3, Zenon
<1> QED BY <1>4, <1>5 DEF Ended, Held, Noted, Shown, ChangeMode, DragEnds

\* Buttons beside the pad: what is let go is not left in data.
LEMMA PhysicalButtons ==
    ASSUME NEW n, NEW t, Held(n, t), NEW bits
    PROVE  LET u == ProcessPhysicalButtons(t, bits)
           IN  /\ Held(n, u)
               /\ bits = {} => u.data = {} /\ u.mode = t.mode /\ (Plain => Noted(u))
               /\ u.last = t.last
               /\ DragEnds(t) => DragEnds(u)
               /\ CommandEnds(t) => CommandEnds(u)
               /\ bits = {} /\ SentEnds(t) => SentEnds(u)
<1> DEFINE Fine(u) == /\ Held(n, u)
                      /\ bits = {} => u.data = {} /\ u.mode = t.mode /\ (Plain => Noted(u))
                      /\ u.last = t.last
                      /\ DragEnds(t) => DragEnds(u)
                      /\ CommandEnds(t) => CommandEnds(u)
                      /\ bits = {} /\ SentEnds(t) => SentEnds(u)
<1>1. t.state = bits => Fine([t EXCEPT !.data = bits]) BY DEF Held, Noted, Shown, SentEnds, DragEnds, CommandEnds
<1>2. bits = {} => Fine(Released(t))
    BY DEF Held, Noted, Shown, SentEnds, DragEnds, CommandEnds, Released, ReleaseCmdKey, NoDrag
<1>3. bits # {} => Fine(Pressed(t, bits)) BY DEF Held, SentEnds, DragEnds, CommandEnds, Pressed
<1>4. Fine(ProcessPhysicalButtons(t, bits))
    <2> HIDE DEF Fine
    <2>1. (t.state = bits /\ ProcessPhysicalButtons(t, bits) = [t EXCEPT !.data = bits])
          \/ (bits = {} /\ ProcessPhysicalButtons(t, bits) = Released(t))
          \/ (bits # {} /\ ProcessPhysicalButtons(t, bits) = Pressed(t, bits))
        BY Zenon DEF ProcessPhysicalButtons
    <2> QED BY <1>1, <1>2, <1>3, <2>1, Zenon
<1> QED BY <1>4

LEMMA VirtualReleases ==
    ASSUME pad.clickpad, NEW n, NEW t, Held(n, t), NEW u \in VirtualReleased(t)
    PROVE  Held(n, u) /\ u.data = {} /\ (pad.pressDrag \/ ~u.holdDrag) /\ u.mode = t.mode
BY DEF Plain, Held, VirtualReleased, NoDrag

LEMMA VirtualPresses ==
    ASSUME pad.clickpad, NEW n, NEW t, Held(n, t)
    PROVE  /\ \A u \in VirtualPressed1(t) : Held(n, u) /\ u.triggered
           /\ \A u \in VirtualPressed2(t) : Held(n, u) /\ u.triggered
<1> DEFINE Down(u) == Held(n, u) /\ u.triggered
<1>0. /\ \A v : Down(v) => Down(ReleaseCmdKey(v))
      /\ \A v, x : Down(v) => Down([v EXCEPT !.state = x, !.sent = x])
      /\ \A v, x : Down(v) => Down([v EXCEPT !.area = x]) /\ Down([v EXCEPT !.data = x])
      /\ \A v, x, y : Down(v) => Down([v EXCEPT !.state = x, !.data = y]) /\ Down([v EXCEPT !.data = x, !.right = y])
      /\ \A v, x, y, z : Down(v) => Down([v EXCEPT !.data = {"L"}, !.is2F = x, !.area = y, !.packets = z])
      /\ \A v, a, b, c, d : Down(v) => Down([v EXCEPT !.data = a, !.right = b, !.state = c, !.sent = d])
    BY DEF Plain, Held, ReleaseCmdKey
<1>1. /\ Down([t EXCEPT !.triggered = TRUE, !.mode = "BUTTONS"])
      /\ Down([t EXCEPT !.triggered = TRUE, !.mode = "BUTTONS", !.is2F = TRUE])
    BY DEF Held, Noted, Shown
<1> HIDE DEF Down
<1>2. ASSUME NEW u \in VirtualPressed1(t) PROVE Down(u)
    BY <1>0, <1>1 DEF VirtualPressed1
<1>3. ASSUME NEW u \in VirtualPressed2(t) PROVE Down(u)
    <2> DEFINE v    == [t EXCEPT !.triggered = TRUE, !.mode = "BUTTONS", !.is2F = TRUE]
               kept == IF t.state # {} THEN [v EXCEPT !.data = t.state]
                       ELSE [v EXCEPT !.state = {"L"}, !.data = {"L"}]
               both == [IF pad.middle THEN [v EXCEPT !.data = {"M"}] ELSE kept EXCEPT !.area = TRUE]
               none == [IF pad.click2 # {}
                        THEN [v EXCEPT !.data = pad.click2, !.right = @ \/ pad.click2 = {"R"}]
                        ELSE kept EXCEPT !.area = FALSE]
               one  == [v EXCEPT !.data = {"L"}, !.is2F = FALSE, !.area = pad.move2,
                                 !.packets = IF @ > 1 THEN 0 ELSE @]
               chosen == IF t.state = {"L"} THEN {v}
                         ELSE {none} \cup (IF pad.virtual THEN {both, one} ELSE {})
               Sent(w) == IF w.is2F /\ w.data \in {{"M"}, {}} THEN w
                          ELSE [w EXCEPT !.state = w.data, !.sent = w.data]
    <2>1. PICK w \in chosen : u = Sent(ReleaseCmdKey(w)) BY <1>3 DEF VirtualPressed2
    <2>2. Down(v) BY <1>1
    <2> HIDE DEF v
    <2>3. Down(kept) BY <1>0, <2>2
    <2> HIDE DEF kept
    <2>4. Down(both) BY <1>0, <2>2, <2>3
    <2>5. Down(none) BY <1>0, <2>2, <2>3
    <2>6. Down(one) BY <1>0, <2>2
    <2> HIDE DEF both, none, one
    <2>7. Down(w) BY <2>1, <2>2, <2>4, <2>5, <2>6
    <2>8. Down(ReleaseCmdKey(w)) BY <1>0, <2>7
    <2>9. \A x : Down(x) => Down(Sent(x)) BY <1>0
    <2> HIDE DEF Sent, chosen
    <2> QED BY <2>1, <2>8, <2>9
<1> QED BY <1>2, <1>3 DEF Down

\* The button of a clickpad: a drag it holds is let go with it.
LEMMA VirtualButtons ==
    ASSUME pad.clickpad, NEW n, NEW t, Held(n, t),
           NEW pressed \in BOOLEAN, NEW m, NEW u \in ProcessVirtualButtons(t, pressed, m)
    PROVE  /\ Held(n, u)
           /\ pressed => u.triggered
           /\ ~pressed => u.data = {} /\ (pad.pressDrag \/ ~u.holdDrag)
<1> DEFINE p == [t EXCEPT !.rotate = FALSE]
           v == ReleaseCmdKey([p EXCEPT !.triggered = TRUE])
           w == IF v.is2F /\ v.data \in {{"M"}, {}} THEN v ELSE [v EXCEPT !.state = v.data, !.sent = v.data]
<1>0. Held(n, p) BY DEF Held, Noted, Shown
<1> HIDE DEF p
<1>1. Held(n, v) /\ v.triggered BY <1>0 DEF Held, Noted, Shown, ReleaseCmdKey
<1>2. VirtualPressed3(p) = {w} BY DEF VirtualPressed3
<1> HIDE DEF v
<1>3. Held(n, w) /\ w.triggered BY <1>1 DEF Held, Noted, Shown
<1> HIDE DEF w
<1>4. \/ ~pressed /\ u \in VirtualReleased(t)
      \/ pressed /\ (u \in VirtualPressed1(p) \/ u \in VirtualPressed2(p) \/ u = w)
    <2>1. ProcessVirtualButtons(t, pressed, m) =
             CASE ~pressed         -> VirtualReleased(t)
               [] pressed /\ m = 1 -> VirtualPressed1(p)
               [] pressed /\ m = 2 -> VirtualPressed2(p)
               [] OTHER -> {w}
        BY <1>2 DEF ProcessVirtualButtons, p
    <2> QED BY <2>1, Zenon
<1> QED BY <1>0, <1>3, <1>4, VirtualReleases, VirtualPresses

\* What is left to the release timer when a touch ends.
Left(t) == t.data # {} => t.check \/ ((t.buttonTimer \/ pad.dragLock) /\ t.drag)

\* What a gesture makes of a state t with n fingers.
Done(n, t, u) == Held(n, u) /\ (Left(t) => Left(u)) /\ (Plain /\ Noted(t) => Noted(u))

\* A click is noted for the release timer, or there is a drag that it ends.
LEMMA Clicks ==
    ASSUME NEW n, NEW t, Held(n, t)
    PROVE  Done(n, t, Tap1Click(t))
<1> DEFINE noted    == IF ~t.check /\ ~t.drag THEN [t EXCEPT !.check = TRUE] ELSE t
           released == IF t.quick THEN NoButtons(noted) ELSE noted
           clicked  == Resend([released EXCEPT !.data = {"L"}, !.state = @ \cup {"L"}])
           ended    == [NoButtons(released) EXCEPT !.check = FALSE]
<1>1. Held(n, noted) /\ (noted.check \/ noted.drag) BY DEF Held, Noted, Shown
<1> HIDE DEF noted
<1>2. Held(n, released) /\ (released.check \/ released.drag) BY <1>1 DEF Held, Noted, Shown, NoButtons
<1>3. released.tapDrag = t.tapDrag /\ released.holdDrag = t.holdDrag BY DEF released, noted, NoButtons, Held
<1> HIDE DEF released
<1>4. Done(n, t, NoDrag(ended)) BY <1>2 DEF Held, Noted, Shown, Done, Left, NoDrag, NoButtons
<1>5. ~(t.holdDrag \/ t.tapDrag) => Done(n, t, NoDrag(clicked))
    BY <1>2, <1>3 DEF Held, Noted, Shown, Done, Left, NoDrag, Resend
<1>6. Done(n, t, t) BY DEF Done
<1>7. Tap1Click(t) \in {NoDrag(IF t.holdDrag \/ t.tapDrag THEN ended ELSE clicked), t}
    BY DEF Tap1Click, released, noted
<1> QED BY <1>4, <1>5, <1>6, <1>7

\* Taps and actions leave nothing in data that is not noted.
LEMMA Taps ==
    ASSUME NEW n, NEW t, Held(n, t)
    PROVE  /\ \A u \in Tap1(t) : Done(n, t, u)
           /\ t.mode \in {"TAP2", "TAP3"} => \A u \in Tap23(t) : Done(n, t, u)
           /\ \A u \in Tap45(t) : Done(n, t, u)
           /\ Done(n, t, CornerTap(t))
           /\ Done(n, t, Action(t))
<1>1. Done(n, t, t) BY DEF Done
<1>2. ASSUME NEW v, Done(n, t, v) PROVE Done(n, t, Action(v))
    <2>1. Done(n, t, AppSwitch(v)) BY <1>2 DEF Done, Held, Noted, Shown, Left, AppSwitch
    <2>2. Done(n, t, OpenNC(v)) BY <1>2 DEF Done, Held, Noted, Shown, Left, OpenNC
    <2> QED BY <1>2, <2>1, <2>2, Zenon DEF Action
<1>3. Done(n, t, Tap1Click(ReleaseCmdKey(t)))
    <2>1. Done(n, t, ReleaseCmdKey(t)) BY DEF Done, Held, Noted, Shown, Left, ReleaseCmdKey
    <2>2. Done(n, ReleaseCmdKey(t), Tap1Click(ReleaseCmdKey(t))) BY <2>1, Clicks DEF Done
    <2> QED BY <2>1, <2>2 DEF Done
<1>4. ASSUME NEW u \in Tap1(t) PROVE Done(n, t, u)
    <2>1. \/ u = Action(t) \/ u = [t EXCEPT !.accidental = FALSE]
          \/ u = [Tap1Click(ReleaseCmdKey(t)) EXCEPT !.quick = TRUE, !.taps = 0]
        BY Zenon DEF Tap1
    <2> DEFINE v == Tap1Click(ReleaseCmdKey(t))
    <2>2. Done(n, t, v) BY <1>3
    <2> HIDE DEF v
    <2>3. Done(n, t, [v EXCEPT !.quick = TRUE, !.taps = 0]) BY <2>2 DEF Done, Held, Noted, Shown, Left
    <2>4. Done(n, t, [t EXCEPT !.accidental = FALSE]) BY DEF Done, Held, Noted, Shown, Left
    <2> QED BY <1>1, <1>2, <2>1, <2>3, <2>4 DEF v
<1> DEFINE k == IF ~pad.doubleTaps /\ ~t.toggle THEN t.taps ELSE IF t.taps < 4 THEN t.taps + 1 ELSE 4
           c == [t EXCEPT !.taps = k]
<1> HIDE DEF k
<1>5. Done(n, t, c) BY DEF Done, Held, Noted, Shown, Left
<1>6. Done(n, t, Action(c)) BY <1>2, <1>5
<1>7. Done(n, t, [c EXCEPT !.featureTimer = TRUE]) /\ Done(n, t, [c EXCEPT !.taps = k - 1])
    BY DEF Done, Held, Noted, Shown, Left
<1>8. ASSUME t.mode \in {"TAP2", "TAP3"}, NEW u \in Tap23(t) PROVE Done(n, t, u)
    <2> DEFINE v == IF pad.tap = "click" THEN [c EXCEPT !.sent = {}] ELSE Action(c)
    <2>1. Done(n, t, [c EXCEPT !.sent = {}]) BY DEF Done, Held, Noted, Shown, Left
    <2>2. Done(n, t, v) BY <1>6, <2>1
    <2>3. \/ u = [v EXCEPT !.taps = 0, !.data = {}, !.state = {}]
          \/ u = [c EXCEPT !.featureTimer = TRUE] \/ u = [c EXCEPT !.taps = k - 1] \/ u = c
        BY <1>8, Zenon DEF Tap23, k
    <2>5. v.mode \in {"TAP2", "TAP3"}
        <3>1. c.mode = t.mode BY DEF Held
        <3> HIDE DEF c
        <3>2. AppSwitch(c).mode = c.mode /\ OpenNC(c).mode = c.mode /\ [c EXCEPT !.sent = {}].mode = c.mode
            BY <1>5 DEF Done, Held, AppSwitch, OpenNC
        <3>3. Action(c).mode = c.mode BY <3>2, Zenon DEF Action
        <3> QED BY <1>8, <3>1, <3>2, <3>3
    <2> HIDE DEF v
    <2>4. Done(n, t, [v EXCEPT !.taps = 0, !.data = {}, !.state = {}])
        BY <2>2, <2>5 DEF Done, Held, Noted, Shown, Left
    <2> HIDE DEF c
    <2> QED BY <1>5, <1>7, <2>3, <2>4
<1>9. ASSUME NEW u \in Tap45(t) PROVE Done(n, t, u)
    <2> DEFINE v == Action(c)
    <2>1. \/ u = [v EXCEPT !.taps = 0]
          \/ u = [c EXCEPT !.featureTimer = TRUE] \/ u = [c EXCEPT !.taps = k - 1] \/ u = c
        BY Zenon DEF Tap45, k
    <2>2. Done(n, t, v) BY <1>6
    <2> HIDE DEF v
    <2>3. Done(n, t, [v EXCEPT !.taps = 0]) BY <2>2 DEF Done, Held, Noted, Shown, Left
    <2> HIDE DEF c
    <2> QED BY <1>5, <1>7, <2>1, <2>3
<1>10. Done(n, t, CornerTap(t)) BY DEF Done, Held, Noted, Shown, Left, CornerTap
<1> QED BY <1>1, <1>2, <1>4, <1>8, <1>9, <1>10

\* Nor does any gesture that a touch may end with.
LEMMA Gestures ==
    ASSUME NEW n, NEW t, Held(n, t), NEW u \in Gesture(t)
    PROVE  Done(n, t, u)
<1>1. Done(n, t, t) BY DEF Done
<1>2. ASSUME NEW v \in EndScroll(t) PROVE Done(n, t, v)
    BY DEF EndScroll, Done, Held, Noted, Shown, Left
<1>3. \/ u = t \/ u \in Tap1(t) \/ u = CornerTap(t) \/ u \in Tap45(t)
      \/ t.mode \in {"TAP2", "TAP3"} /\ u \in Tap23(t)
      \/ u = Action(t) \/ u \in EndScroll(t)
    BY Zenon DEF Gesture
<1> QED BY <1>1, <1>2, <1>3, Taps

\* The end of a touch starts the timer for whatever is left.
LEMMA TouchEnds ==
    ASSUME NEW n, NEW t, Held(n, t), NEW u \in ProcessTouchEnd(t)
    PROVE  /\ Held(n, u) /\ u.last = 0 /\ u.mode # "SWIPE"
           /\ DragEnds(u) /\ CommandEnds(u)
           /\ t.data = {} \/ ButtonEnds(t) => ButtonEnds(u)
           /\ (Plain => Noted(t)) => SentEnds(u)
<1>1. PICK v \in Gesture(t) : u = ClearTouch(StartReleaseTimers(v)) BY DEF ProcessTouchEnd
<1>2. Held(n, v) /\ (Left(t) => Left(v)) /\ (Plain /\ Noted(t) => Noted(v)) BY <1>1, Gestures DEF Done
<1>3. t.data = {} \/ ButtonEnds(t) => Left(t) BY DEF Left, ButtonEnds, SentEnds
<1> DEFINE w == StartReleaseTimers(v)
<1>4. /\ Held(n, w) /\ DragEnds(w) /\ CommandEnds(w)
      /\ Left(v) => ButtonEnds(w)
      /\ Noted(v) => SentEnds(w)
    BY <1>2 DEF Held, Noted, Shown, DragEnds, CommandEnds, ButtonEnds, SentEnds, Left, StartReleaseTimers
<1> HIDE DEF w
<1> QED BY <1>1, <1>2, <1>3, <1>4 DEF w, ClearTouch, Held, Noted, Shown, DragEnds, CommandEnds, ButtonEnds, SentEnds

---------------------------------------------------------------------------
(* One finger, or the stick. *)

\* Swipes from an edge switch applications, so a stick must not start them.
LEMMA EdgeSwipes ==
    ASSUME NEW n, NEW calm, NEW t, Good(n, calm, t), ~(calm /\ Commands), NEW u \in EdgeSwipe(t)
    PROVE  Good(n, calm, u)
<1>1. PICK v \in {Action(t), Resend(Action(t))} : u = [v EXCEPT !.mode = "SWIPE"]
    BY DEF EdgeSwipe, DispatchEdgeSwipe
<1>2. Good(n, calm, Action(t))
    <2>1. Good(n, calm, AppSwitch(t)) /\ Good(n, calm, OpenNC(t)) /\ Good(n, calm, t)
        BY DEF Good, Held, Noted, Shown, Calm, ButtonEnds, SentEnds, DragEnds, CommandEnds, AppSwitch, OpenNC
    <2> QED BY <2>1, Zenon DEF Action
<1>3. Good(n, calm, v) BY <1>1, <1>2, SmallSteps
<1> QED BY <1>1, <1>3 DEF Good, Held, Noted, Shown, Calm, ButtonEnds, SentEnds, DragEnds, CommandEnds

LEMMA SwipesOfOne ==
    ASSUME NEW n, NEW calm, NEW t, Good(n, calm, t), NEW o \in SwipeOfOne(t)
    PROVE  Good(n, calm, o.s)
<1> DEFINE performed == {t} \cup EdgeSwipe(t)
<1>1. \/ o \in On(t)
      \/ t.mode = "SWIPE" /\ o \in UNION {Off(u) : u \in performed}
      \/ /\ pad.edges
         /\ o \in On(t) \cup UNION {IF u.mode \in Above25 THEN Off(u) ELSE Off(u) \cup On(u) : u \in performed}
    BY Zenon DEF SwipeOfOne, performed
<1>2. o \in On(t) \/ ((t.mode = "SWIPE" \/ pad.edges) /\ \E u \in performed : o.s = u)
    BY <1>1 DEF On, Off
<1>3. calm /\ Commands => t.mode # "SWIPE" /\ ~pad.edges
    BY DEF Good, Calm, Commands, StickAlone
<1> QED BY <1>2, <1>3, EdgeSwipes DEF On

LEMMA SingleSteps ==
    ASSUME NEW n, NEW calm, NEW t, Good(n, calm, t)
    PROVE  /\ \A o \in OnButtonArea(t) : Good(n, calm, o.s)
           /\ \A o \in Corner(t) : Good(n, calm, o.s)
           /\ \A o \in SkipOtherGestures(t) : Good(n, calm, o.s)
           /\ \A o \in EdgeScroll(t) : Good(n, calm, o.s)
<1>1. Good(n, calm, Bump(t)) /\ Good(n, calm, Resend(Bump(t))) BY SmallSteps
<1>2. ASSUME NEW o \in OnButtonArea(t) PROVE Good(n, calm, o.s)
    BY <1>1 DEF OnButtonArea, On, Off
<1>3. Good(n, calm, [t EXCEPT !.mode = "IDLE"])
    BY SmallSteps
<1>4. ASSUME NEW o \in Corner(t) PROVE Good(n, calm, o.s)
    <2>1. o \in On(t) \cup On([t EXCEPT !.mode = "IDLE"]) \cup Off(Resend([t EXCEPT !.mode = "CORNER"]))
        BY Zenon DEF Corner
    <2>2. Good(n, calm, Resend([t EXCEPT !.mode = "CORNER"])) BY SmallSteps DEF Good
    <2> QED BY <1>3, <2>1, <2>2 DEF On, Off
<1>5. ASSUME NEW o \in SkipOtherGestures(t) PROVE Good(n, calm, o.s)
    <2>1. o.s \in {t, StopScrollEnhanceTimer(t), [t EXCEPT !.mode = "IDLE"]}
        <3>1. o \in Off(StopScrollEnhanceTimer(t)) \cup On(t) \cup On([t EXCEPT !.mode = "IDLE"])
            <4>1. \/ o \in (IF t.drag3 THEN On(t) ELSE Off(StopScrollEnhanceTimer(t)))
                           \cup (IF t.packets = 2 THEN On([t EXCEPT !.mode = "IDLE"]) ELSE {})
                  \/ o \in (IF t.drag3 THEN On(t) ELSE Off(StopScrollEnhanceTimer(t)))
                  \/ o \in Off(StopScrollEnhanceTimer(t)) \/ o \in On(t)
                BY Zenon DEF SkipOtherGestures
            <4> QED BY <4>1
        <3> QED BY <3>1 DEF On, Off
    <2> QED BY <1>3, <2>1, SmallSteps
<1>6. ASSUME NEW o \in EdgeScroll(t) PROVE Good(n, calm, o.s)
    <2>1. o.s = t \/ \E m \in {"EDGE", "CIR", "MOVE"} :
                        o.s \in {[t EXCEPT !.mode = m], StopScrollEnhanceTimer([t EXCEPT !.mode = m])}
        <3> DEFINE modes == CASE t.mode = "EDGE" -> {"EDGE", "CIR", "MOVE"}
                              [] t.mode = "CIR"  -> {"CIR", "MOVE"}
                              [] OTHER           -> {"EDGE", "MOVE"}
                   Chosen(m) ==
                      LET u == [t EXCEPT !.mode = m]
                      IN  CASE m = "MOVE" -> On(StopScrollEnhanceTimer(u))
                            [] m = "EDGE" -> On(u) \cup Off(IF u.doCont THEN StopScrollEnhanceTimer(u) ELSE u)
                            [] OTHER      -> On(u)
        <3>1. o \in On(t) \/ \E m \in modes : o \in Chosen(m) BY DEF EdgeScroll
        <3>2. \A m \in modes : m \in {"EDGE", "CIR", "MOVE"}
            <4>1. modes = {"EDGE", "CIR", "MOVE"} \/ modes = {"CIR", "MOVE"} \/ modes = {"EDGE", "MOVE"}
                BY Zenon
            <4> QED BY <4>1
        <3>3. ASSUME NEW m, o \in Chosen(m)
              PROVE  o.s \in {[t EXCEPT !.mode = m], StopScrollEnhanceTimer([t EXCEPT !.mode = m])}
            <4> DEFINE u == [t EXCEPT !.mode = m]
            <4>1. \/ o \in On(StopScrollEnhanceTimer(u)) \/ o \in On(u)
                  \/ o \in On(u) \cup Off(IF u.doCont THEN StopScrollEnhanceTimer(u) ELSE u)
                BY <3>3, Zenon
            <4> HIDE DEF u
            <4>2. o.s \in {u, StopScrollEnhanceTimer(u)} BY <4>1 DEF On, Off
            <4> QED BY <4>2 DEF u
        <3> HIDE DEF modes, Chosen
        <3> QED BY <3>1, <3>2, <3>3 DEF On
    <2>2. \A m \in {"EDGE", "CIR", "MOVE"} : /\ Good(n, calm, [t EXCEPT !.mode = m])
                                             /\ Good(n, calm, StopScrollEnhanceTimer([t EXCEPT !.mode = m]))
        BY SmallSteps
    <2> QED BY <2>1, <2>2
<1> QED BY <1>2, <1>4, <1>5, <1>6

LEMMA DoubleTaps ==
    ASSUME NEW n, NEW calm, NEW t, Good(n, calm, t), NEW o \in DoubleTap(t)
    PROVE  Good(n, calm, o.s)
<1> DEFINE inTime == IF pad.dragging /\ t.check
                     THEN [t EXCEPT !.data = {"L"}, !.state = @ \cup {"L"}, !.tapDrag = TRUE,
                                    !.drag = TRUE, !.job = FALSE, !.buttonTimer = FALSE]
                     ELSE [t EXCEPT !.data = {}, !.state = @ \ {"L"}]
           late == [t EXCEPT !.quick = FALSE]
<1>1. \/ o \in On(t) \/ o \in On(late)
      \/ t.fingers = 1 /\ ~t.triggered
         /\ o \in UNION {On([u EXCEPT !.check = FALSE]) :
                            u \in {inTime} \cup (IF Overlaps \/ ~t.check THEN {late} ELSE {})}
    BY Zenon DEF DoubleTap, inTime, late
<1>2. \/ o.s \in {t, late}
      \/ t.fingers = 1 /\ ~t.triggered /\ o.s = [inTime EXCEPT !.check = FALSE]
      \/ t.fingers = 1 /\ (Overlaps \/ ~t.check) /\ o.s = [late EXCEPT !.check = FALSE]
    <2> HIDE DEF inTime, late
    <2>1. ASSUME o \in UNION {On([u EXCEPT !.check = FALSE]) :
                                u \in {inTime} \cup (IF Overlaps \/ ~t.check THEN {late} ELSE {})}
          PROVE  \/ o \in On([inTime EXCEPT !.check = FALSE])
                 \/ (Overlaps \/ ~t.check) /\ o \in On([late EXCEPT !.check = FALSE])
        <3>1. PICK u \in {inTime} \cup (IF Overlaps \/ ~t.check THEN {late} ELSE {}) :
                  o \in On([u EXCEPT !.check = FALSE])
            BY <2>1
        <3>2. u = inTime \/ ((Overlaps \/ ~t.check) /\ u = late) OBVIOUS
        <3> QED BY <3>1, <3>2
    <2>2. \A x : o \in On(x) => o.s = x BY DEF On
    <2> QED BY <1>1, <2>1, <2>2
<1>3. Good(n, calm, late) BY DEF Good, Held, Noted, Shown, Calm, ButtonEnds, SentEnds, DragEnds, CommandEnds
<1>4. ASSUME t.fingers = 1 PROVE ~calm BY <1>4 DEF Good, Held, StickAlone
<1>5. ASSUME ~t.triggered PROVE Held(n, [inTime EXCEPT !.check = FALSE])
    <2>1. CASE pad.dragging /\ t.check BY <2>1 DEF Good, Held, Noted, Shown
    <2>2. CASE ~(pad.dragging /\ t.check)
        <3> DEFINE v == [t EXCEPT !.data = {}, !.state = @ \ {"L"}]
                   w == [v EXCEPT !.check = FALSE]
        <3>1. /\ t.state = {} => v.state = {}
              /\ v.data = {}
            BY DEF Good, Held
        <3>2. Held(n, w) BY <1>5, <2>2, <3>1 DEF Good, Held, Noted, Shown, Plain
        <3> QED BY <2>2, <3>2
    <2> QED BY <2>1, <2>2
<1>6. ASSUME Overlaps \/ ~t.check PROVE Held(n, [late EXCEPT !.check = FALSE])
    BY <1>6 DEF Good, Held, Noted, Shown, Plain
<1> HIDE DEF inTime, late
<1> QED BY <1>2, <1>3, <1>4, <1>5, <1>6 DEF Good

\* Scrolling starts and stops timers that hold nothing.
LEMMA Scrolls ==
    ASSUME NEW n, NEW calm, NEW t, Good(n, calm, t)
    PROVE  /\ Good(n, calm, StartScroll(t)) /\ Good(n, calm, StopScroll(t))
           /\ \A u \in ProcessScroll(t) : Good(n, calm, u)
<1>1. ASSUME NEW v, Good(n, calm, v)
      PROVE  /\ Good(n, calm, StartScroll(v)) /\ Good(n, calm, StopScroll(v))
             /\ Good(n, calm, [v EXCEPT !.doCont = FALSE])
    BY <1>1 DEF Good, Held, Noted, Shown, Calm, ButtonEnds, SentEnds, DragEnds, CommandEnds, StartScroll, StopScroll
<1>2. ASSUME NEW v, Good(n, calm, v) PROVE Good(n, calm, TurnsContinuous(v))
    BY <1>2, SmallSteps DEF TurnsContinuous
<1>3. ASSUME NEW v, Good(n, calm, v)
      PROVE  /\ \A u \in CircularScroll(v) : Good(n, calm, u)
             /\ \A u \in SlowScroll(v) : Good(n, calm, u)
             /\ \A u \in NormalScroll(v) : Good(n, calm, u)
    <2>1. Good(n, calm, TurnsContinuous(v)) BY <1>2, <1>3
    <2>2. Good(n, calm, StartScroll(TurnsContinuous(v))) /\ Good(n, calm, StopScroll(TurnsContinuous(v)))
        BY <1>1, <2>1
    <2>3. \A u \in SlowScroll(v) : Good(n, calm, u) BY <1>3, <2>1, <2>2 DEF SlowScroll
    <2>4. \A u \in CircularScroll(v) : Good(n, calm, u) BY <1>1, <1>3 DEF CircularScroll
    <2>5. Good(n, calm, [v EXCEPT !.doCont = FALSE]) BY <1>1, <1>3
    <2>6. Good(n, calm, StartScroll([v EXCEPT !.doCont = FALSE])) BY <1>1, <2>5
    <2>7. \A u \in NormalScroll(v) : Good(n, calm, u) BY <2>5, <2>6 DEF NormalScroll
    <2> QED BY <2>3, <2>4, <2>7
<1>4. ASSUME NEW u \in ProcessScroll(t) PROVE Good(n, calm, u)
    <2> DEFINE scrolled(v) == IF v.mode = "CIR" THEN CircularScroll(v)
                              ELSE {v} \cup SlowScroll(v) \cup NormalScroll(v)
                                   \cup (IF pad.cont THEN {} ELSE {StopScroll(v)})
    <2>1. PICK v \in Each(ScrollMode(t), ScrollDirection) : u \in scrolled(v)
        BY <1>4 DEF ProcessScroll, Each
    <2>2. PICK w \in ScrollMode(t) : v \in ScrollDirection(w) BY DEF Each
    <2>3. Good(n, calm, [t EXCEPT !.mode = "SCROLL"]) BY SmallSteps
    <2>4. Good(n, calm, w) BY <2>3 DEF ScrollMode
    <2>5. Good(n, calm, [w EXCEPT !.packets = 0]) BY <2>4, SmallSteps
    <2>6. Good(n, calm, v) BY <2>2, <2>4, <2>5 DEF ScrollDirection
    <2> QED BY <1>1, <1>3, <2>1, <2>6
<1> QED BY <1>1, <1>4

\* Moving the pointer and what it drags.
LEMMA PointerSteps ==
    ASSUME NEW n, NEW calm, NEW t, Good(n, calm, t)
    PROVE  /\ \A u \in Buttons(t) : Good(n, calm, u)
           /\ \A u \in PointerMoves(t) : Good(n, calm, u)
           /\ \A tap : Good(n, calm, TapDetected(t, tap))
           /\ \A u \in QuickTap(t) : Good(n, calm, u)
<1>1. ASSUME NEW u \in Buttons(t) PROVE Good(n, calm, u)
    <2> DEFINE dragged == [t EXCEPT !.state = @ \cup {"L"}]
               started == [dragged EXCEPT !.holdDrag = TRUE, !.drag = TRUE]
               other   == IF t.triggered THEN [t EXCEPT !.state = @ \cup t.data]
                          ELSE [t EXCEPT !.data = {}, !.state = IF t.drag THEN @ \cup {"L"} ELSE @]
    <2>1. \/ u = other \/ (pad.pressDrag /\ u = started)
          \/ (t.tapDrag \/ t.holdDrag) /\ u = dragged
        <3>1. \/ (t.tapDrag \/ t.holdDrag) /\ u \in {dragged}
              \/ u \in {other}
              \/ pad.pressDrag /\ u \in {other, started}
            BY Zenon DEF Buttons, dragged, started, other
        <3> QED BY <3>1
    <2>2. (t.tapDrag \/ t.holdDrag) => Good(n, calm, dragged)
        BY DEF Good, Held, Noted, Shown, Calm, ButtonEnds, SentEnds, DragEnds, CommandEnds, Plain
    <2>4. Good(n, calm, other)
        <3> DEFINE pressed == [t EXCEPT !.state = @ \cup t.data]
                   more    == [t EXCEPT !.data = {}, !.state = @ \cup {"L"}]
                   none    == [t EXCEPT !.data = {}]
        <3>1. t.triggered => Good(n, calm, pressed)
            <4>1. /\ pressed.data = t.data /\ pressed.sent = t.sent /\ (t.state # {} => pressed.state # {})
                  /\ pressed.state # {} => t.state # {} \/ t.data # {}
                BY DEF Good, Held
            <4> QED BY <4>1 DEF Good, Held, Noted, Shown, Calm, ButtonEnds, SentEnds, DragEnds, CommandEnds
        <3>2. t.drag => Good(n, calm, more)
            BY DEF Good, Held, Noted, Shown, Calm, ButtonEnds, SentEnds, DragEnds, CommandEnds, Plain
        <3>3. Good(n, calm, none)
            BY DEF Good, Held, Noted, Shown, Calm, ButtonEnds, SentEnds, DragEnds, CommandEnds
        <3>4. other = IF t.triggered THEN pressed ELSE IF t.drag THEN more ELSE none
            BY DEF Good, Held
        <3> HIDE DEF other, pressed, more, none
        <3> QED BY <3>1, <3>2, <3>3, <3>4
    <2>3. pad.pressDrag => Good(n, calm, started)
        <3>1. pad.pressDrag => Held(n, started) BY DEF Good, Held, Noted, Shown
        <3>2. pad.pressDrag /\ calm => ~Drags BY DEF Good, StickAlone, Drags
        <3>3. calm => StickAlone(n) /\ Calm(t) BY DEF Good
        <3>4. pad.pressDrag /\ calm => Calm(started)
            BY <3>2, <3>3 DEF Good, Held, Plain, Calm, ButtonEnds, SentEnds, DragEnds, CommandEnds
        <3> QED BY <3>1, <3>3, <3>4 DEF Good
    <2> QED BY <2>1, <2>2, <2>3, <2>4
<1>2. ASSUME NEW u \in PointerMoves(t) PROVE Good(n, calm, u)
    <2>1. PICK v \in {t, Resend(t)} : u = [v EXCEPT !.mode = IF t.packets = 2 THEN "MOVE" ELSE @]
        BY DEF PointerMoves
    <2>2. Good(n, calm, v) BY SmallSteps
    <2> QED BY <2>1, <2>2 DEF Good, Held, Noted, Shown, Calm, ButtonEnds, SentEnds, DragEnds, CommandEnds
<1>3. ASSUME NEW tap PROVE Good(n, calm, TapDetected(t, tap))
    <2>1. TapDetected(t, tap) \in {t, [t EXCEPT !.mode = "TAP1"], [t EXCEPT !.mode = "IDLE"]}
        <3>1. \/ TapDetected(t, tap) = t \/ TapDetected(t, tap) = [t EXCEPT !.mode = "TAP1"]
              \/ TapDetected(t, tap) = [t EXCEPT !.mode = "IDLE"]
            BY Zenon DEF TapDetected
        <3> QED BY <3>1
    <2>2. Good(n, calm, [t EXCEPT !.mode = "TAP1"]) /\ Good(n, calm, [t EXCEPT !.mode = "IDLE"])
        BY SmallSteps
    <2> QED BY <2>1, <2>2
<1>4. ASSUME NEW u \in QuickTap(t) PROVE Good(n, calm, u)
    <2>1. ~calm BY DEF QuickTap, Good, StickAlone
    <2> DEFINE w == [t EXCEPT !.mode = "TAP1"]
    <2>2. Held(n, w) BY SmallSteps DEF Good, Held
    <2>3. PICK v \in ProcessTouchEnd(w) : u = [v EXCEPT !.ended = TRUE] BY DEF QuickTap
    <2> HIDE DEF w
    <2>4. Held(n, v) BY <2>2, TouchEnds
    <2> QED BY <2>1, <2>3, <2>4 DEF Good, Held, Noted, Shown
<1> QED BY <1>1, <1>2, <1>3, <1>4

\* One finger, and a stick while nothing touches.
LEMMA SingleFinger ==
    ASSUME NEW n, NEW calm, NEW t, Good(n, calm, t), NEW u \in ProcessSingleFinger(t)
    PROVE  Good(n, calm, u)
<1>1. ASSUME NEW v, Good(n, calm, v), NEW w \in MovePointer(v) PROVE Good(n, calm, w)
    <2>1. \/ \E x \in PointerMoves(v), tap \in BOOLEAN : w = TapDetected(x, tap)
          \/ \E x \in PointerMoves([v EXCEPT !.ended = FALSE]) : w = TapDetected(x, TRUE)
          \/ w \in QuickTap(v)
        BY <1>1 DEF MovePointer, Each
    <2>2. Good(n, calm, [v EXCEPT !.ended = FALSE]) BY <1>1, SmallSteps
    <2> QED BY <1>1, <2>1, <2>2, PointerSteps
<1>2. ASSUME NEW v, Good(n, calm, v), NEW w \in OneFinger(v) PROVE Good(n, calm, w)
    <2>1. w \in Each(Buttons(v), MovePointer) \/ w \in EdgePacket(v) \/ w \in CircularPacket(v) \/ w \in {v}
        BY <1>2, Zenon DEF OneFinger
    <2>2. ASSUME w \in Each(Buttons(v), MovePointer) PROVE Good(n, calm, w)
        <3>1. PICK x \in Buttons(v) : w \in MovePointer(x) BY <2>2 DEF Each
        <3> QED BY <1>1, <1>2, <3>1, PointerSteps
    <2>3. w \in EdgePacket(v) => Good(n, calm, w) BY <1>2, Scrolls DEF EdgePacket
    <2>4. w \in CircularPacket(v) => Good(n, calm, w) BY <1>2, Scrolls DEF CircularPacket
    <2> QED BY <1>2, <2>1, <2>2, <2>3, <2>4
<1> DEFINE point(v) == {[go |-> "return", s |-> w] : w \in OneFinger(v)}
           Fine(outcomes) == \A o \in outcomes : Good(n, calm, o.s)
<1>3. Fine(OnButtonArea(t)) BY SingleSteps
<1>4. Fine(Then(OnButtonArea(t), SwipeOfOne)) BY <1>3, SwipesOfOne DEF Then
<1> DEFINE a == Then(OnButtonArea(t), SwipeOfOne)
<1> HIDE DEF a
<1>5. Fine(Then(a, Corner)) BY <1>4, SingleSteps DEF Then, a
<1> DEFINE b == Then(a, Corner)
<1> HIDE DEF b
<1>6. Fine(Then(b, SkipOtherGestures)) BY <1>5, SingleSteps DEF Then, b
<1> DEFINE c == Then(b, SkipOtherGestures)
<1> HIDE DEF c
<1>7. Fine(Then(c, DoubleTap)) BY <1>6, DoubleTaps DEF Then, c
<1> DEFINE d == Then(c, DoubleTap)
<1> HIDE DEF d
<1>8. Fine(Then(d, EdgeScroll)) BY <1>7, SingleSteps DEF Then, d
<1> DEFINE e == Then(d, EdgeScroll)
<1> HIDE DEF e
<1>9. Fine(Then(e, point)) BY <1>2, <1>8 DEF Then, e
<1> QED BY <1>9 DEF ProcessSingleFinger, States, a, b, c, d, e

---------------------------------------------------------------------------
(* Two fingers and more.  Held is kept whatever the outcome. *)

HeldAll(n, outcomes) == \A o \in outcomes : Held(n, o.s)

\* The state of an outcome, whatever the method leaves to be done.
LEMMA Outcomes ==
    \A t : /\ \A o \in On(t) \cup Off(t) \cup Drag(t) \cup One(t) \cup Two(t) \cup Many(t) : o.s = t
           /\ [go |-> "drag and stop", s |-> t].s = t
<1>1. \A t : \A o \in On(t) \cup Off(t) \cup Drag(t) \cup One(t) \cup Two(t) \cup Many(t) : o.s = t
    BY DEF On, Off, Drag, One, Two, Many
<1>2. \A t, go : [go |-> go, s |-> t].s = t OBVIOUS
<1> QED BY <1>1, <1>2, Zenon

\* The same lemmas where fingers touch, for Held alone.
LEMMA HeldSteps ==
    ASSUME NEW n, NEW t, Held(n, t)
    PROVE  /\ Held(n, Bump(t)) /\ Held(n, Resend(t)) /\ Held(n, StopScrollEnhanceTimer(t))
           /\ \A m : m \notin {"TAP2", "TAP3"} => Held(n, [t EXCEPT !.mode = m])
           /\ \A p : Held(n, [t EXCEPT !.packets = p])
           /\ \A u \in EdgeSwipe(t) : Held(n, u)
           /\ \A u \in ProcessScroll(t) : Held(n, u)
           /\ \A u \in ProcessSingleFinger(t) : Held(n, u)
<1>1. Good(n, FALSE, t) BY DEF Good
<1>2. \A m : m \notin {"TAP2", "TAP3"} => Held(n, [t EXCEPT !.mode = m]) BY DEF Held, Noted, Shown
<1> QED BY <1>1, <1>2, SmallSteps, EdgeSwipes, Scrolls, SingleFinger DEF Good

\* Presses start drags where the user has press drags.
LEMMA Presses ==
    ASSUME NEW n, NEW t, Held(n, t), NEW m, NEW u \in PressOrToggle(t, m)
    PROVE  Held(n, u)
<1>1. ASSUME NEW x, x \notin {"TAP2", "TAP3"}
      PROVE  Held(n, [Resend(t) EXCEPT !.mode = x]) /\ Held(n, [PressAction(t) EXCEPT !.mode = x])
    <2>1. Held(n, Resend(t)) /\ Held(n, PressAction(t)) BY Actions, HeldSteps
    <2> QED BY <1>1, <2>1, HeldSteps
<1>2. ASSUME NEW x, pad.pressDrag
      PROVE  Held(n, [t EXCEPT !.drag = TRUE, !.holdDrag = TRUE, !.drag3 = TRUE, !.mode = x])
    BY <1>2 DEF Held, Noted, Shown
<1> DEFINE x == IF m < 4 THEN "PRESS2" ELSE "PRESS4"
<1>3. x \notin {"TAP2", "TAP3"} OBVIOUS
<1>4. \/ u = t \/ u = [Resend(t) EXCEPT !.mode = x] \/ u = [PressAction(t) EXCEPT !.mode = x]
      \/ pad.pressDrag /\ u = [t EXCEPT !.drag = TRUE, !.holdDrag = TRUE, !.drag3 = TRUE, !.mode = x]
    BY DEF PressOrToggle, FingersPress
<1> HIDE DEF x
<1> QED BY <1>1, <1>2, <1>3, <1>4

LEMMA TwoSteps ==
    ASSUME NEW n, NEW t, Held(n, t)
    PROVE  /\ HeldAll(n, SwipeOfTwo(t))
           /\ HeldAll(n, SkipForTwo(t))
           /\ HeldAll(n, ZoomOrRotate(t))
           /\ HeldAll(n, ScrollWithTwo(t))
           /\ HeldAll(n, PressWithTwo(t))
           /\ \A u \in TapWithTwo(t) : Held(n, u)
<1> DEFINE stopped == StopScrollEnhanceTimer(t)
<1>0. Held(n, stopped) BY HeldSteps
<1>1. HeldAll(n, SwipeOfTwo(t))
    <2> DEFINE twice == UNION {EdgeSwipe(u) : u \in EdgeSwipe(t)}
    <2>1. \A u \in {t} \cup twice : Held(n, u) BY HeldSteps
    <2> HIDE DEF twice
    <2>2. \A u \in {t} \cup twice : Held(n, StopScrollEnhanceTimer(u)) BY <2>1, HeldSteps
    <2>3. \A o \in SwipeOfTwo(t) : o.s = t \/ \E u \in {t} \cup twice : o.s = StopScrollEnhanceTimer(u)
        BY DEF SwipeOfTwo, On, Off, twice
    <2> QED BY <2>2, <2>3 DEF HeldAll
<1>2. HeldAll(n, SkipForTwo(t))
    <2> DEFINE idle == [stopped EXCEPT !.mode = "IDLE"]
    <2>1. Held(n, idle) BY <1>0, HeldSteps
    <2>2. ASSUME NEW o \in SkipForTwo(t) PROVE o.s \in {t, stopped, idle}
        <3> DEFINE all == On(t) \cup Off(t) \cup Drag(t) \cup On(stopped) \cup Off(stopped) \cup On(idle)
                          \cup {[go |-> "drag and stop", s |-> t]}
                   cleared == On(stopped) \cup (IF t.packets = 2 THEN On(idle) ELSE {})
                   orStop(os) == IF pad.edges THEN os \cup Off(stopped) ELSE os
                   dragOr(os) == IF t.drag3 THEN Drag(t) ELSE os
                   dragThenStop == IF t.drag3 THEN {[go |-> "drag and stop", s |-> t]} ELSE Off(stopped)
        <3>1. \/ o \in (IF t.packets = 2 THEN On(t) ELSE {}) \cup dragOr(orStop(cleared))
              \/ o \in dragOr(orStop(cleared))
              \/ o \in orStop(cleared)
              \/ o \in IF t.rotate THEN dragThenStop ELSE On(t)
              \/ o \in dragThenStop
              \/ o \in Off(stopped)
              \/ o \in dragOr(On(t) \cup (IF t.last > 2 THEN Off(t) ELSE {}))
              \/ o \in orStop(On(t))
            BY <2>2, Zenon DEF SkipForTwo, stopped, idle, cleared, orStop, dragOr, dragThenStop
        <3> HIDE DEF idle, stopped
        <3>2. o \in all BY <3>1
        <3> QED BY <3>2, Outcomes
    <2> HIDE DEF idle, stopped
    <2> QED BY <1>0, <2>1, <2>2 DEF HeldAll
<1>3. HeldAll(n, ZoomOrRotate(t))
    <2> DEFINE rotated == [t EXCEPT !.mode = "ROTATE", !.rotate = TRUE]
               zoomed  == [t EXCEPT !.mode = "ZOOM"]
    <2>1. Held(n, rotated) /\ Held(n, zoomed) BY DEF Held, Noted, Shown
    <2> HIDE DEF rotated, zoomed
    <2>2. \A o \in ZoomOrRotate(t) : o \in On(t) \cup On(rotated) \cup Off(zoomed)
        BY DEF ZoomOrRotate, Rotates, Zooms, rotated, zoomed
    <2> QED BY <2>1, <2>2, Outcomes DEF HeldAll
<1>4. HeldAll(n, ScrollWithTwo(t))
    <2>1. \A v \in ZoomConflict(t) : Held(n, v) BY <1>0 DEF ZoomConflict
    <2>2. \A v \in Each(ZoomConflict(t), ProcessScroll) : Held(n, v) BY <2>1, HeldSteps DEF Each
    <2> HIDE DEF stopped
    <2>3. \A o \in ScrollWithTwo(t) : o.s = t \/ o.s \in {t, stopped} \cup Each(ZoomConflict(t), ProcessScroll)
        BY DEF ScrollWithTwo, On, stopped
    <2> QED BY <1>0, <2>2, <2>3 DEF HeldAll
<1>5. HeldAll(n, PressWithTwo(t))
    <2>1. \A u \in PressOrToggle(t, 2) : Held(n, StopScrollEnhanceTimer(u)) BY Presses, HeldSteps
    <2>2. \A o \in PressWithTwo(t) :
             o.s \in {t, stopped} \/ \E u \in PressOrToggle(t, 2) : o.s = StopScrollEnhanceTimer(u)
        <3> HIDE DEF stopped
        <3> QED BY DEF PressWithTwo, On, stopped
    <2> HIDE DEF stopped
    <2> QED BY <1>0, <2>1, <2>2 DEF HeldAll
<1>6. ASSUME NEW u \in TapWithTwo(t) PROVE Held(n, u)
    <2>1. ~t.triggered => Held(n, [t EXCEPT !.mode = "TAP2"]) BY DEF Held, Noted, Shown
    <2>2. Held(n, [t EXCEPT !.mode = "IDLE"]) BY HeldSteps
    <2>3. \/ u = t \/ u = [t EXCEPT !.mode = "IDLE"]
          \/ ~t.triggered /\ u = [t EXCEPT !.mode = "TAP2"]
        BY DEF TapWithTwo
    <2> QED BY <2>1, <2>2, <2>3
<1> QED BY <1>1, <1>2, <1>3, <1>4, <1>5, <1>6

\* Two fingers, from the steps of the method.
LEMMA TwoFingers ==
    ASSUME NEW n, NEW t, Held(n, t)
    PROVE  HeldAll(n, ProcessTwoFingers(t))
<1> DEFINE u == Bump(t)
           low == Off(u) \cup Off([u EXCEPT !.packets = 0])
           tap(v) == UNION {Off(w) : w \in TapWithTwo(v)}
<1>1. Held(n, u) BY HeldSteps
<1> HIDE DEF u
<1>2. HeldAll(n, low) BY <1>1, HeldSteps DEF HeldAll, Off
<1>3. HeldAll(n, SwipeOfTwo(u)) BY <1>1, TwoSteps
<1> DEFINE a == SwipeOfTwo(u)
<1> HIDE DEF a
<1>4. HeldAll(n, Then(a, SkipForTwo)) BY <1>3, TwoSteps DEF Then, HeldAll, a
<1> DEFINE b == Then(a, SkipForTwo)
<1> HIDE DEF b
<1>5. HeldAll(n, Then(b, ZoomOrRotate)) BY <1>4, TwoSteps DEF Then, HeldAll, b
<1> DEFINE c == Then(b, ZoomOrRotate)
<1> HIDE DEF c
<1>6. HeldAll(n, Then(c, ScrollWithTwo)) BY <1>5, TwoSteps DEF Then, HeldAll, c
<1> DEFINE d == Then(c, ScrollWithTwo)
<1> HIDE DEF d
<1>7. HeldAll(n, Then(d, PressWithTwo)) BY <1>6, TwoSteps DEF Then, HeldAll, d
<1> DEFINE e == Then(d, PressWithTwo)
<1> HIDE DEF e
<1>8. ASSUME NEW v, Held(n, v) PROVE HeldAll(n, tap(v)) BY <1>8, TwoSteps DEF HeldAll, Off
<1> HIDE DEF tap
<1>9. HeldAll(n, Then(e, tap)) BY <1>7, <1>8 DEF Then, HeldAll, e
<1>10. ProcessTwoFingers(t) = low \cup Then(e, tap) BY DEF ProcessTwoFingers, u, tap, a, b, c, d, e
<1> HIDE DEF low
<1> QED BY <1>2, <1>9, <1>10 DEF HeldAll

\* Two fingers on a clickpad.
LEMMA ClickPads ==
    ASSUME pad.clickpad, NEW n, NEW t, Held(n, t), NEW pressed \in BOOLEAN
    PROVE  HeldAll(n, ProcessClickPad2F(t, pressed))
<1>1. ASSUME NEW v, Held(n, v) PROVE HeldAll(n, DragWithTwo(v))
    <2> DEFINE w == [v EXCEPT !.mode = "MOVE"]
    <2>1. Held(n, w) BY <1>1, HeldSteps
    <2> HIDE DEF w
    <2>2. \A o \in DragWithTwo(v) : o \in Off(v) \cup Off(w) \cup One(w) BY DEF DragWithTwo, w
    <2> QED BY <1>1, <2>1, <2>2, Outcomes DEF HeldAll
<1>2. ASSUME NEW v, Held(n, v) PROVE HeldAll(n, ThumbOnButton(v, pressed))
    <2> DEFINE w == [v EXCEPT !.mode = "MOVE", !.area = TRUE]
               left(x) == IF x.triggered /\ x.data # {"L"}
                          THEN [x EXCEPT !.state = {"L"}, !.data = {"L"}, !.is2F = FALSE] ELSE x
    <2>1. Held(n, w) BY <1>2 DEF Held, Noted, Shown
    <2> HIDE DEF w
    <2>2. \A x \in ProcessVirtualButtons(w, pressed, 1) : Held(n, x) BY <2>1, VirtualButtons
    <2>3. \A x : Held(n, x) => Held(n, left(x)) BY DEF Held, Plain
    <2> HIDE DEF left
    <2>4. ThumbOnButton(v, pressed) = UNION {One(left(x)) : x \in ProcessVirtualButtons(w, pressed, 1)}
        BY DEF ThumbOnButton, w, left
    <2> QED BY <2>2, <2>3, <2>4, Outcomes DEF HeldAll
<1> DEFINE Moves(u) ==
               CASE u.mode \in {"CONT", "SCROLL", "ZOOM", "ROTATE", "PRESS2", "TAP2"}
                    \/ ~(pad.move2 \/ pressed) \/ u.drag3 -> Two(u)
                 [] OTHER ->
                    IF (~pad.virtual \/ u.is2F) /\ pressed THEN DragWithTwo(u)
                    ELSE ThumbOnButton(u, pressed) \cup (IF ~u.triggered /\ ~u.drag THEN Two(u) ELSE Off(u))
<1>3. ASSUME NEW v, Held(n, v) PROVE HeldAll(n, Moves(v))
    <2>1. \/ Moves(v) = Two(v)
          \/ Moves(v) = IF (~pad.virtual \/ v.is2F) /\ pressed THEN DragWithTwo(v)
                        ELSE ThumbOnButton(v, pressed) \cup (IF ~v.triggered /\ ~v.drag THEN Two(v) ELSE Off(v))
        BY Zenon
    <2> HIDE DEF Moves
    <2>2. \A o \in Moves(v) : o \in DragWithTwo(v) \cup ThumbOnButton(v, pressed) \cup Two(v) \cup Off(v)
        BY <2>1
    <2> QED BY <1>1, <1>2, <1>3, <2>2, Outcomes DEF HeldAll
<1>4. \A v \in ProcessVirtualButtons(t, pressed, t.fingers) : Held(n, v) BY VirtualButtons
<1> HIDE DEF Moves
<1>5. ProcessClickPad2F(t, pressed) = Each(ProcessVirtualButtons(t, pressed, t.fingers), Moves)
    BY DEF ProcessClickPad2F, Moves
<1> QED BY <1>3, <1>4, <1>5 DEF HeldAll, Each

LEMMA ManySteps ==
    ASSUME NEW n, NEW t, Held(n, t)
    PROVE  /\ (Plain => Noted(t)) => HeldAll(n, SkipForMany(t))
           /\ HeldAll(n, PressWithMany(t))
           /\ \A u \in SwipeOrPinch(t) : Held(n, u)
<1> DEFINE stopped == StopScrollEnhanceTimer(t)
<1>0. Held(n, stopped) BY HeldSteps
<1>1. ASSUME Plain => Noted(t) PROVE HeldAll(n, TapWithMany(t))
    <2> DEFINE tap == IF t.last > t.fingers THEN t
                      ELSE [t EXCEPT !.mode = IF t.fingers = 3 THEN "TAP3" ELSE "TAP4"]
               notTap == IF t.mode \in {"TAP3", "TAP4"} THEN [t EXCEPT !.mode = "IDLE"] ELSE t
    <2>1. Held(n, notTap) BY HeldSteps
    <2>3. \A m : Held(n, [t EXCEPT !.mode = m]) BY <1>1 DEF Held, Noted, Shown
    <2>4. Held(n, tap) BY <2>3
    <2> HIDE DEF tap, notTap
    <2>2. TapWithMany(t) = Off(notTap) \cup On(tap) \cup On(notTap) BY DEF TapWithMany, tap, notTap
    <2> QED BY <2>1, <2>2, <2>4, Outcomes DEF HeldAll
<1>2. ASSUME Plain => Noted(t) PROVE HeldAll(n, SkipForMany(t))
    <2> DEFINE idle == [stopped EXCEPT !.mode = "IDLE"]
               dragOr(v, os) == IF v.drag3 THEN Drag(v) ELSE os
               skip(v) == IF ~v.app /\ ~((v.is2F \/ v.area) /\ v.triggered) THEN On(v)
                          ELSE dragOr(v, Off(StopScrollEnhanceTimer(v)))
    <2>1. Held(n, idle) BY <1>0, HeldSteps
    <2>2. \/ SkipForMany(t) = Drag(t) \/ SkipForMany(t) = On(idle)
          \/ SkipForMany(t) = dragOr(t, Off(stopped)) \/ SkipForMany(t) = Off(stopped)
          \/ SkipForMany(t) = Then(TapWithMany(t), skip)
        <3>1. SkipForMany(t) =
                 CASE t.mode \in {"MOVE", "IDLE"} /\ t.drag3 -> Drag(t)
                   [] (t.mode = "MOVE" /\ ~t.drag3)
                      \/ t.mode \in {"TAP1", "TAP2", "CORNER", "CONT", "SCROLL"} \cup EdgeModes -> On(idle)
                   [] t.mode \in {"MULTI", "TOGGLE", "PINCH4", "PINCH5", "PRESS2"} -> dragOr(t, Off(stopped))
                   [] t.mode \in {"PRESS4", "ZOOM", "ROTATE"} -> Off(stopped)
                   [] OTHER -> Then(TapWithMany(t), skip)
            BY DEF SkipForMany
        <3> HIDE DEF idle, stopped, skip, dragOr
        <3> QED BY <3>1, Zenon
    <2> HIDE DEF idle, stopped
    <2>3. ASSUME NEW v, Held(n, v) PROVE HeldAll(n, skip(v))
        <3>1. \A o \in skip(v) : o \in On(v) \cup Drag(v) \cup Off(StopScrollEnhanceTimer(v)) OBVIOUS
        <3>2. Held(n, StopScrollEnhanceTimer(v)) BY <2>3, HeldSteps
        <3> HIDE DEF skip
        <3> QED BY <2>3, <3>1, <3>2, Outcomes DEF HeldAll
    <2> HIDE DEF skip
    <2>4. HeldAll(n, Then(TapWithMany(t), skip)) BY <1>1, <1>2, <2>3 DEF HeldAll, Then
    <2>5. \A o \in Drag(t) \cup On(idle) \cup dragOr(t, Off(stopped)) \cup Off(stopped) : Held(n, o.s)
        BY <1>0, <2>1, Outcomes
    <2> QED BY <2>2, <2>4, <2>5 DEF HeldAll
<1>3. HeldAll(n, PressWithMany(t))
    <2>1. \A o \in PressWithMany(t) :
             o \in Off(t) \cup On(t) \/ \E u \in PressOrToggle(t, t.fingers) : o \in Off(u) \cup On(u)
        BY DEF PressWithMany
    <2> QED BY <2>1, Presses, Outcomes DEF HeldAll
<1>4. ASSUME NEW u \in SwipeOrPinch(t) PROVE Held(n, u)
    <2> DEFINE four == IF t.fingers = 4 /\ ~t.toggle /\ pad.vendor = "v4" THEN PinchOfFour(t) ELSE {}
    <2>1. u \in PinchOfFive(t) \/ u \in SwipeOfMany(t) \cup four \/ u \in {t}
        BY Zenon DEF SwipeOrPinch, four
    <2>2. \A m : m \notin {"TAP2", "TAP3"} =>
                 /\ Held(n, [PressAction(t) EXCEPT !.mode = m]) /\ Held(n, [Resend(t) EXCEPT !.mode = m])
                 /\ Held(n, [t EXCEPT !.mode = m])
        BY Actions, HeldSteps
    <2>3. u \in PinchOfFive(t) => Held(n, u) BY <2>2 DEF PinchOfFive
    <2>4. u \in SwipeOfMany(t) => Held(n, u) BY <2>2 DEF SwipeOfMany
    <2>5. u \in four => Held(n, u) BY <2>2 DEF PinchOfFour
    <2> QED BY <2>1, <2>3, <2>4, <2>5
<1> QED BY <1>2, <1>3, <1>4

\* Three fingers and more, from the steps of the method.
LEMMA ManyFingers ==
    ASSUME NEW n, NEW t, Held(n, t), Plain => Noted(t)
    PROVE  HeldAll(n, ProcessMultiFingers(t))
<1> DEFINE last(v) == UNION {Off(w) : w \in SwipeOrPinch(v)}
           a == SkipForMany(Bump(t))
<1>1. HeldAll(n, a)
    <2>1. Plain => Noted(Bump(t)) BY DEF Held, Noted, Shown, Bump
    <2>2. Held(n, Bump(t)) BY HeldSteps
    <2> QED BY <2>1, <2>2, ManySteps
<1> HIDE DEF a
<1> DEFINE b == Then(a, PressWithMany)
<1>2. HeldAll(n, b) BY <1>1, ManySteps DEF Then, HeldAll
<1> HIDE DEF b
<1>3. ASSUME NEW v, Held(n, v) PROVE HeldAll(n, last(v)) BY <1>3, ManySteps, Outcomes DEF HeldAll
<1> HIDE DEF last
<1>4. HeldAll(n, Then(b, last)) BY <1>2, <1>3 DEF Then, HeldAll
<1> QED BY <1>4 DEF ProcessMultiFingers, a, b, last

\* Each state that the methods leave has the fingers of an outcome.
LEMMA Handing ==
    ASSUME NEW outcomes,
           \A o \in outcomes : Held(o.s.fingers, o.s) /\ (Plain /\ o.go = "many" => Noted(o.s)),
           NEW u \in Touched(outcomes)
    PROVE  \E o \in outcomes : Held(o.s.fingers, u)
<1> DEFINE handed(o) == CASE o.go = "two"  -> ProcessTwoFingers(o.s)
                          [] o.go = "many" -> ProcessMultiFingers(o.s)
                          [] OTHER         -> {o}
           after(o, v) == IF o.go = "drag and stop" THEN StopScrollEnhanceTimer(v) ELSE v
           moved(o)    == IF o.go \in {"on", "return"} THEN {o.s}
                          ELSE (IF o.go = "one" THEN {} ELSE {o.s}) \cup ProcessSingleFinger(o.s)
<1>1. u \in UNION {{after(o, v) : v \in moved(o)} : o \in UNION {handed(o) : o \in outcomes}}
    BY Zenon DEF Touched
<1>2. ASSUME NEW n, NEW o, NEW v, Held(n, v) PROVE Held(n, after(o, v))
    <2>1. after(o, v) = v \/ after(o, v) = StopScrollEnhanceTimer(v) BY Zenon
    <2> HIDE DEF after
    <2> QED BY <1>2, <2>1, HeldSteps
<1>3. ASSUME NEW n, NEW o, Held(n, o.s), NEW v \in moved(o) PROVE Held(n, v)
    <2>1. v = o.s \/ v \in ProcessSingleFinger(o.s) OBVIOUS
    <2> HIDE DEF moved
    <2> QED BY <1>3, <2>1, HeldSteps
<1>4. ASSUME NEW o \in outcomes, NEW p \in handed(o) PROVE Held(o.s.fingers, p.s)
    <2>1. p \in ProcessTwoFingers(o.s) \/ (o.go = "many" /\ p \in ProcessMultiFingers(o.s)) \/ p = o
        <3>1. p \in ProcessTwoFingers(o.s) \/ (o.go = "many" /\ p \in ProcessMultiFingers(o.s)) \/ p \in {o}
            BY <1>4, Zenon
        <3> QED BY <3>1
    <2> HIDE DEF handed
    <2>2. Held(o.s.fingers, o.s) OBVIOUS
    <2> QED BY <2>1, <2>2, TwoFingers, ManyFingers DEF HeldAll
<1> HIDE DEF handed, after, moved
<1> QED BY <1>1, <1>2, <1>3, <1>4

---------------------------------------------------------------------------
(* The decoders. *)

\* What decoders do to the counts and flags.
LEMMA Counting ==
    ASSUME NEW k, NEW t, Held(k, t), NEW n
    PROVE  /\ Held(n, FingersBecome(t, n))
           /\ \A u \in BumpOrWrap(t) : /\ Held(k, u) /\ (Calm(t) => Calm(u))
                                       /\ u.last = t.last /\ u.mode = t.mode
           /\ \A u \in OnlyTap(t) \cup Palm(t) : Held(k, u)
           /\ \A a : Held(k, [t EXCEPT !.slot = a]) /\ Held(k, [t EXCEPT !.area = a])
<1>1. Held(n, FingersBecome(t, n)) BY DEF Held, Noted, Shown, FingersBecome
<1>2. \A u \in BumpOrWrap(t) : u = Bump(t) \/ u = [t EXCEPT !.packets = 0] BY DEF BumpOrWrap
<1>3. ASSUME NEW p
      PROVE  LET u == [t EXCEPT !.packets = p]
             IN  Held(k, u) /\ (Calm(t) => Calm(u)) /\ u.last = t.last /\ u.mode = t.mode
    BY DEF Held, Noted, Shown, Calm, ButtonEnds, SentEnds, DragEnds, CommandEnds
<1>4. \A u \in BumpOrWrap(t) : Held(k, u) /\ (Calm(t) => Calm(u)) /\ u.last = t.last /\ u.mode = t.mode
    BY <1>2, <1>3 DEF Bump
<1>5. ASSUME NEW u \in OnlyTap(t) \cup Palm(t) PROVE Held(k, u)
    <2>1. \A m : m \notin {"TAP2", "TAP3"} => Held(k, [t EXCEPT !.mode = m]) BY HeldSteps
    <2>2. Held(k, [t EXCEPT !.mode = "PALM", !.palm = TRUE]) BY DEF Held, Noted, Shown
    <2> QED BY <2>1, <2>2 DEF OnlyTap, Palm
<1>6. \A a : Held(k, [t EXCEPT !.slot = a]) /\ Held(k, [t EXCEPT !.area = a]) BY DEF Held, Noted, Shown
<1> QED BY <1>1, <1>4, <1>5, <1>6

---------------------------------------------------------------------------
(* ELAN v2 and v3: the last packet of a touch ends it. *)

\* Fingers and buttons are compared before the touch is looked at.
LEMMA ELANv2v3Checks ==
    ASSUME NEW k, NEW t, Held(k, t), NEW n \in Nat, NEW bits, NEW u \in ProcessELANv2v3Checks(t, n, bits)
    PROVE  /\ Held(n, u)
           /\ bits = {} => u.data = {} /\ (Plain => Noted(u))
           /\ n = 0 /\ k = 0 /\ bits = {} /\ Calm(t) => Calm(u)
<1> DEFINE b == FingersBecome(t, n)
           counted == CASE n # t.fingers /\ n > 0 -> ProcessFingersChange(b)
                        [] n # t.fingers /\ n = 0 -> {b}
                        [] OTHER -> {t}
<1>1. PICK v \in counted : u \in {ProcessPhysicalButtons(w, bits) : w \in IF n = 0 THEN BumpOrWrap(v) ELSE {v}}
    BY DEF ProcessELANv2v3Checks
<1>2. Held(n, v) /\ (n = 0 /\ k = 0 => v = t)
    <2>1. \/ n # t.fingers /\ n > 0 /\ v \in ProcessFingersChange(b)
          \/ n # t.fingers /\ v \in {b}
          \/ n = t.fingers /\ v \in {t}
        <3>1. \/ n # t.fingers /\ n > 0 /\ v \in ProcessFingersChange(b)
              \/ n # t.fingers /\ v \in {b}
              \/ ~(n # t.fingers /\ n > 0) /\ ~(n # t.fingers /\ n = 0) /\ v \in {t}
            BY <1>1, Zenon
        <3> QED BY <3>1
    <2>2. Held(n, b) BY Counting
    <2>3. t.fingers = k BY DEF Held
    <2> HIDE DEF b
    <2> QED BY <2>1, <2>2, <2>3, FingersChange
<1> HIDE DEF counted
<1>3. PICK w \in (IF n = 0 THEN BumpOrWrap(v) ELSE {v}) : u = ProcessPhysicalButtons(w, bits) BY <1>1
<1>4. Held(n, w) /\ (n = 0 /\ k = 0 /\ Calm(t) => Calm(w)) BY <1>2, <1>3, Counting
<1>5. /\ Held(n, u) /\ (bits = {} => u.data = {} /\ u.mode = w.mode /\ (Plain => Noted(u)))
      /\ (DragEnds(w) => DragEnds(u)) /\ (CommandEnds(w) => CommandEnds(u))
      /\ (bits = {} /\ SentEnds(w) => SentEnds(u))
    BY <1>3, <1>4, PhysicalButtons
<1> QED BY <1>4, <1>5 DEF Calm, ButtonEnds

\* A packet of no fingers and no buttons leaves all calm.
LEMMA ELANv2v3 ==
    ASSUME NEW k, NEW t, Held(k, t), NEW n \in Nat, NEW bits, Plain /\ n > 1 => bits = {},
           NEW u \in ProcessELANv2v3(t, n, bits)
    PROVE  /\ Held(u.fingers, u)
           /\ n = 0 => u.fingers = 0
           /\ n = 0 /\ bits = {} => Calm(u)
<1>1. PICK v \in ProcessELANv2v3Checks(t, n, bits) : u \in ELANv2v3Touch(v) \cup (IF n > 0 THEN Palm(v) ELSE {})
    BY DEF ProcessELANv2v3
<1>2. Held(n, v) /\ (bits = {} => v.data = {} /\ (Plain => Noted(v))) BY ELANv2v3Checks
<1>3. v.fingers = n BY <1>2 DEF Held
<1>4. CASE u \in Palm(v) /\ n > 0
    <2>1. Held(n, u) BY <1>2, <1>4, Counting
    <2> QED BY <1>4, <2>1 DEF Held
<1>5. CASE u \in ELANv2v3Touch(v)
    <2>1. \/ n = 0 /\ v.data = {} /\ u \in ProcessTouchEnd(v)
          \/ n = 0 /\ v.data # {} /\ u \in {v}
          \/ (n > 0 \/ v.data # {}) /\ u \in OnlyTap(v)
          \/ n > 0 /\ u \in Touched(ELANv2v3Fingers(v))
        <3> DEFINE typing == (v.fingers > 0 \/ v.data # {}) /\ Typing(v)
                   button == v.fingers = 0 /\ v.data # {} /\ ~Typing(v)
        <3>1. \/ v.fingers = 0 /\ v.data = {} /\ u \in ProcessTouchEnd(v)
              \/ button /\ u \in {v}
              \/ typing /\ u \in OnlyTap(v)
              \/ ~(v.fingers = 0 /\ v.data = {}) /\ ~button /\ ~typing /\ u \in Touched(ELANv2v3Fingers(v))
            BY <1>5, Zenon DEF ELANv2v3Touch
        <3>2. ~(v.fingers = 0 /\ v.data = {}) /\ ~button /\ ~typing => v.fingers > 0
            BY <1>3
        <3> QED BY <1>3, <3>1, <3>2
    <2>2. CASE n = 0 /\ v.data = {} /\ u \in ProcessTouchEnd(v)
        <3>1. /\ Held(n, u) /\ u.mode # "SWIPE" /\ DragEnds(u) /\ CommandEnds(u) /\ ButtonEnds(u)
              /\ bits = {} => SentEnds(u)
            BY <1>2, <2>2, TouchEnds
        <3> QED BY <2>2, <3>1 DEF Held, Calm
    <2>3. CASE n = 0 /\ v.data # {} /\ u \in {v}
        BY <1>2, <1>3, <2>3
    <2>4. CASE (n > 0 \/ v.data # {}) /\ u \in OnlyTap(v)
        <3>1. Held(n, u) BY <1>2, <2>4, Counting
        <3>2. u.fingers = n BY <3>1 DEF Held
        <3> QED BY <1>2, <2>4, <3>1, <3>2
    <2>5. CASE n > 0 /\ u \in Touched(ELANv2v3Fingers(v))
        <3> DEFINE four == [v EXCEPT !.fingers = 4]
                   slot == [v EXCEPT !.slot = TRUE]
        <3>1. Held(4, four) BY <1>2 DEF Held, Noted, Shown
        <3>2. Held(n, slot) BY <1>2, Counting
        <3>3. four.fingers = 4 /\ slot.fingers = n BY <3>1, <3>2 DEF Held
        <3>4. \A o \in ELANv2v3Fingers(v) :
                 \/ o \in One(v) \cup Off(v) \cup Two(v) \cup Two(slot) \cup Off(four)
                 \/ (n # 1 /\ o \in Many(v))
            <4> DEFINE two == (IF pad.vendor = "v3" THEN Off(v) ELSE {}) \cup Two(IF v.packets < 2 THEN slot ELSE v)
                       more == (IF v.drag THEN Off(v) ELSE Many(v)) \cup (IF pad.vendor = "v2" THEN Off(four) ELSE {})
            <4>1. ELANv2v3Fingers(v) = CASE v.fingers = 1 -> One(v) [] v.fingers = 2 -> two [] OTHER -> more
                BY DEF ELANv2v3Fingers
            <4>2. /\ \A o \in two : o \in One(v) \cup Off(v) \cup Two(v) \cup Two(slot) \cup Off(four)
                  /\ \A o \in more : o \in Off(v) \cup Off(four) \cup Many(v)
                <5> HIDE DEF four, slot
                <5> QED OBVIOUS
            <4> HIDE DEF two, more
            <4>3. \/ ELANv2v3Fingers(v) = One(v) \/ ELANv2v3Fingers(v) = two
                  \/ ELANv2v3Fingers(v) = more /\ ~(v.fingers = 1)
                BY <4>1, Zenon
            <4> HIDE DEF four, slot
            <4>4. ASSUME NEW o \in ELANv2v3Fingers(v), ~(n # 1 /\ o \in Many(v))
                  PROVE  o \in One(v) \cup Off(v) \cup Two(v) \cup Two(slot) \cup Off(four)
                <5>1. o \in One(v) \/ o \in two \/ (o \in more /\ n # 1)
                    BY <1>3, <4>3, Zenon
                <5>2. o \in more /\ n # 1 => o \in Off(v) \/ o \in Off(four) BY <4>2, <4>4
                <5>3. o \in two => o \in One(v) \cup Off(v) \cup Two(v) \cup Two(slot) \cup Off(four) BY <4>2
                <5> QED BY <5>1, <5>2, <5>3
            <4> QED BY <4>4
        <3> HIDE DEF four, slot
        <3>5. ASSUME NEW o \in ELANv2v3Fingers(v)
              PROVE  Held(o.s.fingers, o.s) /\ (Plain /\ o.go = "many" => Noted(o.s))
            <4>1. Held(o.s.fingers, o.s) BY <1>2, <1>3, <3>1, <3>2, <3>3, <3>4, Outcomes
            <4>2. o.go = "many" => n # 1 /\ o.s = v BY <3>4 DEF One, Two, Off, Many
            <4>3. Plain /\ n # 1 => Noted(v) BY <1>2, <2>5
            <4> QED BY <4>1, <4>2, <4>3
        <3>6. PICK o \in ELANv2v3Fingers(v) : Held(o.s.fingers, u) BY <2>5, <3>5, Handing
        <3> QED BY <2>5, <3>6 DEF Held
    <2> QED BY <2>1, <2>2, <2>3, <2>4, <2>5
<1> QED BY <1>1, <1>4, <1>5

\* A stick's packet leaves calm what was.
LEMMA Trackpoint ==
    ASSUME NEW k, NEW t, Held(k, t), pad.vendor \in {"v3", "v4"}, pad.stick,
           NEW bits, NEW u \in ProcessTrackpointELAN(t, bits)
    PROVE  /\ Held(u.fingers, u)
           /\ k = 0 => u.fingers = 0
           /\ k = 0 /\ Calm(t) /\ bits = {} => Calm(u)
<1>1. ASSUME NEW v, NEW m, Held(m, v), NEW w \in ProcessSingleFinger(v)
      PROVE  Held(m, w) /\ (m = 0 /\ Calm(v) => Calm(w))
    <2>1. Good(m, m = 0 /\ Calm(v), v) BY <1>1 DEF Good, StickAlone
    <2>2. Good(m, m = 0 /\ Calm(v), w) BY <1>1, <2>1, SingleFinger
    <2> QED BY <2>2 DEF Good
<1>2. CASE pad.vendor = "v4"
    <2>1. u \in ProcessSingleFinger(t) BY <1>2 DEF ProcessTrackpointELAN
    <2>2. Held(k, u) /\ (k = 0 /\ Calm(t) => Calm(u)) BY <1>1, <2>1
    <2> QED BY <2>2 DEF Held
<1>3. CASE pad.vendor # "v4"
    <2>1. PICK v \in ProcessELANv2v3Checks(t, 0, bits) :
              u \in IF v.last = 0 THEN ProcessSingleFinger(v) ELSE ELANv2v3Touch(v)
        BY <1>3 DEF ProcessTrackpointELAN
    <2>2. /\ Held(0, v) /\ (bits = {} => v.data = {} /\ (Plain => Noted(v)))
          /\ k = 0 /\ bits = {} /\ Calm(t) => Calm(v)
        BY ELANv2v3Checks
    <2>3. Held(0, u) /\ (k = 0 /\ Calm(t) /\ bits = {} => Calm(u))
        <3>1. CASE u \in ProcessSingleFinger(v) BY <1>1, <2>2, <3>1
        <3>2. CASE u \in ELANv2v3Touch(v)
            <4>1. v.fingers = 0 BY <2>2 DEF Held
            <4>2. \/ u \in ProcessTouchEnd(v)
                  \/ v.data # {} /\ (u \in {v} \/ u \in OnlyTap(v))
                <5>1. \/ u \in ProcessTouchEnd(v)
                      \/ v.data # {} /\ u \in {v}
                      \/ (v.fingers > 0 \/ v.data # {}) /\ u \in OnlyTap(v)
                      \/ /\ ~(v.fingers = 0 /\ v.data = {})
                         /\ ~((v.fingers > 0 \/ v.data # {}) /\ Typing(v))
                         /\ ~(v.fingers = 0 /\ v.data # {} /\ ~Typing(v))
                    BY <3>2, Zenon DEF ELANv2v3Touch
                <5> QED BY <4>1, <5>1
            <4>3. u \in ProcessTouchEnd(v) => Held(0, u) /\ (bits = {} => Calm(u)) BY <2>2, TouchEnds DEF Calm
            <4>4. u \in OnlyTap(v) => Held(0, u) BY <2>2, Counting
            <4> QED BY <2>2, <4>2, <4>3, <4>4
        <3> QED BY <2>1, <3>1, <3>2
    <2> QED BY <2>3 DEF Held
<1> QED BY <1>2, <1>3

---------------------------------------------------------------------------
(* ELAN v4: a status packet of no fingers ends the touch. *)

\* The same for outcomes of as many fingers.
LEMMA Handed ==
    ASSUME ~Plain, NEW n, NEW outcomes, \A o \in outcomes : Held(n, o.s), NEW u \in Touched(outcomes)
    PROVE  Held(n, u)
<1>1. \A o \in outcomes : Held(o.s.fingers, o.s) /\ o.s.fingers = n BY DEF Held
<1> QED BY <1>1, Handing

LEMMA Counts ==
    ASSUME ~Plain, NEW n, NEW t, Held(n, t)
    PROVE  /\ \A u \in Uncount(t) : Held(n, u)
           /\ \A u \in MultiFingersTwice(t) : Held(n, u)
<1>1. ASSUME NEW v, Held(n, v), NEW u \in Uncount(v) PROVE Held(n, u)
    BY <1>1, HeldSteps DEF Uncount
<1>2. ASSUME NEW u \in MultiFingersTwice(t) PROVE Held(n, u)
    <2> DEFINE a == Touched(Many(t))
               b == Each(a, Uncount)
               c == Each(b, Many)
    <2>1. \A v \in a : Held(n, v)
        <3>1. \A o \in Many(t) : Held(n, o.s) BY Outcomes
        <3> QED BY <3>1, Handed
    <2> HIDE DEF a
    <2>2. \A v \in b : Held(n, v) BY <1>1, <2>1 DEF Each
    <2> HIDE DEF b
    <2>3. \A o \in c : Held(n, o.s) BY <2>2, Outcomes DEF Each
    <2> HIDE DEF c
    <2>4. u \in Touched(c) BY <1>2 DEF MultiFingersTwice, a, b, c
    <2> QED BY <2>3, <2>4, Handed
<1> QED BY <1>1, <1>2

\* With no fingers the touch ends, or all drags do.
LEMMA StatusesOfNone ==
    ASSUME NEW n, NEW t, Held(n, t), pad.vendor = "v4", NEW bits, NEW u \in StatusOfNone(t, bits)
    PROVE  Held(0, u) /\ (bits = {} => Calm(u))
<1> DEFINE w == FingersBecome(t, 0)
           clicked == IF pad.clickpad THEN ProcessVirtualButtons(w, bits # {}, 1)
                      ELSE {ProcessPhysicalButtons(v, bits) : v \in BumpOrWrap(w)}
           ended(v) == IF v.last > 0 /\ v.mode # "BUTTONS" THEN ProcessTouchEnd(v)
                       ELSE ProcessFingersChange(v)
<1>1. PICK v \in clicked : u \in ended(v) BY DEF StatusOfNone, Each
<1>2. Held(0, w) BY Counting
<1> HIDE DEF w
<1>3. Held(0, v) /\ (bits = {} => v.data = {} /\ (~Drags \/ ~v.holdDrag))
    <2>1. CASE pad.clickpad
        <3>1. v \in ProcessVirtualButtons(w, bits # {}, 1) BY <1>1, <2>1
        <3>2. Held(0, v) /\ (bits = {} => v.data = {} /\ (pad.pressDrag \/ ~v.holdDrag))
            BY <1>2, <2>1, <3>1, VirtualButtons
        <3> QED BY <3>2 DEF Drags
    <2>2. CASE ~pad.clickpad
        <3>1. PICK x \in BumpOrWrap(w) : v = ProcessPhysicalButtons(x, bits) BY <1>1, <2>2
        <3>2. Held(0, x) BY <1>2, <3>1, Counting
        <3>3. Held(0, v) /\ (bits = {} => v.data = {}) BY <3>1, <3>2, PhysicalButtons
        <3> QED BY <2>2, <3>3 DEF Held, Drags
    <2> QED BY <2>1, <2>2
<1>4. ~Commands /\ ~Plain BY DEF Commands, Plain
<1>5. u \in ProcessTouchEnd(v) \/ u \in ProcessFingersChange(v) BY <1>1
<1> HIDE DEF ended, clicked
<1>6. CASE u \in ProcessTouchEnd(v)
    BY <1>3, <1>4, <1>6, TouchEnds DEF Calm, SentEnds
<1>7. CASE u \in ProcessFingersChange(v)
    <2>1. Held(0, u) /\ (bits = {} => u.data = {} /\ DragEnds(u)) BY <1>3, <1>7, FingersChange
    <2> QED BY <1>4, <2>1 DEF Calm, ButtonEnds, SentEnds, CommandEnds
<1> QED BY <1>5, <1>6, <1>7

\* Status packets of ELAN v4.
LEMMA Statuses ==
    ASSUME NEW k, NEW t, Held(k, t), pad.vendor = "v4", NEW n, NEW bits, NEW u \in ProcessStatus(t, n, bits)
    PROVE  /\ Held(u.fingers, u)
           /\ n = 0 => u.fingers = 0
           /\ n = 0 /\ bits = {} => Calm(u)
<1> DEFINE w == IF t.palm THEN [t EXCEPT !.mode = "PALM"] ELSE t
<1>1. Held(k, w) BY HeldSteps
<1>2. IF n = 0 THEN u \in StatusOfNone(w, bits) ELSE \E c \in StatusCounts(n) : u \in StatusOfSome(w, n, c)
    BY DEF ProcessStatus
<1> HIDE DEF w
<1>3. CASE n = 0
    <2>1. Held(0, u) /\ (bits = {} => Calm(u)) BY <1>1, <1>2, <1>3, StatusesOfNone
    <2> QED BY <1>3, <2>1 DEF Held
<1>4. ASSUME NEW c, NEW x \in StatusOfSome(w, n, c) PROVE Held(c, x)
    <2> DEFINE v == FingersBecome(w, c)
    <2>1. Held(c, v) BY <1>1, Counting
    <2>2. \/ x = v \/ x \in ProcessFingersChange(v) \/ x \in ProcessFingersChange(NoButtons(v))
        BY <1>4 DEF StatusOfSome, Each
    <2> HIDE DEF v
    <2>3. Held(c, NoButtons(v)) BY <2>1 DEF Held, Noted, Shown, NoButtons
    <2> QED BY <2>1, <2>2, <2>3, FingersChange
<1>5. CASE n # 0
    <2>1. PICK c : Held(c, u) BY <1>2, <1>4, <1>5
    <2> QED BY <1>5, <2>1 DEF Held
<1> QED BY <1>3, <1>5

\* Buttons of clickpads in motion packets.
LEMMA ClicksOfPads ==
    ASSUME NEW n, NEW t, Held(n, t), NEW bits
    PROVE  /\ \A u \in ClickWithOne(t, bits)  : Held(n, u)
           /\ \A u \in ClickWithMany(t, bits) : Held(n, u)
<1> DEFINE clicked(v) == {IF x.triggered /\ ~x.area THEN [x EXCEPT !.holdDrag = TRUE, !.drag = TRUE] ELSE x :
                             x \in ProcessVirtualButtons(v, bits # {}, 1)}
<1>1. ASSUME pad.clickpad, NEW v, Held(n, v), NEW u \in clicked(v) PROVE Held(n, u)
    <2>1. PICK x \in ProcessVirtualButtons(v, bits # {}, 1) :
              u = IF x.triggered /\ ~x.area THEN [x EXCEPT !.holdDrag = TRUE, !.drag = TRUE] ELSE x
        BY <1>1
    <2>2. Held(n, x) BY <1>1, <2>1, VirtualButtons
    <2> QED BY <1>1, <2>1, <2>2 DEF Held, Noted, Shown
<1> HIDE DEF clicked
<1>2. ASSUME NEW u \in ClickWithOne(t, bits) PROVE Held(n, u)
    <2>1. \/ u \in {ProcessPhysicalButtons(t, bits)} \/ u \in {t}
          \/ pad.clickpad /\ u \in UNION {clicked([t EXCEPT !.area = a]) : a \in BOOLEAN}
        BY <1>2, Zenon DEF ClickWithOne, clicked
    <2>2. Held(n, ProcessPhysicalButtons(t, bits)) BY PhysicalButtons
    <2>3. \A a : Held(n, [t EXCEPT !.area = a]) BY Counting
    <2> QED BY <1>1, <2>1, <2>2, <2>3
<1>3. ASSUME NEW u \in ClickWithMany(t, bits) PROVE Held(n, u)
    <2>1. CASE pad.clickpad BY <1>3, <2>1, VirtualButtons DEF ClickWithMany
    <2>2. CASE ~pad.clickpad BY <1>3, <2>2 DEF ClickWithMany
    <2> QED BY <2>1, <2>2
<1> QED BY <1>2, <1>3

\* Packets of fingers that are there.
LEMMA Motions ==
    ASSUME ~Plain, NEW n, NEW t, Held(n, t), NEW bits
    PROVE  /\ \A u \in ProcessAbsolute(t, bits) : Held(n, u)
           /\ \A u \in ProcessRelative(t, bits) : Held(n, u)
<1> DEFINE w == [t EXCEPT !.slot = TRUE]
<1>1. Held(n, w) /\ (\A u \in OnlyTap(t) : Held(n, u)) BY Counting
<1> HIDE DEF w
<1>2. /\ \A v \in ClickWithOne(w, bits)  : Held(n, v)
      /\ \A v \in ClickWithMany(w, bits) : Held(n, v)
    BY <1>1, ClicksOfPads
<1>3. ASSUME NEW u \in ProcessAbsolute(t, bits) PROVE Held(n, u)
    <2> DEFINE many(v) == IF v.fingers = 2 THEN Off(v) \cup Two(v) ELSE Many(v)
               a == Each(ClickWithOne(w, bits), One)
               b == Each(ClickWithMany(w, bits), many)
    <2>1. \A o \in a : Held(n, o.s) BY <1>2, Outcomes DEF Each
    <2>2. \A o \in b : Held(n, o.s) BY <1>2, Outcomes DEF Each
    <2>3. \/ u \in OnlyTap(t) \/ u \in {t} \cup Touched(a) \/ u \in {t} \cup Touched(b) \/ u \in {t, w}
        BY <1>3, Zenon DEF ProcessAbsolute, w
    <2> HIDE DEF a, b
    <2> QED BY <1>1, <2>1, <2>2, <2>3, Handed
<1>4. ASSUME NEW u \in ProcessRelative(t, bits) PROVE Held(n, u)
    <2> DEFINE many(v) == IF ~v.drag \/ v.drag3 THEN MultiFingersTwice(v) ELSE {v}
               a == IF pad.clickpad THEN ProcessClickPad2F(w, bits # {}) ELSE Two(w)
               b == Each(ClickWithMany(w, bits), many)
    <2>1. \A o \in a : Held(n, o.s)
        <3>1. pad.clickpad => \A o \in ProcessClickPad2F(w, bits # {}) : Held(n, o.s)
            BY <1>1, ClickPads DEF HeldAll
        <3>2. \A o \in Two(w) : Held(n, o.s) BY <1>1, Outcomes
        <3> QED BY <3>1, <3>2
    <2>2. \A v \in b : Held(n, v) BY <1>2, Counts DEF Each
    <2>3. \/ u \in OnlyTap(t) \/ u \in {w} \cup Touched(a) \/ u \in {w} \cup b \/ u \in {w}
        BY <1>4, Zenon DEF ProcessRelative, w
    <2> HIDE DEF a, b
    <2> QED BY <1>1, <2>1, <2>2, <2>3, Handed
<1> QED BY <1>3, <1>4

---------------------------------------------------------------------------
(* Synaptics: a touch may be over before its fingers are lifted. *)

\* Once it is over, what is left of it ends.
Lifted(t) == t.fingers = 0 /\ t.last = 0 => DragEnds(t) /\ CommandEnds(t)

LEMMA LiftedSteps ==
    ASSUME NEW n, NEW t, Held(n, t)
    PROVE  /\ n # 0 => Lifted(t)
           /\ \A u \in ProcessTouchEnd(t) : Lifted(u)
           /\ Lifted(t) => /\ Lifted(Bump(t)) /\ Lifted(Resend(t))
                           /\ \A m : Lifted([t EXCEPT !.mode = m])
                           /\ \A b : Lifted([t EXCEPT !.slot = b])
                           /\ \A b : Lifted([t EXCEPT !.ended = b])
                           /\ \A b : Lifted([t EXCEPT !.mode = "PALM", !.palm = b])
<1>1. n # 0 => Lifted(t) BY DEF Held, Lifted
<1>2. \A u \in ProcessTouchEnd(t) : Lifted(u) BY TouchEnds DEF Lifted
<1>3. ASSUME Lifted(t)
      PROVE  /\ Lifted(Bump(t)) /\ Lifted(Resend(t))
             /\ \A m : Lifted([t EXCEPT !.mode = m])
             /\ \A b : Lifted([t EXCEPT !.slot = b])
             /\ \A b : Lifted([t EXCEPT !.ended = b])
             /\ \A b : Lifted([t EXCEPT !.mode = "PALM", !.palm = b])
    BY <1>3 DEF Held, Lifted, DragEnds, CommandEnds, Bump, Resend
<1> QED BY <1>1, <1>2, <1>3

\* The last packet of a Synaptics touch.
LEMMA Lifts ==
    ASSUME NEW k, NEW t, Held(k, t), Lifted(t), NEW bits, NEW u \in EndPrimary(LiftPrimary(t, bits))
    PROVE  /\ Held(0, u) /\ Lifted(u)
           /\ bits = {} /\ ~pad.clickpad => ButtonEnds(u)
<1> DEFINE w == IF t.fingers # 0 THEN FingersBecome(t, 0) ELSE t
           v == LiftPrimary(t, bits)
<1>1. Held(0, w) /\ Lifted(w)
    <2>1. CASE t.fingers = 0 BY <2>1 DEF Held
    <2>2. CASE t.fingers # 0
        <3>1. Held(0, FingersBecome(t, 0)) BY Counting
        <3>2. FingersBecome(t, 0).last = t.fingers BY DEF FingersBecome, Held
        <3> QED BY <2>2, <3>1, <3>2 DEF Lifted
    <2> QED BY <2>1, <2>2
<1>2. v = IF pad.clickpad THEN w ELSE ProcessPhysicalButtons(w, bits) BY DEF LiftPrimary
<1> HIDE DEF w, v
<1>3. Held(0, v) /\ Lifted(v) /\ (bits = {} /\ ~pad.clickpad => v.data = {})
    BY <1>1, <1>2, PhysicalButtons DEF Lifted, Held
<1>4. u \in ProcessTouchEnd(v) \/ u = v BY DEF EndPrimary, v
<1>5. CASE u \in ProcessTouchEnd(v) BY <1>3, <1>5, TouchEnds, LiftedSteps
<1>6. CASE u = v BY <1>3, <1>6 DEF ButtonEnds, SentEnds
<1> QED BY <1>4, <1>5, <1>6

\* What the methods have already done is not changed any more.
LEMMA Nothing ==
    ASSUME NEW t, NEW u \in Touched(Off(t))
    PROVE  u = t
<1> DEFINE off == [go |-> "return", s |-> t]
           handed(o) == CASE o.go = "two"  -> ProcessTwoFingers(o.s)
                          [] o.go = "many" -> ProcessMultiFingers(o.s)
                          [] OTHER         -> {o}
           after(o, v) == IF o.go = "drag and stop" THEN StopScrollEnhanceTimer(v) ELSE v
           moved(o)    == IF o.go \in {"on", "return"} THEN {o.s}
                          ELSE (IF o.go = "one" THEN {} ELSE {o.s}) \cup ProcessSingleFinger(o.s)
<1>1. u \in UNION {{after(o, v) : v \in moved(o)} : o \in UNION {handed(o) : o \in {off}}}
    BY Zenon DEF Touched, Off
<1>2. off.go = "return" /\ off.s = t OBVIOUS
<1> HIDE DEF off
<1>3. handed(off) = {off}
    <2>1. off.go # "two" /\ off.go # "many" BY <1>2
    <2> QED BY <2>1, Zenon
<1>4. moved(off) = {t} BY <1>2
<1>5. after(off, t) = t
    <2>1. "return" # "drag and stop" BY Zenon
    <2> QED BY <1>2, <2>1, Zenon
<1> HIDE DEF handed, after, moved
<1> QED BY <1>1, <1>3, <1>4, <1>5, Zenon

\* The first packets of Synaptics touches.
LEMMA PrimaryTouches ==
    ASSUME ~Plain, NEW n, NEW t, Held(n, t), Lifted(t), NEW bits, NEW u \in PrimaryTouch(t, bits)
    PROVE  Held(n, u) /\ Lifted(u)
<1> DEFINE two == IF pad.clickpad /\ t.packets = 2 THEN ProcessClickPad2F(t, bits # {}) ELSE Two(t)
           again(v) == {v} \cup Touched(Each(Each(ClickWithMany(v, bits), Uncount), Many))
           one == Each(ClickWithOne(t, bits), One)
           first == CASE t.fingers = 1 -> one
                      [] t.fingers = 2 -> two
                      [] t.fingers > 2 -> Many(t)
                      [] OTHER -> Off(t)
<1>1. IF t.fingers > 2 THEN u \in Each(Touched(first), again) ELSE u \in Touched(first)
    BY DEF PrimaryTouch
<1>2. t.fingers = n BY DEF Held
<1>3. \A o \in one \cup two \cup Many(t) \cup Off(t) : Held(n, o.s)
    <2>1. \A o \in one : Held(n, o.s) BY ClicksOfPads, Outcomes DEF Each
    <2>2. \A o \in two : Held(n, o.s)
        <3>1. pad.clickpad => \A o \in ProcessClickPad2F(t, bits # {}) : Held(n, o.s) BY ClickPads DEF HeldAll
        <3>2. \A o \in Two(t) : Held(n, o.s) BY Outcomes
        <3> QED BY <3>1, <3>2
    <2> HIDE DEF one, two
    <2> QED BY <2>1, <2>2, Outcomes
<1>4. ASSUME NEW v, Held(n, v), NEW x \in again(v) PROVE Held(n, x)
    <2> DEFINE a == Each(ClickWithMany(v, bits), Uncount)
               b == Each(a, Many)
    <2>1. \A y \in a : Held(n, y) BY <1>4, ClicksOfPads, Counts DEF Each
    <2> HIDE DEF a
    <2>2. \A o \in b : Held(n, o.s) BY <2>1, Outcomes DEF Each
    <2> HIDE DEF b
    <2>3. x = v \/ x \in Touched(b) BY <1>4 DEF a, b
    <2> QED BY <1>4, <2>2, <2>3, Handed
<1> HIDE DEF again, one, two
<1>5. CASE n = 0
    <2>1. first = Off(t)
        <3>1. ~(t.fingers = 1) /\ ~(t.fingers = 2) /\ ~(t.fingers > 2) BY <1>2, <1>5
        <3> QED BY <3>1, Zenon
    <2> HIDE DEF first
    <2>2. u \in Touched(Off(t)) BY <1>1, <1>2, <1>5, <2>1
    <2> QED BY <2>2, Nothing
<1>6. CASE n # 0
    <2>1. ASSUME NEW o \in first PROVE o \in one \/ o \in two \/ o \in Many(t) \/ o \in Off(t)
        BY <2>1, Zenon
    <2> HIDE DEF first
    <2>2. \A o \in first : Held(n, o.s) BY <1>3, <2>1
    <2>3. \A v \in Touched(first) : Held(n, v) BY <2>2, Handed
    <2>4. Held(n, u) BY <1>1, <1>4, <2>3 DEF Each
    <2> QED BY <1>6, <2>4, LiftedSteps
<1> QED BY <1>5, <1>6

\* Primary packets of Synaptics touchpads.
LEMMA SynapticsReports ==
    ASSUME ~Plain, NEW k, NEW t, Held(k, t), Lifted(t), NEW n, NEW bits,
           NEW u \in SynapticsReportAbsolute(t, n, bits)
    PROVE  /\ Held(u.fingers, u) /\ Lifted(u)
           /\ n = 0 => u.fingers = 0
           /\ n = 0 /\ bits = {} /\ ~pad.clickpad => ButtonEnds(u)
<1> DEFINE palm(v) == IF v.fingers = 1 /\ v.last > 1 THEN {v} ELSE Palm(v)
           touched(v) == palm(v) \cup
                         (CASE v.palm -> {}
                            [] ~v.palm /\ Typing(v) -> OnlyTap(v)
                            [] OTHER -> PrimaryTouch(v, bits))
<1>1. IF n = 0 THEN u \in EndPrimary(LiftPrimary(t, bits)) ELSE \E v \in CountPrimary(t, n) : u \in touched(v)
    BY DEF SynapticsReportAbsolute, Each
<1>2. CASE n = 0
    <2>1. Held(0, u) /\ Lifted(u) /\ (bits = {} /\ ~pad.clickpad => ButtonEnds(u)) BY <1>1, <1>2, Lifts
    <2> QED BY <2>1 DEF Held
<1>3. CASE n # 0
    <2>1. PICK v \in CountPrimary(t, n) : u \in touched(v) BY <1>1, <1>3
    <2> DEFINE slot == [t EXCEPT !.slot = TRUE]
               b == FingersBecome(t, n)
               c == [b EXCEPT !.slot = TRUE]
    <2>2. Held(k, slot) /\ Lifted(slot) BY Counting, LiftedSteps
    <2>3. Held(n, b) BY Counting
    <2> HIDE DEF b
    <2>4. Held(n, c) BY <2>3, Counting
    <2>5. v = t \/ v = slot \/ v \in ProcessFingersChange(c) BY <2>1 DEF CountPrimary, b
    <2> HIDE DEF slot, c
    <2>6. PICK m : Held(m, v) /\ Lifted(v)
        <3>1. v \in ProcessFingersChange(c) => Held(n, v) /\ Lifted(v) BY <1>3, <2>4, FingersChange, LiftedSteps
        <3> QED BY <2>2, <2>5, <3>1
    <2>7. u \in {v} \cup Palm(v) \cup OnlyTap(v) \cup PrimaryTouch(v, bits)
        <3>1. u \in palm(v) \/ u \in {} \/ u \in OnlyTap(v) \/ u \in PrimaryTouch(v, bits)
            <4> HIDE DEF palm
            <4> QED BY <2>1, Zenon
        <3> QED BY <3>1
    <2> HIDE DEF touched
    <2>8. Held(m, u) /\ Lifted(u)
        <3>1. CASE u = v BY <2>6, <3>1
        <3>2. CASE u \in Palm(v) \cup OnlyTap(v)
            <4>1. Held(m, u) BY <2>6, <3>2, Counting
            <4>2. u = [v EXCEPT !.mode = "PALM", !.palm = TRUE] \/ \E x : u = [v EXCEPT !.mode = x]
                BY <3>2 DEF Palm, OnlyTap
            <4>3. /\ Lifted([v EXCEPT !.mode = "PALM", !.palm = TRUE])
                  /\ \A x : Lifted([v EXCEPT !.mode = x])
                BY <2>6, LiftedSteps
            <4> QED BY <4>1, <4>2, <4>3
        <3>3. CASE u \in PrimaryTouch(v, bits) BY <2>6, <3>3, PrimaryTouches
        <3> QED BY <2>7, <3>1, <3>2, <3>3
    <2> QED BY <1>3, <2>8 DEF Held
<1> QED BY <1>2, <1>3

\* Their other packets.
LEMMA OtherReports ==
    ASSUME NEW k, NEW t, Held(k, t), Lifted(t)
    PROVE  /\ \A n \in Nat \ {0} : \A u \in FingerState(t, n) : Held(n, u) /\ Lifted(u)
           /\ \A u \in InvalidPrimary(t) : Held(k, u) /\ Lifted(u)
           /\ \A bits : \A u \in ProcessPassthrough(t, bits) :
                 /\ Held(k, u) /\ Lifted(u)
                 /\ bits = {} => u.data = {}
<1>1. ASSUME NEW n \in Nat \ {0}, NEW u \in FingerState(t, n) PROVE Held(n, u) /\ Lifted(u)
    <2> DEFINE b == FingersBecome(t, n)
               c == [b EXCEPT !.slot = TRUE]
    <2>1. Held(n, b) BY Counting
    <2> HIDE DEF b
    <2>2. Held(n, c) BY <2>1, Counting
    <2>3. (n = t.fingers /\ u = [t EXCEPT !.slot = TRUE]) \/ u \in ProcessFingersChange(c) BY <1>1 DEF FingerState, b
    <2> HIDE DEF c
    <2>4. n = t.fingers => n = k BY DEF Held
    <2>5. Held(n, u)
        <3>1. u \in ProcessFingersChange(c) => Held(n, u) BY <2>2, FingersChange
        <3>2. Held(k, [t EXCEPT !.slot = TRUE]) BY Counting
        <3> QED BY <2>3, <2>4, <3>1, <3>2
    <2> QED BY <2>5, LiftedSteps
<1>2. ASSUME NEW u \in InvalidPrimary(t) PROVE Held(k, u) /\ Lifted(u)
    <2>1. PICK v \in {t} \cup ProcessTouchEnd(t) : u = [v EXCEPT !.ended = TRUE] BY <1>2 DEF InvalidPrimary
    <2>2. Held(k, v) /\ Lifted(v) BY <2>1, TouchEnds, LiftedSteps
    <2>3. Held(k, u) BY <2>1, <2>2 DEF Held, Noted, Shown
    <2> QED BY <2>1, <2>2, <2>3, LiftedSteps
<1>3. ASSUME NEW bits, NEW u \in ProcessPassthrough(t, bits)
      PROVE  Held(k, u) /\ Lifted(u) /\ (bits = {} => u.data = {})
    <2> DEFINE v == ProcessPhysicalButtons(t, bits)
               w == [v EXCEPT !.slot = FALSE]
               Fine(x) == Held(k, x) /\ Lifted(x) /\ (bits = {} => x.data = {})
    <2>1. Fine(v) BY PhysicalButtons DEF Lifted, Held
    <2> HIDE DEF v
    <2>2. Fine(w) BY <2>1, Counting, LiftedSteps DEF Held
    <2> HIDE DEF w
    <2>3. Fine(Bump(w)) BY <2>2, HeldSteps, LiftedSteps DEF Held, Bump
    <2>4. Fine(Resend(Bump(w))) BY <2>3, HeldSteps, LiftedSteps DEF Held, Resend
    <2>5. u = v \/ \E o \in OnButtonArea(w) : u = o.s BY <1>3 DEF ProcessPassthrough, States, v, w
    <2>6. \A o \in OnButtonArea(w) : o \in On(Bump(w)) \cup Off(Resend(Bump(w))) BY DEF OnButtonArea
    <2>7. \A o \in On(Bump(w)) : o.s = Bump(w) BY Outcomes
    <2>8. \A o \in Off(Resend(Bump(w))) : o.s = Resend(Bump(w)) BY Outcomes
    <2> QED BY <2>1, <2>3, <2>4, <2>5, <2>6, <2>7, <2>8
<1> QED BY <1>1, <1>2, <1>3

---------------------------------------------------------------------------
(* The driver's state between packets. *)

\* If no finger touches as far as both sides know, and no button is down either,
\* all that is left will end.  A Synaptics pad's stick may touch in between, and
\* what its clickpads' buttons leave is looked at with the next touch only.
Driver(none, quiet, t) ==
    /\ Held(t.fingers, t)
    /\ none => t.fingers = 0
    /\ quiet /\ pad.vendor # "synaptics" => Calm(t)
    /\ quiet /\ pad.vendor = "synaptics" /\ ~pad.clickpad => ButtonEnds(t)
    /\ pad.vendor = "synaptics" => Lifted(t)

\* The release timer ends what its setting promised; others leave that.
LEMMA Timers ==
    ASSUME NEW none, NEW quiet, NEW t, Driver(none, quiet, t)
    PROVE  /\ \A u \in ReleaseButtonsAndDrag(t)     : Driver(none, quiet, u)
           /\ \A u \in ProcessFeaturesToggle(t)     : Driver(none, quiet, u)
           /\ \A u \in EnhanceScrollAcceleration(t) : Driver(none, quiet, u)
<1>1. \A v : Driver(none, quiet, v) => /\ \A b : Driver(none, quiet, [v EXCEPT !.scrollTimer = b])
                                       /\ \A b : Driver(none, quiet, [v EXCEPT !.job = b])
                                       /\ \A b : Driver(none, quiet, [v EXCEPT !.featureTimer = b])
                                       /\ \A k : Driver(none, quiet, [v EXCEPT !.taps = k])
                                       /\ \A b : Driver(none, quiet, [v EXCEPT !.nc = b])
                                       /\ Driver(none, quiet, Resend(v))
                                       /\ Driver(none, quiet, NoButtons(v))
                                       /\ Driver(none, quiet, StopScrollEnhanceTimer(v))
    BY DEF Driver, Held, Noted, Shown, Calm, Lifted, ButtonEnds, SentEnds, DragEnds, CommandEnds,
           Resend, NoButtons, StopScrollEnhanceTimer
<1>2. ASSUME NEW u \in ReleaseButtonsAndDrag(t) PROVE Driver(none, quiet, u)
    <2> DEFINE c == ReleaseCmdKey(t)
               w == TimerDone(c)
    <2>1. /\ c.fingers = t.fingers /\ c.last = t.last /\ c.data = t.data /\ c.mode = t.mode
          /\ c.state = t.state /\ c.sent = t.sent
          /\ c.drag = t.drag /\ c.tapDrag = t.tapDrag /\ c.holdDrag = t.holdDrag /\ c.check = t.check
          /\ ~c.app /\ Held(t.fingers, c)
        BY DEF Driver, Held, Noted, Shown, ReleaseCmdKey
    <2> HIDE DEF c
    <2>2. /\ w.fingers = t.fingers /\ w.last = t.last /\ w.data = t.data /\ w.mode = t.mode
          /\ w.state = t.state /\ w.sent = t.sent
          /\ w.drag = t.drag /\ w.tapDrag = t.tapDrag /\ w.holdDrag = t.holdDrag /\ w.check = t.check
          /\ ~w.app /\ Held(t.fingers, w)
        BY <2>1 DEF Held, Noted, Shown, TimerDone
    <2> HIDE DEF w
    <2>3. u = IF Releases(t) THEN NoDrag(NoButtons([w EXCEPT !.check = FALSE])) ELSE w
        BY <1>2 DEF ReleaseButtonsAndDrag, w, c
    <2>4. CASE Releases(t)
        <3> DEFINE v == [w EXCEPT !.check = FALSE]
        <3>1. /\ v.fingers = t.fingers /\ v.last = t.last /\ v.mode = t.mode /\ ~v.app
              /\ pad.press # "app" => ~v.cmd
              /\ DOMAIN v = DOMAIN w
            BY <2>2 DEF Held
        <3> HIDE DEF v
        <3>2. u = NoDrag(NoButtons(v)) BY <2>3, <2>4 DEF v
        <3>3. Held(t.fingers, u)
            BY <2>2, <3>1, <3>2 DEF Held, Noted, Shown, NoDrag, NoButtons
        <3> QED BY <2>2, <3>1, <3>2, <3>3
                DEF Driver, Held, Noted, Shown, Calm, Lifted, ButtonEnds, SentEnds, DragEnds, CommandEnds,
                    NoDrag, NoButtons
    <2>5. CASE ~Releases(t)
        <3>1. (ButtonEnds(t) => ButtonEnds(w)) /\ DragEnds(w) /\ CommandEnds(w)
            BY <2>2, <2>5 DEF Driver, Held, Releases, ButtonEnds, DragEnds, CommandEnds
        <3>2. SentEnds(t) => SentEnds(w)
            BY <2>2, <2>5 DEF Driver, Held, Shown, Releases, SentEnds
        <3> QED BY <2>2, <2>3, <2>5, <3>1, <3>2 DEF Driver, Calm, Lifted
    <2> QED BY <2>4, <2>5
<1>3. ASSUME NEW u \in ProcessFeaturesToggle(t) PROVE Driver(none, quiet, u)
    <2> DEFINE v == [t EXCEPT !.featureTimer = FALSE]
               w == ClickNC(v)
    <2>1. Driver(none, quiet, v) BY <1>1
    <2> HIDE DEF v
    <2>2. Driver(none, quiet, w) BY <1>1, <2>1 DEF ClickNC
    <2> HIDE DEF w
    <2>3. u \in TapsClick(w) \/ u \in SwitchFeature(w) \/ u \in {w}
        BY <1>3, Zenon DEF ProcessFeaturesToggle, v, w
    <2> QED BY <1>1, <2>2, <2>3 DEF TapsClick, SwitchFeature
<1>4. ASSUME NEW v, Driver(none, quiet, v), NEW u \in ProcessTouchEnd(v) PROVE Driver(none, quiet, u)
    <2>1. /\ Held(v.fingers, u) /\ u.last = 0 /\ u.mode # "SWIPE"
          /\ DragEnds(u) /\ CommandEnds(u)
          /\ ButtonEnds(v) => ButtonEnds(u)
          /\ (Plain => Noted(v)) => SentEnds(u)
        BY <1>4, TouchEnds DEF Driver
    <2>2. SentEnds(v) => (Plain => Noted(v)) BY DEF SentEnds, Noted
    <2>3. u.fingers = v.fingers BY <2>1 DEF Held
    <2> QED BY <1>4, <2>1, <2>2, <2>3 DEF Driver, Calm, Lifted
<1>5. ASSUME NEW u \in EnhanceScrollAcceleration(t) PROVE Driver(none, quiet, u)
    <2> DEFINE fired == [t EXCEPT !.scrollTimer = FALSE]
               idle  == [fired EXCEPT !.job = FALSE]
               again == [idle EXCEPT !.scrollTimer = TRUE]
               ended == {StopScrollEnhanceTimer(v) : v \in ProcessTouchEnd(idle)}
    <2>1. Driver(none, quiet, fired) BY <1>1
    <2>2. \/ u \in {fired} \/ u \in {again} \cup ended \/ u \in {idle} \/ u \in ProcessInertia(t)
        BY <1>5, Zenon DEF EnhanceScrollAcceleration
    <2>3. \A v \in ProcessInertia(t) : Driver(none, quiet, v) BY <1>1 DEF ProcessInertia
    <2> HIDE DEF fired
    <2>4. Driver(none, quiet, idle) BY <1>1, <2>1
    <2> HIDE DEF idle
    <2>5. Driver(none, quiet, again) BY <1>1, <2>4
    <2>6. \A v \in ended : Driver(none, quiet, v) BY <1>1, <1>4, <2>4
    <2> HIDE DEF again, ended
    <2> QED BY <2>1, <2>2, <2>3, <2>4, <2>5, <2>6
<1> QED BY <1>2, <1>3, <1>5

\* The keyboard's notifications.
LEMMA Notices ==
    ASSUME NEW none, NEW quiet, NEW t, Driver(none, quiet, t), NEW key \in Notifications,
           NEW u \in ReceiveKeyboardNotifications(t, key)
    PROVE  Driver(none, quiet, u)
<1> DEFINE w == IF t.drag THEN NoDrag(NoButtons(t)) ELSE t
           x == [w EXCEPT !.toggle = FALSE, !.taps = 0]
<1> USE DEF Held, Noted, Shown, Calm, Lifted, ButtonEnds, SentEnds, DragEnds, CommandEnds
<1>1. Driver(none, quiet, w) BY DEF Driver, NoDrag, NoButtons
<1> HIDE DEF w
<1>2. Driver(none, quiet, x) BY <1>1 DEF Driver
<1> HIDE DEF x
<1>3. Driver(none, quiet, ReleaseCmdKey(x)) BY <1>2 DEF Driver, ReleaseCmdKey
<1>4. \A v \in Escape(t) : Driver(none, quiet, v) BY <1>3 DEF Escape, w, x
<1>5. /\ \A v \in ShiftKey(t)        : Driver(none, quiet, v)
      /\ \A v \in DoContextMenu(t)   : Driver(none, quiet, v)
      /\ \A v \in AccidentalInput(t) : Driver(none, quiet, v)
    BY DEF Driver, ShiftKey, DoContextMenu, AccidentalInput
<1>6. /\ \A v \in DisableTouchpad(t) : Driver(none, quiet, v)
      /\ \A v \in EnableTouchpad(t)  : Driver(none, quiet, v)
      /\ \A v \in FeatureKey(t)      : Driver(none, quiet, v)
    BY DEF Driver, DisableTouchpad, EnableTouchpad, FeatureKey, Resend
<1> HIDE DEF Held, Noted, Shown, Calm, Lifted, ButtonEnds, SentEnds, DragEnds, CommandEnds, x, w
<1>7. \/ u \in Escape(t) \/ u \in ShiftKey(t) \/ u \in DoContextMenu(t) \/ u \in AccidentalInput(t)
      \/ u \in DisableTouchpad(t) \/ u \in EnableTouchpad(t) \/ u \in FeatureKey(t)
    <2>1. \/ key = "escape" \/ key = "shift" \/ key = "menu" \/ key = "typing"
          \/ key = "disable" \/ key = "enable" \/ key = "feature"
        BY DEF Notifications
    <2> QED BY <2>1, Zenon DEF ReceiveKeyboardNotifications
<1> QED BY <1>4, <1>5, <1>6, <1>7

---------------------------------------------------------------------------
(* The invariant. *)

NoFinger == touch.fingers = 0 /\ ~missed
Quiet    == NoFinger /\ touch.buttons = {}

IInv ==
    /\ pad \in Touchpads
    /\ touch \in [fingers : Nat, buttons : SUBSET {"L", "R"}]
    /\ Driver(NoFinger, Quiet, g)

\* Typing stops to count at any packet.
LEMMA TypingOver ==
    ASSUME NEW none, NEW quiet, Driver(none, quiet, g), NEW t \in Received(g)
    PROVE  Driver(none, quiet, t)
BY DEF Received, Driver, Held, Noted, Shown, Calm, Lifted, ButtonEnds, SentEnds, DragEnds, CommandEnds

\* Reports are of the type of touch.
LEMMA Reported ==
    ASSUME IInv, NEW r \in Reports
    PROVE  r \in [fingers : Nat, buttons : SUBSET {"L", "R"}]
<1>1. pad.fingers \in Nat BY TouchpadsAssumption DEF IInv
<1>2. ButtonsOf \subseteq SUBSET {"L", "R"} BY DecodersAssumption DEF ButtonsOf
<1>3. r \in [fingers : 0..pad.fingers, buttons : ButtonsOf] BY DEF Reports
<1>4. r.fingers \in Nat BY <1>1, <1>3
<1>5. r.buttons \in SUBSET {"L", "R"}
    <2> DEFINE some == SUBSET {"L", "R"}
    <2> HIDE DEF some
    <2>1. r.buttons \in ButtonsOf BY <1>3
    <2>2. ButtonsOf \subseteq some BY <1>2 DEF some
    <2> QED BY <2>1, <2>2 DEF some
<1>6. r = [fingers |-> r.fingers, buttons |-> r.buttons] BY <1>3
<1> QED BY <1>4, <1>5, <1>6

LEMMA InvInit == Init => IInv
<1> SUFFICES ASSUME Init PROVE IInv OBVIOUS
<1>1. /\ {"mode", "fingers", "last", "data", "state", "sent", "triggered", "tapDrag", "holdDrag",
          "drag", "check", "app", "cmd", "buttonTimer"} \subseteq DOMAIN g
      /\ g.fingers = 0 /\ g.last = 0 /\ g.data = {} /\ g.state = {} /\ g.sent = {} /\ g.mode = "IDLE"
      /\ ~g.drag /\ ~g.holdDrag /\ ~g.tapDrag /\ ~g.cmd /\ ~g.app
    BY DEF Init, InitGestures
<1>2. Driver(NoFinger, Quiet, g)
    BY <1>1 DEF Driver, Held, Noted, Shown, Calm, Lifted, ButtonEnds, SentEnds, DragEnds, CommandEnds
<1> QED BY <1>2 DEF IInv, Init

LEMMA Weaker ==
    ASSUME NEW a, NEW b, NEW c, NEW d, NEW t, Driver(a, b, t), c => a, d => b
    PROVE  Driver(c, d, t)
BY DEF Driver

\* The configuration stays, and with it what the invariant says of a state.
LEMMA Unprimed ==
    ASSUME IInv, pad' = pad, touch' \in [fingers : Nat, buttons : SUBSET {"L", "R"}],
           Driver(NoFinger', Quiet', g')
    PROVE  IInv'
BY DEF IInv, Driver, Held, Calm, Lifted, ButtonEnds, SentEnds, DragEnds, CommandEnds, Commands, Drags, Plain

\* A packet that is handled brings the driver up to date; one that is dropped
\* leaves it as it was, and missed says so.
LEMMA Packets ==
    ASSUME IInv, pad' = pad, touch' \in [fingers : Nat, buttons : SUBSET {"L", "R"}],
           NEW t, Driver(NoFinger, Quiet, t), NEW states,
           \A u \in states : Driver(touch'.fingers = 0, touch'.fingers = 0 /\ touch'.buttons = {}, u),
           Handle(t, states) \/ Drop(t)
    PROVE  IInv'
<1>1. CASE Handle(t, states)
    <2>1. Driver(touch'.fingers = 0, touch'.fingers = 0 /\ touch'.buttons = {}, g') BY <1>1 DEF Handle
    <2>2. /\ NoFinger' => touch'.fingers = 0
          /\ Quiet' => touch'.fingers = 0 /\ touch'.buttons = {}
        BY DEF NoFinger, Quiet
    <2>3. Driver(NoFinger', Quiet', g') BY <2>1, <2>2, Weaker
    <2> QED BY <2>3, Unprimed
<1>2. CASE Drop(t)
    <2>1. ~NoFinger' /\ ~Quiet' /\ g' = t BY <1>2 DEF Drop, NoFinger, Quiet
    <2>2. Driver(NoFinger', Quiet', g') BY <2>1, Weaker
    <2> QED BY <2>2, Unprimed
<1> QED BY <1>1, <1>2

LEMMA ELANPackets == IInv /\ (ELANv2v3Packet \/ TrackpointPacket) => IInv'
<1>1. ASSUME IInv, ELANv2v3Packet PROVE IInv'
    <2>1. PICK r \in Reports, t \in Received(g) :
              /\ touch' = r
              /\ Handle(t, ProcessELANv2v3(t, r.fingers, r.buttons)) \/ Drop(t)
        BY <1>1 DEF ELANv2v3Packet, Packet
    <2>2. r \in [fingers : Nat, buttons : SUBSET {"L", "R"}] BY <1>1, Reported
    <2>3. Driver(NoFinger, Quiet, t) BY <1>1, TypingOver DEF IInv
    <2>4. pad' = pad /\ pad.vendor \in {"v2", "v3"} BY <1>1 DEF ELANv2v3Packet
    <2>5. ASSUME NEW u \in ProcessELANv2v3(t, r.fingers, r.buttons)
          PROVE  Driver(touch'.fingers = 0, touch'.fingers = 0 /\ touch'.buttons = {}, u)
        <3>1. /\ Held(u.fingers, u)
              /\ r.fingers = 0 => u.fingers = 0
              /\ r.fingers = 0 /\ r.buttons = {} => Calm(u)
            <4>1. Plain /\ r.fingers > 1 => r.buttons = {} BY <2>2 DEF Plain, Reports
            <4> QED BY <2>2, <2>3, <2>5, <4>1, ELANv2v3 DEF Driver
        <3> QED BY <2>1, <2>4, <3>1 DEF Driver
    <2> DEFINE states == ProcessELANv2v3(t, r.fingers, r.buttons)
    <2> HIDE DEF states
    <2> QED BY <1>1, <2>1, <2>2, <2>3, <2>4, <2>5, Packets DEF states
<1>2. ASSUME IInv, TrackpointPacket PROVE IInv'
    <2>1. PICK t \in Received(g) : g' \in ProcessTrackpointELAN(t, touch.buttons)
        BY <1>2 DEF TrackpointPacket
    <2>2. /\ pad.stick /\ pad.vendor \in {"v3", "v4"}
          /\ pad' = pad /\ touch' = touch /\ missed' = missed
        BY <1>2 DEF TrackpointPacket
    <2>3. Driver(NoFinger, Quiet, t) BY <1>2, TypingOver DEF IInv
    <2>4. /\ Held(g'.fingers, g')
          /\ t.fingers = 0 => g'.fingers = 0
          /\ t.fingers = 0 /\ Calm(t) /\ touch.buttons = {} => Calm(g')
        BY <2>1, <2>2, <2>3, Trackpoint DEF Driver
    <2>5. Driver(NoFinger, Quiet, g') BY <2>2, <2>3, <2>4 DEF Driver, NoFinger, Quiet
    <2>6. NoFinger' = NoFinger /\ Quiet' = Quiet BY <2>2 DEF NoFinger, Quiet
    <2> QED BY <1>2, <2>2, <2>5, <2>6, Unprimed DEF IInv
<1> QED BY <1>1, <1>2

LEMMA V4Packets == IInv /\ (StatusPacket \/ AbsolutePacket \/ RelativePacket) => IInv'
<1>1. ASSUME IInv, StatusPacket PROVE IInv'
    <2>1. PICK r \in Reports, t \in Received(g) :
              /\ touch' = r
              /\ Handle(t, ProcessStatus(t, r.fingers, r.buttons)) \/ Drop(t)
        BY <1>1 DEF StatusPacket, Packet
    <2>2. r \in [fingers : Nat, buttons : SUBSET {"L", "R"}] BY <1>1, Reported
    <2>3. Driver(NoFinger, Quiet, t) BY <1>1, TypingOver DEF IInv
    <2>4. pad' = pad /\ pad.vendor = "v4" BY <1>1 DEF StatusPacket
    <2>5. ASSUME NEW u \in ProcessStatus(t, r.fingers, r.buttons)
          PROVE  Driver(touch'.fingers = 0, touch'.fingers = 0 /\ touch'.buttons = {}, u)
        <3>1. /\ Held(u.fingers, u)
              /\ r.fingers = 0 => u.fingers = 0
              /\ r.fingers = 0 /\ r.buttons = {} => Calm(u)
            BY <2>3, <2>4, <2>5, Statuses DEF Driver
        <3> QED BY <2>1, <2>4, <3>1 DEF Driver
    <2> DEFINE states == ProcessStatus(t, r.fingers, r.buttons)
    <2> HIDE DEF states
    <2> QED BY <1>1, <2>1, <2>2, <2>3, <2>4, <2>5, Packets DEF states
<1>2. ASSUME IInv, AbsolutePacket \/ RelativePacket PROVE IInv'
    <2>1. PICK r \in Reports, t \in Received(g) :
              /\ r.fingers = touch.fingers
              /\ touch' = r
              /\ \/ g' \in ProcessAbsolute(t, r.buttons) \cup ProcessRelative(t, r.buttons) \cup Palm(t)
                 \/ Drop(t)
        <3>1. CASE AbsolutePacket BY <3>1 DEF AbsolutePacket, MotionPacket
        <3>2. CASE RelativePacket BY <3>2 DEF RelativePacket, MotionPacket
        <3> QED BY <1>2, <3>1, <3>2
    <2>2. r \in [fingers : Nat, buttons : SUBSET {"L", "R"}] BY <1>2, Reported
    <2>3. Driver(NoFinger, Quiet, t) BY <1>2, TypingOver DEF IInv
    <2>4. pad' = pad /\ pad.vendor = "v4" /\ touch.fingers > 0
        BY <1>2 DEF AbsolutePacket, RelativePacket, MotionPacket
    <2>5. ~NoFinger' /\ ~Quiet' BY <2>1, <2>2, <2>4 DEF NoFinger, Quiet
    <2>6. Held(t.fingers, t) /\ ~Plain BY <2>3, <2>4 DEF Driver, Plain
    <2>7. Held(t.fingers, g')
        <3>1. CASE Drop(t) BY <2>6, <3>1 DEF Drop
        <3>2. CASE g' \in ProcessAbsolute(t, r.buttons) \cup ProcessRelative(t, r.buttons) BY <2>6, <3>2, Motions
        <3>3. CASE g' \in Palm(t) BY <2>6, <3>3, Counting
        <3> QED BY <2>1, <3>1, <3>2, <3>3
    <2>8. g'.fingers = t.fingers BY <2>7 DEF Held
    <2>9. Driver(NoFinger', Quiet', g') BY <2>4, <2>5, <2>7, <2>8 DEF Driver
    <2> QED BY <1>2, <2>1, <2>2, <2>4, <2>9, Unprimed
<1> QED BY <1>1, <1>2

LEMMA SynapticsPackets == IInv /\ (SynapticsPacket \/ FingerStatePacket) => IInv'
<1>1. ASSUME IInv, SynapticsPacket PROVE IInv'
    <2>1. PICK r \in Reports, t \in Received(g) :
              /\ touch' = r
              /\ Handle(t, SynapticsReportAbsolute(t, r.fingers, r.buttons)) \/ Drop(t)
        BY <1>1 DEF SynapticsPacket, Packet
    <2>2. r \in [fingers : Nat, buttons : SUBSET {"L", "R"}] BY <1>1, Reported
    <2>3. Driver(NoFinger, Quiet, t) BY <1>1, TypingOver DEF IInv
    <2>4. pad' = pad /\ pad.vendor = "synaptics" BY <1>1 DEF SynapticsPacket
    <2>5. ASSUME NEW u \in SynapticsReportAbsolute(t, r.fingers, r.buttons)
          PROVE  Driver(touch'.fingers = 0, touch'.fingers = 0 /\ touch'.buttons = {}, u)
        <3>1. Held(t.fingers, t) /\ Lifted(t) BY <2>3, <2>4 DEF Driver
        <3>2. /\ Held(u.fingers, u) /\ Lifted(u)
              /\ r.fingers = 0 => u.fingers = 0
              /\ r.fingers = 0 /\ r.buttons = {} /\ ~pad.clickpad => ButtonEnds(u)
            <4>1. ~Plain BY <2>4 DEF Plain
            <4> QED BY <2>5, <3>1, <4>1, SynapticsReports
        <3> QED BY <2>1, <2>4, <3>2 DEF Driver
    <2> DEFINE states == SynapticsReportAbsolute(t, r.fingers, r.buttons)
    <2> HIDE DEF states
    <2> QED BY <1>1, <2>1, <2>2, <2>3, <2>4, <2>5, Packets DEF states
<1>2. ASSUME IInv, FingerStatePacket PROVE IInv'
    <2>1. PICK n \in 3..pad.fingers, t \in Received(g) :
              /\ touch' = [touch EXCEPT !.fingers = n]
              /\ Handle(t, FingerState(t, n)) \/ Drop(t)
        BY <1>2 DEF FingerStatePacket, Packet
    <2>2. n \in Nat \ {0}
        <3>1. pad.fingers \in Nat BY <1>2, TouchpadsAssumption DEF IInv
        <3> QED BY <2>1, <3>1
    <2>3. touch' \in [fingers : Nat, buttons : SUBSET {"L", "R"}] /\ touch'.fingers = n
        BY <1>2, <2>1, <2>2 DEF IInv
    <2>4. pad' = pad /\ pad.vendor = "synaptics" BY <1>2 DEF FingerStatePacket
    <2>5. Driver(NoFinger, Quiet, t) BY <1>2, TypingOver DEF IInv
    <2>6. ASSUME NEW u \in FingerState(t, n)
          PROVE  Driver(touch'.fingers = 0, touch'.fingers = 0 /\ touch'.buttons = {}, u)
        <3>1. Held(t.fingers, t) /\ Lifted(t) BY <2>4, <2>5 DEF Driver
        <3>2. Held(n, u) /\ Lifted(u) BY <2>2, <2>6, <3>1, OtherReports
        <3>3. u.fingers = n BY <3>2 DEF Held
        <3> QED BY <2>2, <2>3, <2>4, <3>2, <3>3 DEF Driver
    <2> DEFINE states == FingerState(t, n)
    <2> HIDE DEF states
    <2> QED BY <1>2, <2>1, <2>3, <2>4, <2>5, <2>6, Packets DEF states
<1> QED BY <1>1, <1>2

LEMMA OtherSynapticsPackets == IInv /\ (InvalidPacket \/ PassthroughPacket) => IInv'
<1>1. ASSUME IInv, InvalidPacket PROVE IInv'
    <2>1. PICK t \in Received(g) : Handle(t, InvalidPrimary(t)) \/ Drop(t)
        BY <1>1 DEF InvalidPacket, Packet
    <2>2. pad' = pad /\ pad.vendor = "synaptics" /\ touch' = touch /\ touch.fingers > 0
        BY <1>1 DEF InvalidPacket
    <2>3. touch' \in [fingers : Nat, buttons : SUBSET {"L", "R"}] /\ touch'.fingers # 0
        BY <1>1, <2>2 DEF IInv
    <2>4. Driver(NoFinger, Quiet, t) BY <1>1, TypingOver DEF IInv
    <2>5. ASSUME NEW u \in InvalidPrimary(t)
          PROVE  Driver(touch'.fingers = 0, touch'.fingers = 0 /\ touch'.buttons = {}, u)
        <3>1. Held(t.fingers, t) /\ Lifted(t) BY <2>2, <2>4 DEF Driver
        <3>2. Held(t.fingers, u) /\ Lifted(u) BY <2>5, <3>1, OtherReports
        <3>3. u.fingers = t.fingers BY <3>2 DEF Held
        <3> QED BY <2>2, <2>3, <3>2, <3>3 DEF Driver
    <2> DEFINE states == InvalidPrimary(t)
    <2> HIDE DEF states
    <2> QED BY <1>1, <2>1, <2>2, <2>3, <2>4, <2>5, Packets DEF states
<1>2. ASSUME IInv, PassthroughPacket PROVE IInv'
    <2>1. PICK t \in Received(g) : g' \in ProcessPassthrough(t, touch.buttons)
        BY <1>2 DEF PassthroughPacket
    <2>2. pad.vendor = "synaptics" /\ pad' = pad /\ touch' = touch /\ missed' = missed
        BY <1>2 DEF PassthroughPacket
    <2>3. Driver(NoFinger, Quiet, t) BY <1>2, TypingOver DEF IInv
    <2>4. Held(t.fingers, t) /\ Lifted(t) BY <2>2, <2>3 DEF Driver
    <2>5. Held(t.fingers, g') /\ Lifted(g') /\ (touch.buttons = {} => g'.data = {})
        BY <2>1, <2>4, OtherReports
    <2>6. g'.fingers = t.fingers BY <2>5 DEF Held
    <2>7. Driver(NoFinger, Quiet, g') BY <2>2, <2>3, <2>5, <2>6 DEF Driver, Quiet, ButtonEnds, SentEnds
    <2>8. NoFinger' = NoFinger /\ Quiet' = Quiet BY <2>2 DEF NoFinger, Quiet
    <2> QED BY <1>2, <2>2, <2>7, <2>8, Unprimed DEF IInv
<1> QED BY <1>1, <1>2

LEMMA InvNext == IInv /\ [Next]_vars => IInv'
<1> SUFFICES ASSUME IInv, [Next]_vars PROVE IInv' OBVIOUS
<1>1. ASSUME pad' = pad, touch' = touch, missed' = missed, Driver(NoFinger, Quiet, g') PROVE IInv'
    <2>1. NoFinger' = NoFinger /\ Quiet' = Quiet BY <1>1 DEF NoFinger, Quiet
    <2> QED BY <1>1, <2>1, Unprimed DEF IInv
<1>2. Driver(NoFinger, Quiet, g) BY DEF IInv
<1>3. CASE ELANv2v3Packet \/ TrackpointPacket BY <1>3, ELANPackets
<1>4. CASE StatusPacket \/ AbsolutePacket \/ RelativePacket BY <1>4, V4Packets
<1>5. CASE SynapticsPacket \/ FingerStatePacket BY <1>5, SynapticsPackets
<1>6. CASE InvalidPacket \/ PassthroughPacket BY <1>6, OtherSynapticsPackets
<1>7. CASE ReleaseTimer BY <1>1, <1>2, <1>7, Timers DEF ReleaseTimer
<1>8. CASE FeatureTimer BY <1>1, <1>2, <1>8, Timers DEF FeatureTimer
<1>9. CASE ScrollTimer BY <1>1, <1>2, <1>9, Timers DEF ScrollTimer
<1>10. CASE Notification
    <2>1. PICK key \in pad.keys : g' \in ReceiveKeyboardNotifications(g, key) BY <1>10 DEF Notification
    <2>2. key \in Notifications BY <2>1, TouchpadsAssumption DEF IInv
    <2>3. Driver(NoFinger, Quiet, g') BY <1>2, <2>1, <2>2, Notices
    <2> QED BY <1>1, <1>10, <2>3 DEF Notification
<1>11. CASE UNCHANGED vars BY <1>1, <1>2, <1>11 DEF vars
<1> QED BY <1>3, <1>4, <1>5, <1>6, <1>7, <1>8, <1>9, <1>10, <1>11 DEF Next

LEMMA Invariant == Spec => []IInv
BY InvInit, InvNext, PTL DEF Spec

---------------------------------------------------------------------------
(* The theorems. *)

\* However taps, drags, presses and timers followed each other, and even where
\* they overlap, no button of a packet is left over when neither fingers nor
\* buttons are down: a button that stayed in data would keep the next touch from
\* being ended.
THEOREM NoButtonLeft == Spec => []NoPhantomButton
<1>1. IInv => NoPhantomButton
    BY DEF IInv, Driver, NoFinger, Quiet, Calm, ButtonEnds, SentEnds, NoPhantomButton, Rest, Ending
<1> QED BY <1>1, Invariant, PTL

\* A drag does not outlive its touch without a timer that ends it or a lock the
\* user asked for, on every touchpad that does not drag by presses.
THEOREM DragsEnd == Spec => [](Drags => DragsEndAtRest)
<1>1. IInv => (Drags => DragsEndAtRest)
    BY DEF IInv, Driver, NoFinger, Quiet, Calm, Lifted, DragEnds, DragsEndAtRest, Rest, Ending
<1> QED BY <1>1, Invariant, PTL

\* Whoever switched applications by a tap or swipe started the timer that lets go
\* of command, and the keyboard driver never holds it without.
THEOREM CommandLetGo == Spec => [](Commands => CommandReleased)
<1>1. IInv => (Commands => CommandReleased)
    BY TouchpadsAssumption
    DEF IInv, Driver, NoFinger, Quiet, Calm, Lifted, Held, CommandEnds, Commands, CommandReleased, Rest
<1> QED BY <1>1, Invariant, PTL

\* Once the touchpad is left alone no button stays reported down for ever: however
\* clicks, taps, drags, presses, swipes, timers and notifications followed each
\* other, the release timer still runs for what was reported, or the user locked
\* the drag.  On the touchpads that Plain says.
THEOREM ButtonsReleased == Spec => [](Plain => ReleasesAtRest)
<1>1. IInv => (Plain => ReleasesAtRest)
    BY DEF IInv, Driver, NoFinger, Quiet, Calm, SentEnds, Shown, Plain, ReleasesAtRest, Rest, Ending
<1> QED BY <1>1, Invariant, PTL
==============================================================================
