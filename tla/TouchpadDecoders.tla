--------------------------- MODULE TouchpadDecoders ---------------------------
(***************************************************************************)
(* The packets of ELAN v2, v3 and v4, FocalTech and Synaptics touchpads,   *)
(* as their decoders hand them to the methods of TouchpadGestures, and the *)
(* driver's timers and notifications between them.                         *)
(***************************************************************************)
EXTENDS TouchpadGestures

CONSTANT PadButtons  \* the combinations of physical buttons that are pressed

ASSUME DecodersAssumption == PadButtons \subseteq SUBSET {"L", "R"} /\ {} \in PadButtons

VARIABLES
    touch,  \* fingers and buttons, as the touchpad last reported them
    missed  \* the report was dropped, so the driver knows of an earlier one

vars == <<pad, g, touch, missed>>

\* The packet of the lift is counted without looking at the eight bits' limit.
BumpOrWrap(t) == {Bump(t)} \cup (IF t.packets = 2 THEN {[t EXCEPT !.packets = 0]} ELSE {})

FingersBecome(t, n) == [t EXCEPT !.last = t.fingers, !.fingers = n]

\* Typing without tapEnable, or switching it off, makes the touchpad dead.
\* The time over which typing counts may be over with any packet.
Ignored(t)  == (t.accidental /\ ~pad.tapEnable) \/ t.disabled
Received(t) == {t, [t EXCEPT !.accidental = FALSE]}

\* A palm stays one until the touch ends.
Palm(t) == {[t EXCEPT !.mode = "PALM", !.palm = TRUE]}

\* While typing counts, a touch can only be a tap that ends it.
OnlyTap(t) == {[t EXCEPT !.mode = m] : m \in {"TAP1", "IDLE"}}
Typing(t)  == t.accidental /\ pad.tapEnable

---------------------------------------------------------------------------
(* ELAN v2 and v3. *)

ProcessELANv2v3Checks(t, n, bits) ==
    LET counted == CASE n # t.fingers /\ n > 0 -> ProcessFingersChange(FingersBecome(t, n))
                     [] n # t.fingers /\ n = 0 -> {FingersBecome(t, n)}
                     [] OTHER -> {t}
    IN  UNION {{ProcessPhysicalButtons(v, bits) : v \in IF n = 0 THEN BumpOrWrap(u) ELSE {u}} : u \in counted}

\* A third finger's packet may stand for four, which v2 pads do nothing about;
\* v3 pads report two fingers in two packets, the first of which only waits.
ELANv2v3Fingers(t) ==
    CASE t.fingers = 1 -> One(t)
      [] t.fingers = 2 -> (IF pad.vendor = "v3" THEN Off(t) ELSE {})
                          \cup Two(IF t.packets < 2 THEN [t EXCEPT !.slot = TRUE] ELSE t)
      [] OTHER -> (IF t.drag THEN Off(t) ELSE Many(t))
                  \cup (IF pad.vendor = "v2" THEN Off([t EXCEPT !.fingers = 4]) ELSE {})

\* The last packet of a touch, of no fingers, ends it unless a button is down.
\* A pad that is not touched reports its end packet, and no pressure.
ELANv2v3Touch(t) ==
    CASE t.fingers = 0 /\ t.data = {} -> ProcessTouchEnd(t)
      [] (t.fingers > 0 \/ t.data # {}) /\ Typing(t) -> OnlyTap(t)
      [] t.fingers = 0 /\ t.data # {} /\ ~Typing(t) -> {t}
      [] OTHER -> Touched(ELANv2v3Fingers(t))

ProcessELANv2v3(t, n, bits) ==
    UNION {ELANv2v3Touch(u) \cup (IF n > 0 THEN Palm(u) ELSE {}) : u \in ProcessELANv2v3Checks(t, n, bits)}

\* The track point of a v3 pad speaks in packets of no fingers with pressure.
ProcessTrackpointELAN(t, bits) ==
    IF pad.vendor = "v4" THEN ProcessSingleFinger(t)
    ELSE UNION {IF u.last = 0 THEN ProcessSingleFinger(u) ELSE ELANv2v3Touch(u) :
                   u \in ProcessELANv2v3Checks(t, 0, bits)}

---------------------------------------------------------------------------
(* ELAN v4 and FocalTech. *)

\* Counts that a status packet's mask of fingers may become: the table lacks
\* the mask of a third finger alone, which is left as 4, and others of two and
\* three fingers, which are left as more than five.
Unknown == 6
StatusCounts(n) ==
    {n} \cup (IF n = 1 THEN {4} ELSE {}) \cup (IF n \in 2..3 THEN {Unknown} ELSE {})

\* No fingers: buttons, and the end of the touch unless buttons were its matter.
StatusOfNone(t, bits) ==
    LET u == FingersBecome(t, 0)
        clicked == IF pad.clickpad THEN ProcessVirtualButtons(u, bits # {}, 1)
                   ELSE {ProcessPhysicalButtons(v, bits) : v \in BumpOrWrap(u)}
        ended(v) == IF v.last > 0 /\ v.mode # "BUTTONS" THEN ProcessTouchEnd(v)
                    ELSE ProcessFingersChange(v)
    IN  Each(clicked, ended)

\* The finger that stays may have tapped beside one on the buttons.
StatusOfSome(t, n, c) ==
    LET u == FingersBecome(t, c)
        tapped == IF n = 1 /\ t.fingers = 2 /\ t.area THEN {u, NoButtons(u)} ELSE {u}
    IN  IF c = n THEN Each(tapped, ProcessFingersChange) ELSE {u}

\* A palm's status goes on to be looked at.
ProcessStatus(t, n, bits) ==
    LET u == IF t.palm THEN [t EXCEPT !.mode = "PALM"] ELSE t
    IN  IF n = 0 THEN StatusOfNone(u, bits)
        ELSE UNION {StatusOfSome(u, n, c) : c \in StatusCounts(n)}

\* One finger of a clickpad: where it is chooses the button, and pressed
\* outside the buttons it drags.
ClickWithOne(t, bits) ==
    LET clicked(u) == {IF v.triggered /\ ~v.area THEN [v EXCEPT !.holdDrag = TRUE, !.drag = TRUE] ELSE v :
                          v \in ProcessVirtualButtons(u, bits # {}, 1)}
    IN  CASE ~pad.clickpad -> {ProcessPhysicalButtons(t, bits)}
          [] pad.clickpad /\ t.packets > 0 -> UNION {clicked([t EXCEPT !.area = a]) : a \in BOOLEAN}
          [] OTHER -> {t}

ClickWithMany(t, bits) ==
    IF pad.clickpad THEN ProcessVirtualButtons(t, bits # {}, t.fingers) ELSE {t}

\* An absolute packet of an unknown finger says nothing; the second finger of
\* two may still be unknown.
ProcessAbsolute(t, bits) ==
    LET u == [t EXCEPT !.slot = TRUE]
        many(v) == IF v.fingers = 2 THEN Off(v) \cup Two(v) ELSE Many(v)
    IN  CASE Typing(t) -> OnlyTap(t)
          [] ~Typing(t) /\ t.fingers = 1    -> {t} \cup Touched(Each(ClickWithOne(u, bits), One))
          [] ~Typing(t) /\ t.fingers \in 2..5 -> {t} \cup Touched(Each(ClickWithMany(u, bits), many))
          [] OTHER -> {t, u}

\* Two packets' worth in one: the count of packets goes up once for both.  A
\* count that the first began anew wraps around.
Uncount(t) == {[t EXCEPT !.packets = p] : p \in IF t.packets = 2 THEN {1, 2} ELSE IF t.packets = 1 THEN {0} ELSE {2}}
MultiFingersTwice(t) == Touched(Each(Each(Touched(Many(t)), Uncount), Many))

ProcessRelative(t, bits) ==
    LET u == [t EXCEPT !.slot = TRUE]
        many(v) == IF ~v.drag \/ v.drag3 THEN MultiFingersTwice(v) ELSE {v}
    IN  CASE Typing(t) -> OnlyTap(t)
          [] ~Typing(t) /\ t.fingers = 2 ->
                 {u} \cup Touched(IF pad.clickpad THEN ProcessClickPad2F(u, bits # {}) ELSE Two(u))
          [] ~Typing(t) /\ t.fingers \in 3..5 -> {u} \cup Each(ClickWithMany(u, bits), many)
          [] OTHER -> {u}

---------------------------------------------------------------------------
(* Synaptics. *)

\* Fingers of three and more are counted by packets of their own.
FingerState(t, n) ==
    IF n = t.fingers THEN {[t EXCEPT !.slot = TRUE]}
    ELSE ProcessFingersChange([FingersBecome(t, n) EXCEPT !.slot = TRUE])

\* Coordinates out of range end the touch before its fingers are lifted.
InvalidPrimary(t) ==
    {[u EXCEPT !.ended = TRUE] : u \in IF t.mode = "IDLE" THEN {t} ELSE ProcessTouchEnd(t)}

\* Sticks send packets through the pad, with fingers' numbers beyond the pad's.
ProcessPassthrough(t, bits) ==
    LET u == ProcessPhysicalButtons(t, bits)
    IN  {u} \cup States(OnButtonArea([u EXCEPT !.slot = FALSE]))

\* How many fingers a primary packet with pressure stands for.
CountPrimary(t, n) ==
    IF n = t.fingers \/ n > 3 \/ (n = 3 /\ t.fingers > 3)
    THEN {IF n = 1 THEN [t EXCEPT !.slot = TRUE] ELSE t}
    ELSE ProcessFingersChange([FingersBecome(t, n) EXCEPT !.slot = TRUE])

\* None are left: physical buttons may change, a clickpad's do not.
LiftPrimary(t, bits) ==
    LET u == IF t.fingers # 0 THEN FingersBecome(t, 0) ELSE t
    IN  IF pad.clickpad THEN u ELSE ProcessPhysicalButtons(u, bits)

EndPrimary(t) ==
    IF ~t.ended /\ t.data = {} /\ t.slot THEN ProcessTouchEnd(t) ELSE {t}

PrimaryTouch(t, bits) ==
    LET two == IF pad.clickpad /\ t.packets = 2 THEN ProcessClickPad2F(t, bits # {}) ELSE Two(t)
        again(u) == {u} \cup Touched(Each(Each(ClickWithMany(u, bits), Uncount), Many))
        first == CASE t.fingers = 1 -> Each(ClickWithOne(t, bits), One)
                   [] t.fingers = 2 -> two
                   [] t.fingers > 2 -> Many(t)
                   [] OTHER -> Off(t)
    IN  IF t.fingers > 2 THEN Each(Touched(first), again) ELSE Touched(first)

\* A palm after more fingers is skipped, else it is remembered.
SynapticsReportAbsolute(t, n, bits) ==
    LET palm(u) == IF u.fingers = 1 /\ u.last > 1 THEN {u} ELSE Palm(u)
        touched(u) == palm(u) \cup
                      (CASE u.palm -> {}
                         [] ~u.palm /\ Typing(u) -> OnlyTap(u)
                         [] OTHER -> PrimaryTouch(u, bits))
    IN  IF n = 0 THEN EndPrimary(LiftPrimary(t, bits)) ELSE Each(CountPrimary(t, n), touched)

---------------------------------------------------------------------------
(* What the touchpad reports. *)

ButtonsOf == IF pad.clickpad THEN {{}, {"L"}} ELSE PadButtons

\* A clickpad's button needs a finger that presses it.  Unless Overlaps, no
\* button is pressed while a tap's click is still to be released, and a button
\* beside the pad is held with at most one finger on it.
Reports ==
    {r \in [fingers : 0..pad.fingers, buttons : ButtonsOf] :
        /\ pad.clickpad /\ r.fingers = 0 => r.buttons = {}
        /\ pad.vendor \in {"v2", "v3"} => r.fingers <= 3
        /\ Overlaps \/
              /\ g.buttonTimer \/ g.check => r.buttons \subseteq touch.buttons
              /\ ~pad.clickpad /\ (touch.buttons # {} \/ r.buttons # {})
                     => touch.fingers < 2 /\ r.fingers < 2}

\* A packet that is handled, or dropped.
Handle(t, states) == ~Ignored(t) /\ g' \in states /\ missed' = FALSE
Drop(t)           == Ignored(t) /\ g' = t /\ missed' = TRUE

Packet(F(_)) == \E t \in Received(g) : Handle(t, F(t)) \/ Drop(t)

ELANv2v3Packet ==
    /\ pad.vendor \in {"v2", "v3"}
    /\ \E r \in Reports :
          /\ touch' = r
          /\ LET F(t) == ProcessELANv2v3(t, r.fingers, r.buttons) IN Packet(F)
    /\ UNCHANGED pad

TrackpointPacket ==
    /\ pad.stick /\ pad.vendor \in {"v3", "v4"}
    /\ touch.fingers = 0
    /\ LET F(t) == ProcessTrackpointELAN(t, touch.buttons)
       IN  \E t \in Received(g) : ~Ignored(t) /\ g' \in F(t)
    /\ UNCHANGED <<pad, touch, missed>>

\* A status packet says that the fingers changed, or the buttons without any.
StatusPacket ==
    /\ pad.vendor = "v4"
    /\ \E r \in Reports :
          /\ r.fingers # touch.fingers \/ (r.fingers = 0 /\ r # touch)
          /\ touch' = r
          /\ LET F(t) == ProcessStatus(t, r.fingers, r.buttons) IN Packet(F)
    /\ UNCHANGED pad

\* Packets of the fingers that are there; a dropped status is not made good.
MotionPacket(F(_, _)) ==
    /\ pad.vendor = "v4"
    /\ touch.fingers > 0
    /\ \E r \in Reports :
          /\ r.fingers = touch.fingers
          /\ touch' = r
          /\ \E t \in Received(g) :
                \/ ~Ignored(t) /\ g' \in (IF t.palm THEN {} ELSE F(t, r.buttons))
                                          \cup (IF t.palm \/ t.fingers \in 1..2 THEN Palm(t) ELSE {})
                                /\ UNCHANGED missed
                \/ Drop(t)
    /\ UNCHANGED pad

AbsolutePacket == MotionPacket(ProcessAbsolute)
RelativePacket == MotionPacket(ProcessRelative)

SynapticsPacket ==
    /\ pad.vendor = "synaptics"
    /\ \E r \in Reports :
          /\ touch' = r
          /\ LET F(t) == SynapticsReportAbsolute(t, r.fingers, r.buttons) IN Packet(F)
    /\ UNCHANGED pad

FingerStatePacket ==
    /\ pad.vendor = "synaptics"
    /\ \E n \in 3..pad.fingers :
          /\ touch' = [touch EXCEPT !.fingers = n]
          /\ LET F(t) == FingerState(t, n) IN Packet(F)
    /\ UNCHANGED pad

InvalidPacket ==
    /\ pad.vendor = "synaptics"
    /\ touch.fingers > 0
    /\ Packet(InvalidPrimary)
    /\ UNCHANGED <<pad, touch>>

PassthroughPacket ==
    /\ pad.vendor = "synaptics" /\ pad.stick
    /\ LET F(t) == ProcessPassthrough(t, touch.buttons)
       IN  \E t \in Received(g) : ~Ignored(t) /\ g' \in F(t)
    /\ UNCHANGED <<pad, touch, missed>>

---------------------------------------------------------------------------
ReleaseTimer ==
    /\ g.buttonTimer
    /\ g' \in ReleaseButtonsAndDrag(g)
    /\ UNCHANGED <<pad, touch, missed>>

FeatureTimer ==
    /\ g.featureTimer
    /\ g' \in ProcessFeaturesToggle(g)
    /\ UNCHANGED <<pad, touch, missed>>

ScrollTimer ==
    /\ g.scrollTimer
    /\ g' \in EnhanceScrollAcceleration(g)
    /\ UNCHANGED <<pad, touch, missed>>

Notification ==
    /\ \E key \in pad.keys : g' \in ReceiveKeyboardNotifications(g, key)
    /\ UNCHANGED <<pad, touch, missed>>

Init ==
    /\ pad \in Touchpads
    /\ g = InitGestures
    /\ touch = [fingers |-> 0, buttons |-> {}]
    /\ missed = FALSE

Next ==
    \/ ELANv2v3Packet \/ TrackpointPacket
    \/ StatusPacket \/ AbsolutePacket \/ RelativePacket
    \/ SynapticsPacket \/ FingerStatePacket \/ InvalidPacket \/ PassthroughPacket
    \/ ReleaseTimer \/ FeatureTimer \/ ScrollTimer
    \/ Notification

\* Timers that are set fire.
Spec == Init /\ [][Next]_vars /\ WF_vars(ReleaseTimer) /\ WF_vars(FeatureTimer) /\ WF_vars(ScrollTimer)

---------------------------------------------------------------------------
(* Properties. *)

\* No finger, no button, and the driver knows.  A Synaptics touch that was
\* ended before its fingers were lifted is not ended again, and neither is one
\* whose button was let go unseen: see README.md.
Rest ==
    /\ touch.fingers = 0 /\ touch.buttons = {} /\ ~missed
    /\ pad.vendor = "synaptics" => g.last = 0 /\ (pad.clickpad => g.data = {} \/ g.buttonTimer)

\* A timer is about to end what is held down, or the user locked the drag.
Ending == g.buttonTimer \/ (pad.dragLock /\ g.drag)

Button == {{}, {"L"}, {"R"}, {"M"}}

\* However taps, drags, presses, scrolls and timers followed each other, once
\* the touchpad is left alone no button stays reported down for ever: the
\* release timer still runs (Process_touch_end starts it, the next touch
\* cancels it), or the user locked the drag.
ReleasesAtRest == Rest /\ g.sent # {} => Ending

\* A drag does not outlive its touch without a timer that ends it, whoever
\* else cancelled or started timers in between.
DragsEndAtRest == Rest /\ g.drag => Ending

\* No packet's button is left over at rest; it would keep the next touch of
\* ELAN v2, v3 and Synaptics from being ended.
NoPhantomButton == Rest /\ g.data # {} => Ending

\* The keyboard driver does not hold command down at rest: who switched
\* applications started the timer, and a click or tap in between released it.
CommandReleased == Rest /\ g.cmd => g.buttonTimer

\* If the touchpad is left alone for long enough, the click of a tap is
\* released (unless the user locked its drag), and so is command: the timers
\* that were set fire, and what they dispatch lets go.
HoldsEnd ==
    /\ (Rest /\ g.sent # {}) ~> (g.sent = {} \/ ~Rest \/ (pad.dragLock /\ g.drag))
    /\ (Rest /\ g.cmd) ~> (~g.cmd \/ ~Rest)

===============================================================================
