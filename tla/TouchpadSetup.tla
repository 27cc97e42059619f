---------------------------- MODULE TouchpadSetup ----------------------------
(***************************************************************************)
(* Detecting a touchpad, setting it up and reconnecting it: a conversation *)
(* of requests any of which may fail, or fail after the device took the    *)
(* command, or read zeros for data that never came.                        *)
(*                                                                         *)
(* The requests of one call follow each other without interleaving (all    *)
(* callers are behind the work loop's gate), so each method is the set of  *)
(* its outcomes, and methods are put together from the outcomes of what    *)
(* they call.  An outcome is [ok, s]: the method's result, and the state   *)
(* that it leaves the device and the driver in.                            *)
(***************************************************************************)
EXTENDS Naturals

CONSTANTS
    Pads,       \* devices that may be there, see the assumption
    MaxFaults,  \* bound: requests that fail or misread
    MaxEvents   \* bound: power-ups and resets of the device's own accord

ASSUME TouchpadSetupAssumption ==
    /\ Pads \subseteq [brand : {"focaltech", "elan", "synaptics", "mouse"},
                       hw : {"mouse", "v1", "v2", "v3", "v4", "unknown", "focaltech", "synaptics"},
                       named : BOOLEAN,    \* ACPI names it among FocalTechNameMatch
                       gesture : BOOLEAN,  \* Synaptics' advanced gestures
                       legacy : BOOLEAN,   \* ELAN v3 that refuses 0x0b in register 0x10
                       keeps : BOOLEAN]    \* SetDefaults leaves the absolute mode alone
    /\ \A p \in Pads :
           /\ IF p.brand = "elan" THEN p.hw \in {"v1", "v2", "v3", "v4", "unknown"}
              ELSE p.hw = p.brand
           /\ p.legacy => p.hw = "v3"
    /\ MaxFaults \in Nat /\ MaxEvents \in Nat

VARIABLES
    pad,   \* the device there is; never changes
    life,  \* of the driver: "matched", "probed", "running", "stopped" or "failed"
    s      \* device and driver, see Init

vars == <<pad, life, s>>

---------------------------------------------------------------------------
(* Requests and how they are put together. *)

\* Requests that come out wrong.
Fault(t) == IF t.faults = MaxFaults THEN {} ELSE {[t EXCEPT !.faults = @ + 1]}

\* A request of commands whose acknowledges are compared: it fails before or
\* after the device took it.
SendPS2Cmd(t, effects) ==
    {[ok |-> TRUE, s |-> u] : u \in effects} \cup
    {[ok |-> FALSE, s |-> u] : u \in UNION {Fault(v) : v \in {t} \cup effects}}

NoEffect(t) == {t}

Then(outcomes, F(_)) ==
    UNION {IF o.ok THEN F(o.s) ELSE {o} : o \in outcomes}
OrElse(outcomes, F(_)) ==
    UNION {IF o.ok THEN {o} ELSE F(o.s) : o \in outcomes}
Always(outcomes, F(_)) == UNION {F(o.s) : o \in outcomes}

Done(t)   == {[ok |-> TRUE, s |-> t]}
Failed(t) == {[ok |-> FALSE, s |-> t]}

\* Up to three and five tries; three and four steps.
Retry3(t, Try(_))   == OrElse(OrElse(Try(t), Try), Try)
Retry5(t, Try(_))   == OrElse(OrElse(Retry3(t, Try), Try), Try)
InTurn3(t, Step(_)) == Then(Then(Step(t), Step), Step)
InTurn4(t, Step(_)) == Then(InTurn3(t, Step), Step)

\* Three bytes are read without comparing them; what does not come reads as
\* zero, and the request still counts as done.
GetMouseInformation(t) ==
    {[ok |-> TRUE, known |-> TRUE, s |-> t]} \cup
    {[ok |-> b, known |-> FALSE, s |-> u] : b \in BOOLEAN, u \in Fault(t)}

\* Sliced commands go out as one request, ELAN's are tried three times each.
SendSlicedPS2Cmd(t) == SendPS2Cmd(t, NoEffect(t))
SendElantechPS2Cmd(t) == LET Try(u) == SendPS2Cmd(u, NoEffect(u)) IN Retry3(t, Try)

\* sendSynapticsCmd and sendElantechCmd: an outcome tells whether the answer
\* is the device's.
Query(t, Send(_)) ==
    UNION {IF o.ok THEN GetMouseInformation(o.s)
           ELSE {[ok |-> FALSE, known |-> FALSE, s |-> o.s]} : o \in Send(t)}
SendSynapticsCmd(t) == Query(t, SendSlicedPS2Cmd)
SendElantechCmd(t)  == GetMouseInformation(t)

\* A method that goes on with the answer only if the query went well.
Ask(outcomes, Answered(_), Garbled(_)) ==
    UNION {IF ~o.ok THEN {[ok |-> FALSE, s |-> o.s]}
           ELSE IF o.known THEN Answered(o.s) ELSE Garbled(o.s) : o \in outcomes}

---------------------------------------------------------------------------
(* What the device does with a command. *)

Defaults(t) == {[t EXCEPT !.reporting = FALSE,
                          !.mode = IF pad.keeps THEN @ ELSE "relative"]}
ResetDevice(t) == {[t EXCEPT !.reporting = FALSE, !.mode = "relative"]}
Reporting(t) == {[t EXCEPT !.reporting = TRUE]}

\* Register writes and mode bytes, as far as this device understands them.
TakesMode(t, mode, understood) == {IF understood THEN [t EXCEPT !.mode = mode] ELSE t}

---------------------------------------------------------------------------
(* PS2Interface. *)

ResetMouse(t) ==
    LET DefaultsThenReset(u) == ResetDevice(u) \cup Defaults(u) \cup {u}
    IN  {[ok |-> TRUE, s |-> u] : u \in ResetDevice(t)} \cup
        {[ok |-> FALSE, s |-> u] : u \in UNION {Fault(v) : v \in DefaultsThenReset(t)}}

\* Three times SetDefaultsAndDisable; the result is not looked at.
GetStatus(t) == SendPS2Cmd(t, Defaults(t))

InitializeMouse(t) ==
    Then(SendPS2Cmd(t, NoEffect(t)),
         LAMBDA u : {[ok |-> TRUE, s |-> o.s] :
                        o \in Always(GetMouseInformation(u), GetStatus)})

EnableTouchpad(t, enable) ==
    IF enable THEN SendPS2Cmd(t, Reporting(t)) ELSE SendPS2Cmd(t, Defaults(t))

---------------------------------------------------------------------------
(* FocalTech. *)

FocaltechReadReg(t) ==
    UNION {{[ok |-> o.ok /\ p.ok, known |-> p.known, s |-> p.s] : p \in GetMouseInformation(o.s)} :
               o \in SendPS2Cmd(t, NoEffect(t))}

FocaltechSetAbsoluteMode(t) ==
    SendPS2Cmd(t, TakesMode(t, "absolute", pad.brand = "focaltech"))

\* A size that was misread is taken as it is.
FocaltechSetup(t) ==
    Ask(FocaltechReadReg(t), FocaltechSetAbsoluteMode, FocaltechSetAbsoluteMode)

---------------------------------------------------------------------------
(* Synaptics. *)

\* Mutant: the answer is not looked at.
MutantSynapticsDetect(t) == SendPS2Cmd(t, NoEffect(t))

\* Anything but 0x47 in the second byte is no Synaptics.
SynapticsDetect(t) ==
    UNION {{[ok |-> o.ok /\ p.ok /\ p.known /\ pad.brand = "synaptics", s |-> p.s] :
                p \in GetMouseInformation(o.s)} : o \in SendPS2Cmd(t, NoEffect(t))}

\* The mode byte takes effect with the last of three requests.
SynapticsModeCmd(t, mode) ==
    LET SampleRate(u) == SendPS2Cmd(u, NoEffect(u))
        SetMode2(u)   == SendPS2Cmd(u, TakesMode(u, mode, pad.brand = "synaptics"))
    IN  Then(Then(SendSlicedPS2Cmd(t), SampleRate), SetMode2)

SynapticsSetAdvancedGestureMode(t) ==
    LET Command(u) == SendPS2Cmd(u, NoEffect(u))
    IN  IF t.gesture THEN Then(Then(SendSlicedPS2Cmd(t), Command), Command) ELSE Done(t)

\* absolute_mode and the capabilities are what the setup left: without it the
\* mode byte asks for the relative mode.
SynapticsSetAbsoluteMode(t) ==
    IF t.hw = "synaptics"
    THEN Then(SynapticsModeCmd(t, "absolute"), SynapticsSetAdvancedGestureMode)
    ELSE SynapticsModeCmd(t, "relative")

SynapticsReset(t) == SynapticsModeCmd(t, "relative")

\* Identity, model, firmware, board and capabilities must be read. An identity
\* of zeros is not Synaptics'; old firmware is refused when its capabilities
\* lack the submodel, newer firmware whatever they are is not.
SynapticsIdentify(t) ==
    LET Id(u)           == Ask(SendSynapticsCmd(u), Done, Failed)
        Info(u)         == Ask(SendSynapticsCmd(u), Done, Done)
        Capabilities(u) == Id(u) \cup Info(u)
    IN  Then(Then(Id(t), LAMBDA u : InTurn3(u, Info)), Capabilities)

\* What lies beyond is optional: a query that fails leaves its capability out.
SynapticsCapabilities(t) ==
    LET Optional(u) == {[ok |-> TRUE, s |-> o.s] : o \in SendSynapticsCmd(u)}
        Gesture(u)  == {[ok |-> TRUE, s |-> [o.s EXCEPT !.gesture = o.known /\ pad.gesture]] :
                           o \in SendSynapticsCmd(u)}
    IN  Then(Then(Optional(t), Gesture), LAMBDA u : InTurn3(u, Optional))

SynapticsSetup(t) ==
    Then(Then(SynapticsIdentify(t), SynapticsCapabilities),
         LAMBDA u : SynapticsSetAbsoluteMode([u EXCEPT !.hw = "synaptics"]))

---------------------------------------------------------------------------
(* ELAN. *)

\* Seven or nine commands in turn, the last of which makes the device take the
\* value; version 1 slices them.
ElantechWriteReg(t, mode) ==
    LET understood == pad.brand = "elan" /\ pad.hw = t.hw
        Last(u)    == IF pad.legacy /\ mode = "absolute" THEN Failed(u)
                      ELSE SendPS2Cmd(u, TakesMode(u, mode, understood))
        Value(u)   == Retry3(u, Last)
        Three(u)   == InTurn3(u, SendElantechPS2Cmd)
        Four(u)    == InTurn4(u, SendElantechPS2Cmd)
    IN  CASE t.hw \in {"v2", "v3"} ->
                 Then(Then(Three(t), Three), Value)
          [] t.hw = "v4" ->
                 Then(Then(Four(t), Four), Value)
          [] OTHER -> Done(t)

ElantechReadReg(t) ==
    IF t.hw \in {"v2", "v3", "v4"}
    THEN Then(InTurn4(t, SendElantechPS2Cmd),
              LAMBDA u : {[ok |-> o.ok, s |-> o.s] : o \in GetMouseInformation(u)})
    ELSE Done(t)

\* The reset's result is not looked at.  Version 2 writes three registers, the
\* mode being in the first; version 3 falls back to the legacy value.
ElantechSetAbsoluteMode(t) ==
    LET Reset(u)     == SendPS2Cmd(u, ResetDevice(u))
        Write(u)     == ElantechWriteReg(u, "absolute")
        Other(u)     == ElantechWriteReg(u, u.mode)
        FallBack(u)  == ElantechWriteReg([u EXCEPT !.legacy = TRUE], "legacy")
        ReadBack(u)  == Retry5(u, ElantechReadReg)
        Registers(u) ==
            CASE u.hw = "v2" -> Then(Then(Then(Write(u), Other), Other), ReadBack)
              [] u.hw = "v3" -> Then(OrElse(Write(u), FallBack), ReadBack)
              [] u.hw = "v4" -> Write(u)
              [] OTHER       -> ReadBack(u)
    IN  Always(Reset(t), Registers)

\* Version 2 computes its range from a query, versions 3 and 4 read it; a
\* version 4 pad without traces is refused.
ElantechSetRange(t) ==
    CASE t.hw = "v2" -> Ask(SendSynapticsCmd(t), Done, Done)
      [] t.hw = "v3" -> Ask(SendElantechCmd(t), Done, Done)
      [] t.hw = "v4" -> IF t.traces THEN Ask(SendElantechCmd(t), Done, Failed)
                        ELSE Always(SendElantechCmd(t), Failed)

\* The firmware's version decides the hardware's; version 1 is not supported.
\* Zeros are no valid signature.  (An unknown version is meant to be taken for
\* version 4, but the test looks at _hw_version, not at ver.)
ElantechVersion(t) ==
    IF pad.hw \in {"v1", "unknown"} THEN Failed(t) ELSE Done([t EXCEPT !.hw = pad.hw])

ElantechSetup(t) ==
    LET NoTraces(u) == Done([u EXCEPT !.traces = FALSE])
        Capabilities(u) ==
            IF u.hw = "v2" THEN Ask(SendSynapticsCmd(u), Done, NoTraces)
            ELSE Ask(SendElantechCmd(u), Done, NoTraces)
    IN  Then(Then(Then(Ask(SendSynapticsCmd(t), ElantechVersion, Failed),
                       Capabilities), ElantechSetAbsoluteMode), ElantechSetRange)

---------------------------------------------------------------------------
(* Detecting, reconnecting. *)

\* The magic knock is looked at even when it failed.  A FocalTech pad must
\* answer as one; any other pad is ELAN's, Synaptics' or else a mouse.
Knock(t) ==
    UNION {IF o.ok THEN GetMouseInformation(o.s)
           ELSE {[ok |-> FALSE, known |-> FALSE, s |-> o.s]} : o \in SendPS2Cmd(t, NoEffect(t))}

\* Mutant: what was once taken for a mouse is not asked again.
MutantVendor(o) ==
    IF o.s.vendor = "mouse" /\ o.s.hw # "mouse" THEN {[ok |-> o.ok, s |-> o.s]}
    ELSE IF o.known /\ pad.brand = o.s.vendor THEN {[ok |-> o.ok, s |-> o.s]}
    ELSE {[ok |-> o.ok, s |-> [o.s EXCEPT !.vendor = IF o.known THEN pad.brand ELSE "mouse"]]}

Vendor(o) ==
    LET detected == SynapticsDetect(o.s)
    IN  CASE o.s.vendor = "focaltech" ->
                 {[ok |-> o.ok /\ o.known /\ pad.brand = "focaltech", s |-> o.s]}
          [] o.s.vendor # "focaltech" /\ o.known /\ pad.brand = "elan" ->
                 {[ok |-> o.ok, s |-> [o.s EXCEPT !.vendor = "elan"]]}
          [] OTHER ->
                 {[ok |-> o.ok, s |-> [d.s EXCEPT !.vendor = IF d.ok THEN "synaptics" ELSE "mouse"]] :
                     d \in detected}

DetectTouchpad(t) ==
    Then(SendPS2Cmd(t, Defaults(t)), LAMBDA u : UNION {Vendor(o) : o \in Knock(u)})

\* By _touchpadVendor, which detection may just have changed.
SetAbsoluteMode(t) ==
    CASE t.vendor = "focaltech" -> FocaltechSetAbsoluteMode(t)
      [] t.vendor = "elan"      -> ElantechSetAbsoluteMode(t)
      [] t.vendor = "synaptics" -> SynapticsSetAbsoluteMode(t)
      [] t.vendor = "mouse"     -> Done(t)

Enable(t) == EnableTouchpad(t, TRUE)

\* Mutant: goes on when the mode could not be set.
MutantReconnect(t) ==
    LET Detect(u) == Retry3(u, DetectTouchpad)
    IN  {o.s : o \in Always(Then(Then(Always(ResetMouse(t), Detect),
                                      InitializeMouse), SetAbsoluteMode), Enable)}

\* Reconnect_touchpad.  Every early return leaves the device as it is then:
\* reset and disabled.
Reconnect(t) ==
    LET Detect(u) == Retry3(u, DetectTouchpad)
    IN  {o.s : o \in Then(Then(Then(Always(ResetMouse(t), Detect),
                                    InitializeMouse), SetAbsoluteMode), Enable)}

---------------------------------------------------------------------------
(* The driver and its environment. *)

Init ==
    /\ pad \in Pads
    /\ life = "matched"
    /\ s = [mode |-> "relative", reporting |-> FALSE, announced |-> FALSE,
            vendor |-> "mouse", hw |-> "mouse", legacy |-> FALSE, gesture |-> FALSE,
            traces |-> TRUE, tries |-> 3, faults |-> 0, events |-> 0]

\* probe: what ACPI names a FocalTech pad is one; the rest must be detected.
DetectTouchpadVendor(t) ==
    IF pad.named THEN [t EXCEPT !.vendor = "focaltech"] ELSE t
Probe ==
    /\ life = "matched"
    /\ \E o \in DetectTouchpad(DetectTouchpadVendor(s)) :
           /\ life' = IF o.ok THEN "probed" ELSE "failed"
           /\ s' = o.s
    /\ UNCHANGED pad

\* start: the mouse is initialised once more after the setup.
SetupVendor(t) ==
    CASE t.vendor = "focaltech" ->
             Then(FocaltechSetup(t), LAMBDA u : Done([u EXCEPT !.hw = "focaltech"]))
      [] t.vendor = "elan"      -> ElantechSetup(t)
      [] t.vendor = "synaptics" -> SynapticsSetup(t)
      [] t.vendor = "mouse"     -> Done(t)

\* Mutant: reports are switched on before the last step that may fail.
MutantStart ==
    /\ life = "probed"
    /\ \E o \in Then(Then(Then(InitializeMouse(s), SetupVendor), Enable),
                     LAMBDA u : SendPS2Cmd(u, NoEffect(u))) :
           /\ life' = IF o.ok THEN "running" ELSE "failed"
           /\ s' = o.s
    /\ UNCHANGED pad

Start ==
    /\ life = "probed"
    /\ \E o \in Then(Then(InitializeMouse(s), SetupVendor), InitializeMouse) :
           IF o.ok THEN /\ life' = "running"
                        /\ s' \in {e.s : e \in Enable(o.s)}
           ELSE /\ life' = "failed"
                /\ s' = o.s
    /\ UNCHANGED pad

\* stop: disables the pad, whatever comes of it.
Stop ==
    /\ life = "running"
    /\ life' = "stopped"
    /\ LET Disable(u) == EnableTouchpad(u, FALSE)
       IN  s' \in {o.s : o \in Always(IF s.vendor = "synaptics" THEN SynapticsReset(s)
                                      ELSE Done(s), Disable)}
    /\ UNCHANGED pad

Event == life = "running" /\ s.events < MaxEvents

\* The device resets itself and announces it with AA 00.
DeviceResets ==
    /\ Event
    /\ s' = [s EXCEPT !.mode = "relative", !.reporting = FALSE,
                      !.announced = TRUE, !.events = @ + 1]
    /\ UNCHANGED <<pad, life>>

Announcement ==
    /\ life = "running" /\ s.announced
    /\ s' \in Reconnect([s EXCEPT !.announced = FALSE])
    /\ UNCHANGED <<pad, life>>

\* setDevicePowerState.
PowerUp ==
    /\ Event
    /\ s' \in Reconnect([s EXCEPT !.tries = 3, !.announced = FALSE, !.events = @ + 1])
    /\ UNCHANGED <<pad, life>>

\* A packet that the decoder of this hardware version does not know.
UnknownPacket ==
    /\ life = "running" /\ s.reporting /\ s.mode = "relative"
    /\ s.hw \in {"focaltech", "v3", "v4"}
    /\ s.tries > 0
    /\ s' \in Reconnect([s EXCEPT !.tries = @ - 1])
    /\ UNCHANGED <<pad, life>>

Next == Probe \/ Start \/ Stop \/ DeviceResets \/ Announcement \/ PowerUp \/ UnknownPacket

Spec == Init /\ [][Next]_vars

---------------------------------------------------------------------------
(* Properties. *)

\* The decoder chosen at start is the detected vendor's.
Fits == s.vendor = IF s.hw \in {"v2", "v3", "v4"} THEN "elan" ELSE s.hw

\* Whatever failed on the way, reports are only ever switched on in the
\* absolute mode that the decoder expects: methods that fail half way must not
\* get to Enable_touchpad.  It takes a device whose SetDefaults leaves the mode
\* alone, because start sends SetDefaults after it set the mode.
ReportsAbsolute ==
    life = "running" /\ pad.keeps /\ s.reporting /\ Fits /\ s.hw # "mouse" =>
        s.mode # "relative"

\* One reconnection whose requests are all answered repairs whatever earlier
\* ones left behind: vendor, mode and reports are as after a good start.
Reconnecting == Announcement \/ PowerUp \/ UnknownPacket
Repaired == s.vendor = pad.brand /\ s.reporting /\ (s.vendor # "mouse" => s.mode # "relative")
AnsweredReconnectRepairs ==
    [][Reconnecting /\ s'.faults = s.faults /\ s.hw = pad.hw => Repaired']_vars

\* Detection may miss a touchpad, it never takes one brand for another, not
\* even in the middle of a reconnection that goes wrong.
DetectsNoOther == life \in {"probed", "running"} => s.vendor \in {pad.brand, "mouse"}

\* A driver that is not there to receive them leaves no reports switched on.
SilentUnattended == life \in {"probed", "failed"} => ~s.reporting

===============================================================================
