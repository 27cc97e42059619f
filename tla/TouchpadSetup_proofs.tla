------------------------- MODULE TouchpadSetup_proofs -------------------------
(***************************************************************************)
(* Proofs about TouchpadSetup, for every device, every number of faults    *)
(* and every number of events: a driver that is not there leaves no        *)
(* reports on, detection takes no brand for another, a touchpad that       *)
(* reports is in the mode its decoder expects, and a reconnection whose    *)
(* requests are all answered repairs what earlier ones left.               *)
(*                                                                         *)
(* A method is the set of its outcomes, put together from the outcomes of  *)
(* the methods it calls.  So there is a lemma for each method, about the   *)
(* states that all its outcomes leave; lemmas use those of the methods     *)
(* that are called.                                                        *)
(***************************************************************************)
EXTENDS TouchpadSetup, TLAPS

---------------------------------------------------------------------------
(* A silent touchpad and the methods that only ask.  All but Enable_touchpad *)
(* leave a silent touchpad silent; o is what the driver took it for, and the *)
(* mode it was in, before.                                                   *)

\* What the lemmas need to know of a state's type.
Shape(t) ==
    /\ {"mode", "reporting", "vendor", "hw", "faults"} \subseteq DOMAIN t
    /\ t.faults \in Nat

Silent(o, t) ==
    /\ Shape(t)
    /\ t.reporting = FALSE
    /\ t.vendor = o.vendor /\ t.hw = o.hw

Same(o, t) == Silent(o, t) /\ t.mode = o.mode

\* A request takes effect, or comes out wrong before or after it did.
LEMMA Sent ==
    ASSUME NEW t, NEW effects
    PROVE  \A x \in SendPS2Cmd(t, effects) :
               IF x.ok THEN x.s \in effects ELSE \E v \in {t} \cup effects : x.s \in Fault(v)
BY DEF SendPS2Cmd

LEMMA FaultsKeep ==
    ASSUME NEW o, NEW v
    PROVE  \A u \in Fault(v) : /\ Shape(v) => Shape(u) /\ \A f \in {"mode", "reporting", "vendor", "hw"} : u[f] = v[f]
                               /\ Silent(o, v) => Silent(o, u)
                               /\ Same(o, v) => Same(o, u)
BY DEF Fault, Silent, Same, Shape

LEMMA SendingKeeps ==
    ASSUME NEW o, NEW t, Same(o, t)
    PROVE  \A x \in SendPS2Cmd(t, NoEffect(t)) : Same(o, x.s)
BY Sent, FaultsKeep DEF NoEffect

LEMMA InformationKeeps ==
    ASSUME NEW o, NEW t, Same(o, t)
    PROVE  \A x \in GetMouseInformation(t) : Same(o, x.s)
BY FaultsKeep DEF GetMouseInformation

LEMMA ElantechSendingKeeps ==
    ASSUME NEW o, NEW t, Same(o, t)
    PROVE  \A x \in SendElantechPS2Cmd(t) : Same(o, x.s)
BY SendingKeeps DEF SendElantechPS2Cmd, Retry3, OrElse

LEMMA QueriesKeep ==
    ASSUME NEW o, NEW t, Same(o, t)
    PROVE  /\ \A x \in SendSynapticsCmd(t) : Same(o, x.s)
           /\ \A x \in SendElantechCmd(t) : Same(o, x.s)
           /\ \A x \in FocaltechReadReg(t) : Same(o, x.s)
           /\ \A x \in SynapticsDetect(t) : Same(o, x.s)
           /\ \A x \in Knock(t) : Same(o, x.s)
<1>1. \A y \in SendPS2Cmd(t, NoEffect(t)) : \A x \in GetMouseInformation(y.s) : Same(o, y.s) /\ Same(o, x.s)
    BY SendingKeeps, InformationKeeps
<1>2. \A x \in SendSynapticsCmd(t) : Same(o, x.s)
    BY <1>1, SendingKeeps DEF SendSynapticsCmd, Query, SendSlicedPS2Cmd
<1>3. \A x \in SendElantechCmd(t) : Same(o, x.s)
    BY InformationKeeps DEF SendElantechCmd
<1>4. \A x \in FocaltechReadReg(t) : Same(o, x.s)
    BY <1>1 DEF FocaltechReadReg
<1>5. \A x \in SynapticsDetect(t) : Same(o, x.s)
    BY <1>1 DEF SynapticsDetect
<1>6. \A x \in Knock(t) : Same(o, x.s)
    BY <1>1, SendingKeeps DEF Knock
<1> QED BY <1>2, <1>3, <1>4, <1>5, <1>6

---------------------------------------------------------------------------
(* PS2Interface, FocalTech and Synaptics. *)

\* The mouse is initialised with SetDefaults.
LEMMA InitializingSilences ==
    ASSUME NEW o, NEW t, Silent(o, t)
    PROVE  \A x \in InitializeMouse(t) : Silent(o, x.s) /\ (pad.keeps => x.s.mode = t.mode)
<1> DEFINE Kept(u) == Silent(o, u) /\ (pad.keeps => u.mode = t.mode)
<1>1. Same(t, t) BY DEF Same, Silent
<1>2. ASSUME NEW u, Same(t, u) PROVE \A x \in GetStatus(u) : Kept(x.s)
    <2>1. \A v \in {u} \cup Defaults(u) : Kept(v)
        BY <1>2 DEF Same, Silent, Shape, Defaults
    <2>2. ASSUME NEW v, Kept(v), NEW w \in Fault(v)
          PROVE  Kept(w)
        <3>1. w.mode = v.mode BY <2>2, FaultsKeep DEF Silent
        <3>2. Silent(o, w) BY <2>2, FaultsKeep
        <3> QED BY <2>2, <3>1, <3>2
    <2>3. \A x \in GetStatus(u) :
              IF x.ok THEN x.s \in Defaults(u) ELSE \E v \in {u} \cup Defaults(u) : x.s \in Fault(v)
        BY Sent DEF GetStatus
    <2> HIDE DEF Kept
    <2> QED BY <2>1, <2>2, <2>3
<1>3. \A y \in SendPS2Cmd(t, NoEffect(t)) : Same(t, y.s) BY <1>1, SendingKeeps
<1>4. ASSUME NEW u, Same(t, u)
      PROVE  \A x \in {[ok |-> TRUE, s |-> z.s] : z \in Always(GetMouseInformation(u), GetStatus)} : Kept(x.s)
    <2>1. \A y \in GetMouseInformation(u) : Same(t, y.s) BY <1>4, InformationKeeps
    <2> HIDE DEF Kept
    <2> QED BY <1>2, <2>1 DEF Always
<1>5. \A u : Same(t, u) => Kept(u) BY DEF Same, Silent
<1>6. \A x \in InitializeMouse(t) : Kept(x.s)
    <2> HIDE DEF Kept
    <2> QED BY <1>3, <1>4, <1>5 DEF InitializeMouse, Then
<1> QED BY <1>6

\* A mode that the device understands is taken when the request was.
LEMMA ModesAreTaken ==
    ASSUME NEW o, NEW t, NEW mode, NEW understood \in BOOLEAN, Silent(o, t)
    PROVE  \A x \in SendPS2Cmd(t, TakesMode(t, mode, understood)) :
               Silent(o, x.s) /\ (x.ok /\ understood => x.s.mode = mode)
<1>1. \A v \in {t} \cup TakesMode(t, mode, understood) : Silent(o, v)
    BY DEF Silent, Shape, TakesMode
<1>2. understood => \A v \in TakesMode(t, mode, understood) : v.mode = mode
    BY DEF Silent, Shape, TakesMode
<1> QED BY <1>1, <1>2, Sent, FaultsKeep

LEMMA FocaltechModes ==
    ASSUME NEW o, NEW t, Silent(o, t)
    PROVE  \A x \in FocaltechSetAbsoluteMode(t) :
               Silent(o, x.s) /\ (x.ok /\ pad.brand = "focaltech" => x.s.mode = "absolute")
<1> DEFINE understood == pad.brand = "focaltech"
<1>1. FocaltechSetAbsoluteMode(t) = SendPS2Cmd(t, TakesMode(t, "absolute", understood))
    BY DEF FocaltechSetAbsoluteMode
<1>2. understood \in BOOLEAN /\ (pad.brand = "focaltech" => understood) OBVIOUS
<1> HIDE DEF understood
<1> QED BY <1>1, <1>2, ModesAreTaken

LEMMA FocaltechSetups ==
    ASSUME NEW o, NEW t, Silent(o, t)
    PROVE  \A x \in FocaltechSetup(t) :
               Silent(o, x.s) /\ (x.ok /\ pad.brand = "focaltech" => x.s.mode = "absolute")
<1>1. Same(t, t) BY DEF Same, Silent
<1>2. \A y \in FocaltechReadReg(t) : Same(t, y.s) BY <1>1, QueriesKeep
<1>3. \A u : Same(t, u) => Silent(o, u) BY DEF Same, Silent
<1> QED BY <1>2, <1>3, FocaltechModes DEF FocaltechSetup, Ask

LEMMA SynapticsModes ==
    ASSUME NEW o, NEW t, NEW mode, Silent(o, t)
    PROVE  \A x \in SynapticsModeCmd(t, mode) :
               Silent(o, x.s) /\ (x.ok /\ pad.brand = "synaptics" => x.s.mode = mode)
<1> DEFINE SampleRate(u) == SendPS2Cmd(u, NoEffect(u))
           First == Then(SendSlicedPS2Cmd(t), SampleRate)
           understood == pad.brand = "synaptics"
<1>1. Same(t, t) BY DEF Same, Silent
<1>2. \A y \in SendSlicedPS2Cmd(t) : Same(t, y.s) BY <1>1, SendingKeeps DEF SendSlicedPS2Cmd
<1>3. \A y \in First : Same(t, y.s) BY <1>2, SendingKeeps DEF Then
<1>4. \A u : Same(t, u) => Silent(o, u) BY DEF Same, Silent
<1>5. SynapticsModeCmd(t, mode) =
          UNION {IF y.ok THEN SendPS2Cmd(y.s, TakesMode(y.s, mode, understood)) ELSE {y} : y \in First}
    BY DEF SynapticsModeCmd, Then
<1>6. understood \in BOOLEAN /\ (pad.brand = "synaptics" => understood) OBVIOUS
<1> HIDE DEF First, understood
<1> QED BY <1>3, <1>4, <1>5, <1>6, ModesAreTaken

LEMMA GestureModes ==
    ASSUME NEW o, NEW t, Same(o, t)
    PROVE  \A x \in SynapticsSetAdvancedGestureMode(t) : Same(o, x.s)
BY SendingKeeps DEF SynapticsSetAdvancedGestureMode, Then, SendSlicedPS2Cmd, Done

LEMMA SynapticsAbsolute ==
    ASSUME NEW o, NEW t, Silent(o, t)
    PROVE  \A x \in SynapticsSetAbsoluteMode(t) :
               /\ Silent(o, x.s)
               /\ x.ok /\ pad.brand = "synaptics" /\ t.hw = "synaptics" => x.s.mode = "absolute"
<1>1. CASE t.hw = "synaptics"
    <2>1. \A y \in SynapticsModeCmd(t, "absolute") :
              Silent(o, y.s) /\ (y.ok /\ pad.brand = "synaptics" => y.s.mode = "absolute")
        BY SynapticsModes
    <2>2. ASSUME NEW y \in SynapticsModeCmd(t, "absolute"), y.ok,
                 NEW x \in SynapticsSetAdvancedGestureMode(y.s)
          PROVE  Silent(o, x.s) /\ (pad.brand = "synaptics" => x.s.mode = "absolute")
        <3>1. Same(y.s, y.s) BY <2>1 DEF Same, Silent
        <3>2. Same(y.s, x.s) BY <2>2, <3>1, GestureModes
        <3> QED BY <2>1, <2>2, <3>2 DEF Same, Silent
    <2> QED BY <1>1, <2>1, <2>2 DEF SynapticsSetAbsoluteMode, Then
<1>2. CASE t.hw # "synaptics"
    BY <1>2, SynapticsModes DEF SynapticsSetAbsoluteMode
<1> QED BY <1>1, <1>2

LEMMA SynapticsQuestions ==
    ASSUME NEW o, NEW t, Same(o, t)
    PROVE  /\ \A x \in SynapticsIdentify(t) : Same(o, x.s)
           /\ \A x \in SynapticsCapabilities(t) : Same(o, x.s)
<1> DEFINE Id(u)       == Ask(SendSynapticsCmd(u), Done, Failed)
           Info(u)     == Ask(SendSynapticsCmd(u), Done, Done)
           Capabilities(u) == Id(u) \cup Info(u)
           Optional(u) == {[ok |-> TRUE, s |-> z.s] : z \in SendSynapticsCmd(u)}
           Gesture(u)  == {[ok |-> TRUE, s |-> [z.s EXCEPT !.gesture = z.known /\ pad.gesture]] :
                              z \in SendSynapticsCmd(u)}
<1>1. \A u : Same(o, u) => \A x \in Id(u) \cup Info(u) \cup Optional(u) : Same(o, x.s)
    BY QueriesKeep DEF Ask, Done, Failed
<1>2. \A u : Same(o, u) => \A x \in Gesture(u) : Same(o, x.s)
    <2>1. \A u, g : Same(o, u) => Same(o, [u EXCEPT !.gesture = g])
        BY DEF Same, Silent, Shape
    <2> QED BY <2>1, QueriesKeep
<1> DEFINE Infos(u)     == InTurn3(u, Info)
           Optionals(u) == InTurn3(u, Optional)
<1>3. SynapticsIdentify(t) = Then(Then(Id(t), Infos), Capabilities)
    BY DEF SynapticsIdentify
<1>4. SynapticsCapabilities(t) = Then(Then(Optional(t), Gesture), Optionals)
    BY DEF SynapticsCapabilities
<1>5. \A u : Same(o, u) => \A x \in Infos(u) \cup Optionals(u) : Same(o, x.s)
    <2> HIDE DEF Info, Optional
    <2> QED BY <1>1 DEF InTurn3, Then
<1>6. \A u : Same(o, u) => \A x \in Capabilities(u) : Same(o, x.s)
    BY <1>1
<1> HIDE DEF Id, Info, Capabilities, Optional, Gesture, Infos, Optionals
<1>7. \A x \in SynapticsIdentify(t) : Same(o, x.s)
    BY <1>1, <1>3, <1>5, <1>6 DEF Then
<1>8. \A x \in SynapticsCapabilities(t) : Same(o, x.s)
    BY <1>1, <1>2, <1>4, <1>5 DEF Then
<1> QED BY <1>7, <1>8

\* The setup ends by asking for the absolute mode.
LEMMA SynapticsSetups ==
    ASSUME NEW t, Shape(t), t.reporting = FALSE
    PROVE  \A x \in SynapticsSetup(t) :
               /\ Shape(x.s) /\ x.s.reporting = FALSE /\ x.s.vendor = t.vendor
               /\ x.ok => x.s.hw = "synaptics"
               /\ x.ok /\ pad.brand = "synaptics" => x.s.mode = "absolute"
<1> DEFINE Known    == Then(SynapticsIdentify(t), SynapticsCapabilities)
           Named(u) == [u EXCEPT !.hw = "synaptics"]
<1>1. Same(t, t) BY DEF Same, Silent
<1>2. \A y \in Known : Same(t, y.s)
    BY <1>1, SynapticsQuestions DEF Then
<1>3. SynapticsSetup(t) =
          UNION {IF y.ok THEN SynapticsSetAbsoluteMode(Named(y.s)) ELSE {y} : y \in Known}
    BY DEF SynapticsSetup, Then
<1> HIDE DEF Known
<1>4. \A y \in Known : LET u == Named(y.s)
                       IN  Silent(u, u) /\ u.vendor = t.vendor /\ u.hw = "synaptics"
    BY <1>2 DEF Same, Silent, Shape
<1>5. \A y \in Known : Shape(y.s) /\ y.s.reporting = FALSE /\ y.s.vendor = t.vendor
    BY <1>2 DEF Same, Silent
<1> HIDE DEF Named
<1>6. ASSUME NEW y \in Known, NEW x \in SynapticsSetAbsoluteMode(Named(y.s))
      PROVE  /\ Shape(x.s) /\ x.s.reporting = FALSE /\ x.s.vendor = t.vendor
             /\ x.s.hw = "synaptics"
             /\ x.ok /\ pad.brand = "synaptics" => x.s.mode = "absolute"
    <2> DEFINE u == Named(y.s)
    <2>1. Silent(u, u) /\ u.vendor = t.vendor /\ u.hw = "synaptics" BY <1>4
    <2>2. x \in SynapticsSetAbsoluteMode(u) BY <1>6
    <2> HIDE DEF u
    <2>3. /\ Silent(u, x.s)
          /\ x.ok /\ pad.brand = "synaptics" /\ u.hw = "synaptics" => x.s.mode = "absolute"
        BY <2>1, <2>2, SynapticsAbsolute
    <2> QED BY <2>1, <2>3 DEF Silent
<1> QED BY <1>3, <1>5, <1>6

---------------------------------------------------------------------------
(* ELAN. *)

\* The driver writes the registers of this hardware version.
Knows(t) == pad.brand = "elan" /\ t.hw = pad.hw /\ t.hw \in {"v2", "v3", "v4"}

LEMMA RegistersWritten ==
    ASSUME NEW o, NEW t, NEW mode, Silent(o, t)
    PROVE  \A x \in ElantechWriteReg(t, mode) :
               Silent(o, x.s) /\ (x.ok /\ Knows(t) => x.s.mode = mode)
<1> DEFINE understood == pad.brand = "elan" /\ pad.hw = t.hw
           Last(u)    == IF pad.legacy /\ mode = "absolute" THEN Failed(u)
                         ELSE SendPS2Cmd(u, TakesMode(u, mode, understood))
           Value(u)   == Retry3(u, Last)
           Three(u)   == InTurn3(u, SendElantechPS2Cmd)
           Four(u)    == InTurn4(u, SendElantechPS2Cmd)
           Good(x)    == Silent(o, x.s) /\ (x.ok /\ Knows(t) => x.s.mode = mode)
<1>1. \A u : Silent(o, u) => \A x \in Last(u) : Good(x)
    <2>1. understood \in BOOLEAN /\ (Knows(t) => understood) BY DEF Knows
    <2>2. \A u : \A x \in Failed(u) : x.ok = FALSE /\ x.s = u BY DEF Failed
    <2> HIDE DEF understood
    <2> QED BY <2>1, <2>2, ModesAreTaken
<1>2. \A u : Silent(o, u) => \A x \in Value(u) : Good(x)
    <2>1. \A x : Good(x) => Silent(o, x.s) OBVIOUS
    <2> HIDE DEF Last, Good
    <2> QED BY <1>1, <2>1 DEF Retry3, OrElse
<1>3. \A u : Silent(o, u) => \A x \in Three(u) \cup Four(u) : Silent(o, x.s)
    <2>1. \A u : Silent(o, u) => \A x \in SendElantechPS2Cmd(u) : Silent(o, x.s)
        <3> TAKE u
        <3> HAVE Silent(o, u)
        <3>1. Same(u, u) BY DEF Same, Silent
        <3> QED BY <3>1, ElantechSendingKeeps DEF Same, Silent
    <2>2. \A u : Silent(o, u) => \A x \in Three(u) : Silent(o, x.s)
        BY <2>1 DEF InTurn3, Then
    <2>3. \A u : Four(u) = Then(Three(u), SendElantechPS2Cmd) BY DEF InTurn4
    <2> HIDE DEF Three, Four
    <2> QED BY <2>1, <2>2, <2>3 DEF Then
<1>4. \A x \in Done(t) : x.s = t BY DEF Done
<1>5. CASE t.hw \in {"v2", "v3"}
    <2>1. ElantechWriteReg(t, mode) = Then(Then(Three(t), Three), Value)
        BY <1>5 DEF ElantechWriteReg
    <2>2. \A x : ~x.ok /\ Silent(o, x.s) => Good(x) OBVIOUS
    <2> HIDE DEF Three, Value, Good
    <2>3. \A x \in ElantechWriteReg(t, mode) : Good(x)
        BY <1>2, <1>3, <2>1, <2>2 DEF Then
    <2> QED BY <2>3 DEF Good
<1>6. CASE t.hw = "v4"
    <2>1. ElantechWriteReg(t, mode) = Then(Then(Four(t), Four), Value)
        BY <1>6 DEF ElantechWriteReg
    <2>2. \A x : ~x.ok /\ Silent(o, x.s) => Good(x) OBVIOUS
    <2> HIDE DEF Four, Value, Good
    <2>3. \A x \in ElantechWriteReg(t, mode) : Good(x)
        BY <1>2, <1>3, <2>1, <2>2 DEF Then
    <2> QED BY <2>3 DEF Good
<1>7. CASE t.hw \notin {"v2", "v3", "v4"}
    BY <1>4, <1>7 DEF ElantechWriteReg, Knows
<1> QED BY <1>5, <1>6, <1>7

LEMMA RegistersRead ==
    ASSUME NEW o, NEW t, Same(o, t)
    PROVE  \A x \in Retry5(t, ElantechReadReg) : Same(o, x.s)
<1>1. \A u : Same(o, u) => \A x \in InTurn4(u, SendElantechPS2Cmd) : Same(o, x.s)
    <2> DEFINE Three(u) == InTurn3(u, SendElantechPS2Cmd)
               Four(u)  == InTurn4(u, SendElantechPS2Cmd)
    <2>1. \A u : Same(o, u) => \A x \in Three(u) : Same(o, x.s)
        BY ElantechSendingKeeps DEF InTurn3, Then
    <2>2. \A u : Four(u) = Then(Three(u), SendElantechPS2Cmd) BY DEF InTurn4
    <2>3. \A u : Same(o, u) => \A x \in Four(u) : Same(o, x.s)
        <3> HIDE DEF Three, Four
        <3> QED BY <2>1, <2>2, ElantechSendingKeeps DEF Then
    <2> QED BY <2>3
<1>2. ASSUME NEW u, Same(o, u) PROVE \A x \in ElantechReadReg(u) : Same(o, x.s)
    <2> DEFINE First    == InTurn4(u, SendElantechPS2Cmd)
               Value(v) == {[ok |-> y.ok, s |-> y.s] : y \in GetMouseInformation(v)}
    <2>1. \A y \in First : Same(o, y.s) BY <1>1, <1>2
    <2>2. ElantechReadReg(u) = IF u.hw \in {"v2", "v3", "v4"} THEN Then(First, Value) ELSE Done(u)
        BY DEF ElantechReadReg
    <2>3. \A x \in Done(u) : Same(o, x.s) BY <1>2 DEF Done
    <2>4. \A v : Same(o, v) => \A x \in Value(v) : Same(o, x.s) BY InformationKeeps
    <2> HIDE DEF First, Value
    <2>5. \A x \in Then(First, Value) : Same(o, x.s) BY <2>1, <2>4 DEF Then
    <2> QED BY <2>2, <2>3, <2>5
<1>3. \A u : Same(o, u) => \A x \in Retry3(u, ElantechReadReg) : Same(o, x.s)
    BY <1>2 DEF Retry3, OrElse
<1> DEFINE Three == Retry3(t, ElantechReadReg)
<1>4. Retry5(t, ElantechReadReg) = OrElse(OrElse(Three, ElantechReadReg), ElantechReadReg)
    BY DEF Retry5
<1>5. \A x \in Three : Same(o, x.s) BY <1>3
<1> HIDE DEF Three
<1> QED BY <1>2, <1>4, <1>5 DEF OrElse

\* Version 3 falls back to another mode that is not the relative one, either.
LEMMA ElantechAbsolute ==
    ASSUME NEW o, NEW t, Silent(o, t)
    PROVE  \A x \in ElantechSetAbsoluteMode(t) :
               Silent(o, x.s) /\ (x.ok /\ Knows(o) => x.s.mode # "relative")
<1> DEFINE Write(u)     == ElantechWriteReg(u, "absolute")
           Other(u)     == ElantechWriteReg(u, u.mode)
           FallBack(u)  == ElantechWriteReg([u EXCEPT !.legacy = TRUE], "legacy")
           ReadBack(u)  == Retry5(u, ElantechReadReg)
           Registers(u) ==
               CASE u.hw = "v2" -> Then(Then(Then(Write(u), Other), Other), ReadBack)
                 [] u.hw = "v3" -> Then(OrElse(Write(u), FallBack), ReadBack)
                 [] u.hw = "v4" -> Write(u)
                 [] OTHER       -> ReadBack(u)
           Good(x)      == Silent(o, x.s) /\ (x.ok /\ Knows(o) => x.s.mode # "relative")
<1>0. \A u : Silent(o, u) => (Knows(o) => Knows(u)) BY DEF Knows, Silent
<1>1. \A u : Silent(o, u) => \A x \in Write(u) : Good(x)
    BY <1>0, RegistersWritten
<1>2. ASSUME NEW u, Silent(o, u), Knows(o) => u.mode # "relative"
      PROVE  \A x \in Other(u) : Good(x)
    BY <1>0, <1>2, RegistersWritten
<1>3. ASSUME NEW u, Silent(o, u) PROVE \A x \in FallBack(u) : Good(x)
    <2> DEFINE v == [u EXCEPT !.legacy = TRUE]
    <2>1. Silent(o, v) BY <1>3 DEF Silent, Shape
    <2>2. FallBack(u) = ElantechWriteReg(v, "legacy") OBVIOUS
    <2> HIDE DEF v, FallBack
    <2> QED BY <1>0, <2>1, <2>2, RegistersWritten
<1>4. ASSUME NEW u, Silent(o, u) PROVE \A x \in ReadBack(u) : Silent(o, x.s) /\ x.s.mode = u.mode
    <2>1. Same(u, u) BY <1>4 DEF Same, Silent
    <2>2. \A x \in ReadBack(u) : Same(u, x.s) BY <2>1, RegistersRead
    <2> HIDE DEF ReadBack
    <2> QED BY <1>4, <2>2 DEF Same, Silent
<1>5. ASSUME NEW u, Silent(o, u) PROVE \A x \in Registers(u) : Good(x)
    <2> HIDE DEF Write, Other, FallBack, ReadBack
    <2>1. \A x \in Then(Then(Write(u), Other), Other) : Good(x)
        <3>1. \A x \in Then(Write(u), Other) : Good(x)
            BY <1>1, <1>2, <1>5 DEF Then
        <3> DEFINE Two == Then(Write(u), Other)
        <3> HIDE DEF Two
        <3>2. \A x \in Two : Good(x) BY <3>1 DEF Two
        <3>3. \A x \in Then(Two, Other) : Good(x) BY <1>2, <3>2 DEF Then
        <3> QED BY <3>3 DEF Two
    <2>2. \A x \in OrElse(Write(u), FallBack) : Good(x)
        BY <1>1, <1>3, <1>5 DEF OrElse
    <2>3. ASSUME NEW X, \A x \in X : Good(x)
          PROVE  \A x \in Then(X, ReadBack) : Good(x)
        BY <1>4, <2>3 DEF Then
    <2>4. CASE u.hw = "v2"
        <3>1. Registers(u) = Then(Then(Then(Write(u), Other), Other), ReadBack) BY <2>4
        <3> HIDE DEF Good, Registers
        <3> QED BY <2>1, <2>3, <3>1
    <2>5. CASE u.hw = "v3"
        <3>1. Registers(u) = Then(OrElse(Write(u), FallBack), ReadBack) BY <2>5
        <3> HIDE DEF Good, Registers
        <3> QED BY <2>2, <2>3, <3>1
    <2>6. CASE u.hw = "v4"
        <3>1. Registers(u) = Write(u) BY <2>6
        <3> HIDE DEF Good, Registers
        <3> QED BY <1>1, <1>5, <3>1
    <2>7. CASE u.hw \notin {"v2", "v3", "v4"}
        <3>1. Registers(u) = ReadBack(u) BY <2>7
        <3>2. ~Knows(o) BY <1>5, <2>7 DEF Knows, Silent
        <3> HIDE DEF Registers
        <3> QED BY <1>4, <1>5, <3>1, <3>2
    <2> QED BY <2>4, <2>5, <2>6, <2>7
<1>6. \A y \in SendPS2Cmd(t, ResetDevice(t)) : Silent(o, y.s)
    <2>1. \A v \in {t} \cup ResetDevice(t) : Silent(o, v) BY DEF Silent, Shape, ResetDevice
    <2> QED BY <2>1, Sent, FaultsKeep
<1>7. ElantechSetAbsoluteMode(t) = UNION {Registers(y.s) : y \in SendPS2Cmd(t, ResetDevice(t))}
    BY DEF ElantechSetAbsoluteMode, Always
<1> HIDE DEF Registers
<1> QED BY <1>5, <1>6, <1>7

\* What the setup asks before and after.  The version is the device's.
LEMMA ElantechSetups ==
    ASSUME NEW t, Shape(t), t.reporting = FALSE, pad \in Pads, pad.brand = "elan"
    PROVE  \A x \in ElantechSetup(t) :
               /\ Shape(x.s) /\ x.s.reporting = FALSE /\ x.s.vendor = t.vendor
               /\ x.s.hw \in {t.hw, pad.hw}
               /\ x.ok => Knows(x.s) /\ x.s.mode # "relative"
<1> DEFINE NoTraces(u) == Done([u EXCEPT !.traces = FALSE])
           Capabilities(u) ==
               IF u.hw = "v2" THEN Ask(SendSynapticsCmd(u), Done, NoTraces)
               ELSE Ask(SendElantechCmd(u), Done, NoTraces)
           Version == Ask(SendSynapticsCmd(t), ElantechVersion, Failed)
           Quiet(u) == Shape(u) /\ u.reporting = FALSE /\ u.vendor = t.vendor
           Named(x) == /\ Quiet(x.s) /\ x.s.hw \in {t.hw, pad.hw}
                       /\ x.ok => x.s.hw = pad.hw /\ Knows(x.s)
<1>1. \A x \in Version : Named(x)
    <2>1. Same(t, t) BY DEF Same, Silent
    <2>2. \A y \in SendSynapticsCmd(t) : Quiet(y.s) /\ y.s.hw = t.hw
        BY <2>1, QueriesKeep DEF Same, Silent
    <2>3. pad.hw \in {"v1", "v2", "v3", "v4", "unknown"} BY TouchpadSetupAssumption
    <2>4. ASSUME NEW u, Quiet(u), u.hw = t.hw
          PROVE  \A x \in ElantechVersion(u) : Named(x)
        BY <2>3, <2>4 DEF ElantechVersion, Done, Failed, Shape, Knows
    <2>5. ASSUME NEW u, Quiet(u), u.hw = t.hw
          PROVE  Named([ok |-> FALSE, s |-> u]) /\ \A x \in Failed(u) : Named(x)
        BY <2>5 DEF Failed
    <2>6. ASSUME NEW x \in Version PROVE Named(x)
        <3>1. PICK y \in SendSynapticsCmd(t) :
                  x \in IF ~y.ok THEN {[ok |-> FALSE, s |-> y.s]}
                        ELSE IF y.known THEN ElantechVersion(y.s) ELSE Failed(y.s)
            BY <2>6 DEF Ask
        <3> HIDE DEF Named, Quiet
        <3> QED BY <2>2, <2>4, <2>5, <3>1
    <2> QED BY <2>6
<1>2. ASSUME NEW u, Quiet(u) PROVE \A x \in Capabilities(u) : Silent(u, x.s)
    <2>1. Same(u, u) BY <1>2 DEF Same, Silent
    <2>2. \A y \in SendSynapticsCmd(u) \cup SendElantechCmd(u) : Same(u, y.s)
        BY <2>1, QueriesKeep
    <2>3. \A v : Same(u, v) => /\ \A x \in Done(v) : Silent(u, x.s)
                               /\ \A x \in NoTraces(v) : Silent(u, x.s)
        BY DEF Same, Silent, Shape, Done
    <2>4. \A v : Same(u, v) => Silent(u, [ok |-> FALSE, s |-> v].s) BY DEF Same
    <2> HIDE DEF NoTraces
    <2> QED BY <2>2, <2>3, <2>4 DEF Ask
<1>3. ASSUME NEW u, Quiet(u), Knows(u) PROVE \A x \in ElantechSetRange(u) : Same(u, x.s)
    <2>1. Same(u, u) BY <1>3 DEF Same, Silent
    <2>2. \A y \in SendSynapticsCmd(u) \cup SendElantechCmd(u) : Same(u, y.s)
        BY <2>1, QueriesKeep
    <2>3. \A v : \A x \in Done(v) \cup Failed(v) : x.s = v BY DEF Done, Failed
    <2>4. u.hw \in {"v2", "v3", "v4"} BY <1>3 DEF Knows
    <2> QED BY <2>2, <2>3, <2>4 DEF ElantechSetRange, Ask, Always
<1> DEFINE Able == Then(Version, Capabilities)
           Set  == Then(Able, ElantechSetAbsoluteMode)
           Moded(x) == Named(x) /\ (x.ok => x.s.mode # "relative")
<1>4. \A u, v : Quiet(u) /\ Silent(u, v) => Quiet(v) /\ (Knows(u) => Knows(v)) /\ v.hw = u.hw
    BY DEF Silent, Knows
<1>5. \A x \in Able : Named(x)
    <2>1. ASSUME NEW y, Named(y), y.ok, NEW x, Silent(y.s, x.s) PROVE Named(x)
        BY <1>4, <2>1
    <2>2. \A y : Named(y) => Quiet(y.s) OBVIOUS
    <2> HIDE DEF Version, Capabilities, Named, Quiet
    <2> QED BY <1>1, <1>2, <2>1, <2>2 DEF Then
<1>6. \A x \in Set : Moded(x)
    <2>1. ASSUME NEW y, Named(y), y.ok, NEW x \in ElantechSetAbsoluteMode(y.s) PROVE Moded(x)
        <3>1. Silent(y.s, y.s) BY <2>1 DEF Silent
        <3>2. Silent(y.s, x.s) /\ (x.ok /\ Knows(y.s) => x.s.mode # "relative")
            BY <2>1, <3>1, ElantechAbsolute
        <3> QED BY <1>4, <2>1, <3>2
    <2>2. \A y : Named(y) /\ ~y.ok => Moded(y) OBVIOUS
    <2> HIDE DEF Able, Named, Moded
    <2> QED BY <1>5, <2>1, <2>2 DEF Then
<1>7. \A x \in Then(Set, ElantechSetRange) : Moded(x)
    <2>1. ASSUME NEW y, Moded(y), y.ok, NEW x \in ElantechSetRange(y.s) PROVE Moded(x)
        <3>1. Same(y.s, x.s) BY <1>3, <2>1
        <3> QED BY <1>4, <2>1, <3>1 DEF Same
    <2> HIDE DEF Set, Moded
    <2> QED BY <1>6, <2>1 DEF Then
<1>8. ElantechSetup(t) = Then(Set, ElantechSetRange) BY DEF ElantechSetup
<1>9. \A x \in ElantechSetup(t) : Moded(x)
    <2> HIDE DEF Moded, Set
    <2> QED BY <1>7, <1>8
<1> QED BY <1>9

---------------------------------------------------------------------------
(* Detecting and reconnecting.  The touchpad may report while these begin.   *)

\* What detection may take a touchpad for.
Plausible(t) == t.vendor \in {pad.brand, "mouse"}

\* Silenced, or as it was before.
SilencedOrSame(t, u) ==
    /\ Shape(u) /\ u.hw = t.hw
    /\ \/ u.reporting = FALSE
       \/ u.reporting = t.reporting /\ u.mode = t.mode /\ u.vendor = t.vendor

\* A touchpad that a decoder fits reports in the absolute mode.
FitsIn(t)   == t.vendor = IF t.hw \in {"v2", "v3", "v4"} THEN "elan" ELSE t.hw
Absolute(t) == FitsIn(t) /\ t.hw # "mouse" => t.mode # "relative"
Ready(t)    == t.reporting = FALSE \/ Absolute(t)

\* The version of an ELAN pad is the device's.
OwnVersion(t) ==
    \/ t.hw \in {"mouse", "focaltech", "synaptics"}
    \/ t.hw \in {"v2", "v3", "v4"} /\ t.hw = pad.hw

\* What was taken for a FocalTech pad is never taken for another.
Remains(t, u) == t.vendor = "focaltech" => u.vendor = "focaltech"

\* What a detection leaves of t.
Detected(t, x) ==
    /\ SilencedOrSame(t, x.s)
    /\ Plausible(t) => Plausible(x.s)
    /\ Remains(t, x.s)
    /\ x.ok => x.s.reporting = FALSE /\ Plausible(x.s)

\* No answer makes a Synaptics pad of another.
LEMMA SynapticsAnswers ==
    ASSUME NEW t
    PROVE  \A x \in SynapticsDetect(t) : x.ok => pad.brand = "synaptics"
<1> DEFINE understood(y, p) == y.ok /\ p.ok /\ p.known /\ pad.brand = "synaptics"
<1>1. ASSUME NEW x \in SynapticsDetect(t), x.ok PROVE pad.brand = "synaptics"
    <2>1. PICK y \in SendPS2Cmd(t, NoEffect(t)) :
              x \in {[ok |-> understood(y, p), s |-> p.s] : p \in GetMouseInformation(y.s)}
        BY <1>1 DEF SynapticsDetect
    <2>2. PICK p \in GetMouseInformation(y.s) : x = [ok |-> understood(y, p), s |-> p.s]
        BY <2>1
    <2> HIDE DEF understood
    <2>3. x.ok = understood(y, p) BY <2>2
    <2> QED BY <1>1, <2>3 DEF understood
<1> QED BY <1>1

LEMMA VendorsDetected ==
    ASSUME NEW t, NEW z, Silent(t, z.s)
    PROVE  \A x \in Vendor(z) :
               /\ Shape(x.s) /\ x.s.reporting = FALSE /\ x.s.hw = t.hw
               /\ Plausible(t) \/ x.ok => Plausible(x.s)
               /\ Remains(t, x.s)
<1> DEFINE Good(x) == /\ Shape(x.s) /\ x.s.reporting = FALSE /\ x.s.hw = t.hw
                      /\ Plausible(t) \/ x.ok => Plausible(x.s)
                      /\ Remains(t, x.s)
<1>1. CASE z.s.vendor = "focaltech"
    <2> DEFINE ok == z.ok /\ z.known /\ pad.brand = "focaltech"
    <2>1. Vendor(z) = {[ok |-> ok, s |-> z.s]} BY <1>1 DEF Vendor
    <2>2. ok => pad.brand = "focaltech" OBVIOUS
    <2> HIDE DEF ok
    <2>3. \A x \in Vendor(z) : x.s = z.s /\ (x.ok => pad.brand = "focaltech") BY <2>1, <2>2
    <2> QED BY <1>1, <2>3 DEF Silent, Plausible, Remains
<1>2. CASE z.s.vendor # "focaltech" /\ z.known /\ pad.brand = "elan"
    <2> DEFINE u == [z.s EXCEPT !.vendor = "elan"]
    <2>1. Vendor(z) = {[ok |-> z.ok, s |-> u]} BY <1>2 DEF Vendor
    <2>2. Shape(u) /\ u.reporting = FALSE /\ u.hw = t.hw /\ Plausible(u)
        BY <1>2 DEF Silent, Shape, Plausible
    <2> HIDE DEF u
    <2>3. \A x \in Vendor(z) : x.s = u BY <2>1
    <2> QED BY <1>2, <2>2, <2>3 DEF Silent, Remains
<1>3. CASE z.s.vendor # "focaltech" /\ ~(z.known /\ pad.brand = "elan")
    <2> DEFINE Named(d) == [d.s EXCEPT !.vendor = IF d.ok THEN "synaptics" ELSE "mouse"]
    <2>1. Vendor(z) = {[ok |-> z.ok, s |-> Named(d)] : d \in SynapticsDetect(z.s)}
        BY <1>3 DEF Vendor
    <2>2. Same(z.s, z.s) BY DEF Same, Silent
    <2>3. \A d \in SynapticsDetect(z.s) : Same(z.s, d.s) /\ (d.ok => pad.brand = "synaptics")
        BY <2>2, QueriesKeep, SynapticsAnswers
    <2>4. \A d \in SynapticsDetect(z.s) :
              Shape(Named(d)) /\ Named(d).reporting = FALSE /\ Named(d).hw = t.hw /\ Plausible(Named(d))
        BY <2>3 DEF Same, Silent, Shape, Plausible
    <2>5. t.vendor # "focaltech" BY <1>3 DEF Silent
    <2> HIDE DEF Named
    <2> QED BY <2>1, <2>4, <2>5 DEF Remains
<1> QED BY <1>1, <1>2, <1>3

LEMMA Detecting ==
    ASSUME NEW t, Shape(t)
    PROVE  \A x \in DetectTouchpad(t) : Detected(t, x)
<1> DEFINE Knocked(u) == UNION {Vendor(z) : z \in Knock(u)}
<1>1. \A y \in SendPS2Cmd(t, Defaults(t)) :
          SilencedOrSame(t, y.s) /\ y.s.vendor = t.vendor /\ (y.ok => Silent(t, y.s))
    <2>1. \A v \in Defaults(t) : Silent(t, v) BY DEF Silent, Shape, Defaults
    <2>2. \A v \in {t} \cup Defaults(t) : SilencedOrSame(t, v) /\ v.vendor = t.vendor
        BY <2>1 DEF SilencedOrSame, Silent
    <2>3. ASSUME NEW v, NEW u \in Fault(v), SilencedOrSame(t, v) /\ v.vendor = t.vendor
          PROVE  SilencedOrSame(t, u) /\ u.vendor = t.vendor
        <3>1. Shape(u) /\ u.mode = v.mode /\ u.reporting = v.reporting /\ u.vendor = v.vendor /\ u.hw = v.hw
            BY <2>3, FaultsKeep DEF SilencedOrSame
        <3> QED BY <2>3, <3>1 DEF SilencedOrSame
    <2> QED BY <2>1, <2>2, <2>3, Sent
<1>2. ASSUME NEW u, Silent(t, u), NEW x \in Knocked(u) PROVE Detected(t, x)
    <2>1. PICK z \in Knock(u) : x \in Vendor(z) BY <1>2
    <2>2. Same(u, u) BY <1>2 DEF Same, Silent
    <2>3. Same(u, z.s) BY <2>1, <2>2, QueriesKeep
    <2>4. Silent(t, z.s) BY <1>2, <2>3 DEF Same, Silent
    <2>5. /\ Shape(x.s) /\ x.s.reporting = FALSE /\ x.s.hw = t.hw
          /\ Plausible(t) \/ x.ok => Plausible(x.s)
          /\ Remains(t, x.s)
        BY <2>1, <2>4, VendorsDetected
    <2> QED BY <2>5 DEF Detected, SilencedOrSame
<1>3. DetectTouchpad(t) = Then(SendPS2Cmd(t, Defaults(t)), Knocked) BY DEF DetectTouchpad
<1>4. \A y \in SendPS2Cmd(t, Defaults(t)) : ~y.ok => Detected(t, y)
    BY <1>1 DEF Detected, Plausible, Remains
<1> HIDE DEF Knocked
<1> QED BY <1>1, <1>2, <1>3, <1>4 DEF Then

LEMMA Resetting ==
    ASSUME NEW t, Shape(t)
    PROVE  \A x \in ResetMouse(t) : SilencedOrSame(t, x.s) /\ x.s.vendor = t.vendor
<1> DEFINE Good(u) == SilencedOrSame(t, u) /\ u.vendor = t.vendor
           DefaultsThenReset == ResetDevice(t) \cup Defaults(t) \cup {t}
<1>1. \A v \in DefaultsThenReset : Good(v)
    BY DEF ResetDevice, Defaults, SilencedOrSame, Shape
<1>2. ASSUME NEW v, Good(v), NEW u \in Fault(v) PROVE Good(u)
    <2>1. Shape(u) /\ u.mode = v.mode /\ u.reporting = v.reporting /\ u.vendor = v.vendor /\ u.hw = v.hw
        BY <1>2, FaultsKeep DEF SilencedOrSame
    <2> QED BY <1>2, <2>1 DEF SilencedOrSame
<1>3. ResetMouse(t) = {[ok |-> TRUE, s |-> u] : u \in ResetDevice(t)} \cup
                      {[ok |-> FALSE, s |-> u] : u \in UNION {Fault(v) : v \in DefaultsThenReset}}
    BY DEF ResetMouse
<1>4. ResetDevice(t) \subseteq DefaultsThenReset OBVIOUS
<1> HIDE DEF DefaultsThenReset, Good
<1>5. \A x \in ResetMouse(t) : Good(x.s) BY <1>1, <1>2, <1>3, <1>4
<1> QED BY <1>5 DEF Good

\* Once a mode is set, it is the one that the decoder expects.
LEMMA AbsoluteSet ==
    ASSUME NEW t, Shape(t), t.reporting = FALSE, Plausible(t), OwnVersion(t), pad \in Pads
    PROVE  \A x \in SetAbsoluteMode(t) : Silent(t, x.s) /\ (x.ok => Absolute(x.s))
<1>1. Silent(t, t) BY DEF Silent
<1>2. t.vendor \in {"focaltech", "elan", "synaptics", "mouse"}
    BY TouchpadSetupAssumption DEF Plausible
<1>3. CASE t.vendor = "focaltech"
    <2>1. pad.brand = "focaltech" BY <1>3 DEF Plausible
    <2>2. SetAbsoluteMode(t) = FocaltechSetAbsoluteMode(t) BY <1>3 DEF SetAbsoluteMode
    <2>3. \A x \in SetAbsoluteMode(t) : Silent(t, x.s) /\ (x.ok => x.s.mode = "absolute")
        BY <1>1, <2>1, <2>2, FocaltechModes
    <2> QED BY <2>3 DEF Absolute
<1>4. CASE t.vendor = "elan"
    <2>1. FitsIn(t) /\ t.hw # "mouse" => Knows(t)
        BY <1>4 DEF Plausible, OwnVersion, FitsIn, Knows
    <2>2. SetAbsoluteMode(t) = ElantechSetAbsoluteMode(t) BY <1>4 DEF SetAbsoluteMode
    <2>3. \A x \in SetAbsoluteMode(t) : Silent(t, x.s) /\ (x.ok /\ Knows(t) => x.s.mode # "relative")
        BY <1>1, <2>2, ElantechAbsolute
    <2>4. \A x \in SetAbsoluteMode(t) : Silent(t, x.s) => (FitsIn(x.s) /\ x.s.hw # "mouse" => Knows(t))
        BY <2>1 DEF FitsIn, Silent
    <2> QED BY <2>3, <2>4 DEF Absolute
<1>5. CASE t.vendor = "synaptics"
    <2>1. pad.brand = "synaptics" BY <1>5 DEF Plausible
    <2>2. SetAbsoluteMode(t) = SynapticsSetAbsoluteMode(t) BY <1>5 DEF SetAbsoluteMode
    <2>3. \A x \in SetAbsoluteMode(t) :
              Silent(t, x.s) /\ (x.ok /\ t.hw = "synaptics" => x.s.mode = "absolute")
        BY <1>1, <2>1, <2>2, SynapticsAbsolute
    <2> QED BY <1>5, <2>3 DEF Absolute, FitsIn, Silent
<1>6. CASE t.vendor = "mouse"
    <2>1. \A x \in SetAbsoluteMode(t) : x.s = t BY <1>6 DEF SetAbsoluteMode, Done
    <2>2. Absolute(t) BY <1>6 DEF Absolute, FitsIn
    <2> QED BY <1>1, <2>1, <2>2
<1> QED BY <1>2, <1>3, <1>4, <1>5, <1>6

LEMMA Enabling ==
    ASSUME NEW t, Shape(t)
    PROVE  \A x \in Enable(t) :
               Shape(x.s) /\ x.s.vendor = t.vendor /\ x.s.hw = t.hw /\ x.s.mode = t.mode
<1>1. \A v \in {t} \cup Reporting(t) :
          Shape(v) /\ v.vendor = t.vendor /\ v.hw = t.hw /\ v.mode = t.mode
    BY DEF Reporting, Shape
<1>2. Enable(t) = SendPS2Cmd(t, Reporting(t)) BY DEF Enable, EnableTouchpad
<1> QED BY <1>1, <1>2, Sent, FaultsKeep

LEMMA ReconnectingKeepsReady ==
    ASSUME NEW t, Shape(t), Plausible(t), OwnVersion(t), pad \in Pads
    PROVE  \A u \in Reconnect(t) :
               Shape(u) /\ u.hw = t.hw /\ Plausible(u) /\ Remains(t, u) /\ (Ready(t) => Ready(u))
<1> DEFINE Detect(u)   == Retry3(u, DetectTouchpad)
           Found       == Always(ResetMouse(t), Detect)
           Initialised == Then(Found, InitializeMouse)
           Moded       == Then(Initialised, SetAbsoluteMode)
           Good(x)     == Detected(t, x) /\ Plausible(x.s)
<1>1. \A u, x, y : /\ SilencedOrSame(t, u) /\ SilencedOrSame(u, x.s) => SilencedOrSame(t, x.s)
                   /\ SilencedOrSame(t, u) /\ Plausible(u) /\ Remains(t, u) /\ Detected(u, x) => Good(x)
    BY DEF SilencedOrSame, Detected, Remains
<1>2. ASSUME NEW u, SilencedOrSame(t, u), Plausible(u), Remains(t, u)
      PROVE  \A x \in Detect(u) : Good(x)
    <2>1. \A v : SilencedOrSame(t, v) /\ Plausible(v) /\ Remains(t, v) => \A x \in DetectTouchpad(v) : Good(x)
        BY <1>1, Detecting DEF SilencedOrSame
    <2>2. \A x : Good(x) => SilencedOrSame(t, x.s) /\ Plausible(x.s) /\ Remains(t, x.s) BY DEF Detected
    <2> HIDE DEF Good
    <2> QED BY <1>2, <2>1, <2>2 DEF Retry3, OrElse
<1>3. \A x \in Found : Good(x)
    <2>1. \A y \in ResetMouse(t) : SilencedOrSame(t, y.s) /\ Plausible(y.s) /\ Remains(t, y.s)
        BY Resetting DEF Plausible, Remains
    <2> HIDE DEF Detect, Good
    <2> QED BY <1>2, <2>1 DEF Always
<1>4. \A u, x : Shape(u) /\ u.reporting = FALSE /\ Plausible(u) /\ u.hw = t.hw /\ Remains(t, u) /\ Silent(u, x.s) => Good(x)
    BY DEF Silent, Detected, SilencedOrSame, Plausible, Remains
<1>5. \A x : Good(x) /\ x.ok => Shape(x.s) /\ x.s.reporting = FALSE /\ Plausible(x.s) /\ x.s.hw = t.hw /\ Remains(t, x.s)
    BY DEF Detected, SilencedOrSame
<1>6. \A x \in Initialised : Good(x)
    <2>1. ASSUME NEW y, Good(y), y.ok, NEW x \in InitializeMouse(y.s) PROVE Good(x)
        <3>1. Shape(y.s) /\ y.s.reporting = FALSE /\ Plausible(y.s) /\ y.s.hw = t.hw /\ Remains(t, y.s)
            BY <1>5, <2>1
        <3>2. Silent(y.s, y.s) BY <3>1 DEF Silent
        <3>3. Silent(y.s, x.s) BY <2>1, <3>2, InitializingSilences
        <3> HIDE DEF Good
        <3> QED BY <1>4, <3>1, <3>3
    <2> HIDE DEF Found, Good
    <2> QED BY <1>3, <2>1 DEF Then
<1>7. \A x \in Moded : Good(x) /\ (x.ok => Absolute(x.s))
    <2>1. ASSUME NEW y, Good(y), y.ok, NEW x \in SetAbsoluteMode(y.s)
          PROVE  Good(x) /\ (x.ok => Absolute(x.s))
        <3>1. Shape(y.s) /\ y.s.reporting = FALSE /\ Plausible(y.s) /\ y.s.hw = t.hw /\ Remains(t, y.s)
            BY <1>5, <2>1
        <3>2. OwnVersion(y.s) BY <3>1 DEF OwnVersion
        <3>3. Silent(y.s, x.s) /\ (x.ok => Absolute(x.s)) BY <2>1, <3>1, <3>2, AbsoluteSet
        <3> HIDE DEF Good
        <3> QED BY <1>4, <3>1, <3>3
    <2> HIDE DEF Initialised, Good
    <2> QED BY <1>6, <2>1 DEF Then
<1>8. Reconnect(t) = {x.s : x \in Then(Moded, Enable)}
    BY DEF Reconnect
<1>9. ASSUME NEW x, Good(x)
      PROVE  Shape(x.s) /\ x.s.hw = t.hw /\ Plausible(x.s) /\ Remains(t, x.s) /\ (Ready(t) => Ready(x.s))
    BY <1>9 DEF Detected, SilencedOrSame, OwnVersion, Ready, Absolute, FitsIn
<1>10. ASSUME NEW y, Good(y), y.ok, Absolute(y.s), NEW x \in Enable(y.s)
       PROVE  Shape(x.s) /\ x.s.hw = t.hw /\ Plausible(x.s) /\ Remains(t, x.s) /\ Ready(x.s)
    <2>1. Shape(y.s) /\ Plausible(y.s) /\ y.s.hw = t.hw /\ Remains(t, y.s) BY <1>5, <1>10
    <2>2. Shape(x.s) /\ x.s.vendor = y.s.vendor /\ x.s.hw = y.s.hw /\ x.s.mode = y.s.mode
        BY <1>10, <2>1, Enabling
    <2> QED BY <1>10, <2>1, <2>2 DEF Plausible, Remains, Ready, Absolute, FitsIn
<1> HIDE DEF Moded, Good
<1>11. ASSUME NEW x \in Then(Moded, Enable)
       PROVE  Shape(x.s) /\ x.s.hw = t.hw /\ Plausible(x.s) /\ Remains(t, x.s) /\ (Ready(t) => Ready(x.s))
    <2>1. PICK y \in Moded : x \in IF y.ok THEN Enable(y.s) ELSE {y} BY <1>11 DEF Then
    <2> QED BY <1>7, <1>9, <1>10, <2>1
<1> QED BY <1>8, <1>11

\* Only a FocalTech pad is set up as one.
Named(t) == t.hw = "focaltech" => t.vendor = "focaltech"

LEMMA SettingUp ==
    ASSUME NEW t, Shape(t), t.reporting = FALSE, Plausible(t), t.hw = "mouse", pad \in Pads
    PROVE  \A x \in SetupVendor(t) :
               /\ Shape(x.s) /\ x.s.reporting = FALSE
               /\ x.ok => Plausible(x.s) /\ OwnVersion(x.s) /\ Absolute(x.s) /\ Named(x.s)
<1>1. Silent(t, t) BY DEF Silent
<1>2. t.vendor \in {"focaltech", "elan", "synaptics", "mouse"}
    BY TouchpadSetupAssumption DEF Plausible
<1>3. CASE t.vendor = "focaltech"
    <2> DEFINE Own(u)   == [u EXCEPT !.hw = "focaltech"]
               Ends(u)  == Done(Own(u))
    <2>1. pad.brand = "focaltech" BY <1>3 DEF Plausible
    <2>2. SetupVendor(t) = Then(FocaltechSetup(t), Ends) BY <1>3 DEF SetupVendor
    <2>3. \A y \in FocaltechSetup(t) : Silent(t, y.s) /\ (y.ok => y.s.mode = "absolute")
        BY <1>1, <2>1, FocaltechSetups
    <2>4. \A u : Silent(t, u) =>
              LET v == Own(u)
              IN  Shape(v) /\ v.reporting = FALSE /\ v.vendor = t.vendor /\ v.hw = "focaltech" /\ v.mode = u.mode
        BY DEF Silent, Shape
    <2>5. \A u : \A x \in Ends(u) : x.s = Own(u) BY DEF Done
    <2> HIDE DEF Own, Ends
    <2>6. ASSUME NEW y \in FocaltechSetup(t), y.ok, NEW x \in Ends(y.s)
          PROVE  /\ Shape(x.s) /\ x.s.reporting = FALSE
                 /\ Plausible(x.s) /\ OwnVersion(x.s) /\ Absolute(x.s) /\ Named(x.s)
        <3>1. /\ Shape(x.s) /\ x.s.reporting = FALSE /\ x.s.vendor = t.vendor
              /\ x.s.hw = "focaltech" /\ x.s.mode = "absolute"
            BY <2>3, <2>4, <2>5, <2>6
        <3> QED BY <1>3, <3>1 DEF Plausible, OwnVersion, Absolute, Named
    <2>7. \A y \in FocaltechSetup(t) : Shape(y.s) /\ y.s.reporting = FALSE BY <2>3 DEF Silent
    <2> QED BY <2>2, <2>6, <2>7 DEF Then
<1>4. CASE t.vendor = "elan"
    <2>1. pad.brand = "elan" BY <1>4 DEF Plausible
    <2>2. SetupVendor(t) = ElantechSetup(t) BY <1>4 DEF SetupVendor
    <2>3. \A x \in SetupVendor(t) :
              /\ Shape(x.s) /\ x.s.reporting = FALSE /\ x.s.vendor = t.vendor
              /\ x.ok => Knows(x.s) /\ x.s.mode # "relative"
        BY <2>1, <2>2, ElantechSetups
    <2> QED BY <2>3 DEF Knows, Plausible, OwnVersion, Absolute, Named
<1>5. CASE t.vendor = "synaptics"
    <2>1. pad.brand = "synaptics" BY <1>5 DEF Plausible
    <2>2. SetupVendor(t) = SynapticsSetup(t) BY <1>5 DEF SetupVendor
    <2>3. \A x \in SetupVendor(t) :
              /\ Shape(x.s) /\ x.s.reporting = FALSE /\ x.s.vendor = t.vendor
              /\ x.ok => x.s.hw = "synaptics" /\ x.s.mode = "absolute"
        BY <2>1, <2>2, SynapticsSetups
    <2> QED BY <2>3 DEF Plausible, OwnVersion, Absolute, Named
<1>6. CASE t.vendor = "mouse"
    <2>1. SetupVendor(t) = Done(t) BY <1>6 DEF SetupVendor
    <2>2. \A x \in SetupVendor(t) : x.s = t BY <2>1 DEF Done
    <2> QED BY <2>2 DEF OwnVersion, Absolute, Named
<1> QED BY <1>2, <1>3, <1>4, <1>5, <1>6

---------------------------------------------------------------------------
(* Requests that are all answered.  A method that leaves the number of       *)
(* requests gone wrong as it was has done what it is for; n is that number   *)
(* at some time before.                                                      *)

Counted(n, t)  == Shape(t) /\ n <= t.faults
Answered(n, x) == Counted(n, x.s) /\ (x.s.faults = n => x.ok)

LEMMA FaultsCount ==
    ASSUME NEW n \in Nat, NEW v, Counted(n, v)
    PROVE  \A u \in Fault(v) : Counted(n, u) /\ u.faults # n
<1> SUFFICES ASSUME NEW u \in Fault(v) PROVE Counted(n, u) /\ u.faults # n
    OBVIOUS
<1>1. u = [v EXCEPT !.faults = @ + 1] BY DEF Fault
<1>2. DOMAIN u = DOMAIN v /\ u.faults = v.faults + 1 BY <1>1 DEF Counted, Shape
<1> QED BY <1>2 DEF Counted, Shape

LEMMA SendingAnswers ==
    ASSUME NEW n \in Nat, NEW t, NEW effects, Counted(n, t), \A v \in effects : Counted(n, v)
    PROVE  \A x \in SendPS2Cmd(t, effects) : Answered(n, x)
<1>1. \A v \in {t} \cup effects : \A u \in Fault(v) : Counted(n, u) /\ u.faults # n
    BY FaultsCount
<1> QED BY <1>1, Sent DEF Answered

LEMMA AskingAnswers ==
    ASSUME NEW n \in Nat, NEW t, Counted(n, t)
    PROVE  /\ \A x \in SendPS2Cmd(t, NoEffect(t)) : Answered(n, x)
           /\ \A x \in GetMouseInformation(t) : Answered(n, x) /\ (x.s.faults = n => x.known)
<1>1. \A x \in SendPS2Cmd(t, NoEffect(t)) : Answered(n, x)
    BY SendingAnswers DEF NoEffect
<1>2. \A x \in GetMouseInformation(t) : Answered(n, x) /\ (x.s.faults = n => x.known)
    BY FaultsCount DEF GetMouseInformation, Answered
<1> QED BY <1>1, <1>2

LEMMA QueriesAnswer ==
    ASSUME NEW n \in Nat, NEW t, Counted(n, t)
    PROVE  /\ \A x \in Knock(t) : Answered(n, x) /\ (x.s.faults = n => x.known)
           /\ \A x \in SynapticsDetect(t) :
                  Counted(n, x.s) /\ (x.s.faults = n => x.ok = (pad.brand = "synaptics"))
<1>1. ASSUME NEW y \in SendPS2Cmd(t, NoEffect(t)), NEW p \in GetMouseInformation(y.s)
      PROVE  /\ Answered(n, p)
             /\ p.s.faults = n => y.ok /\ p.ok /\ p.known
    <2>1. Answered(n, y) BY <1>1, AskingAnswers
    <2>2. y.s.faults \in Nat /\ n <= y.s.faults /\ Counted(y.s.faults, y.s) /\ Counted(n, y.s)
        BY <2>1 DEF Answered, Counted, Shape
    <2>3. Answered(n, p) /\ (p.s.faults = n => p.known) BY <1>1, <2>2, AskingAnswers
    <2>4. Answered(y.s.faults, p) BY <1>1, <2>2, AskingAnswers
    <2>5. p.s.faults = n => y.s.faults = n BY <2>2, <2>4 DEF Answered, Counted
    <2> QED BY <2>1, <2>3, <2>5 DEF Answered
<1>2. \A y \in SendPS2Cmd(t, NoEffect(t)) : Answered(n, y) BY AskingAnswers
<1>3. ASSUME NEW x \in Knock(t) PROVE Answered(n, x) /\ (x.s.faults = n => x.known)
    <2>1. PICK y \in SendPS2Cmd(t, NoEffect(t)) :
              x \in IF y.ok THEN GetMouseInformation(y.s)
                    ELSE {[ok |-> FALSE, known |-> FALSE, s |-> y.s]}
        BY <1>3 DEF Knock
    <2>2. CASE y.ok BY <1>1, <2>1, <2>2
    <2>3. CASE ~y.ok
        <3>1. x.s = y.s BY <2>1, <2>3
        <3> QED BY <1>2, <2>3, <3>1 DEF Answered
    <2> QED BY <2>2, <2>3
<1>4. ASSUME NEW x \in SynapticsDetect(t)
      PROVE  Counted(n, x.s) /\ (x.s.faults = n => x.ok = (pad.brand = "synaptics"))
    <2> DEFINE understood(y, p) == y.ok /\ p.ok /\ p.known /\ pad.brand = "synaptics"
    <2>1. PICK y \in SendPS2Cmd(t, NoEffect(t)) :
              x \in {[ok |-> understood(y, p), s |-> p.s] : p \in GetMouseInformation(y.s)}
        BY <1>4 DEF SynapticsDetect
    <2>2. PICK p \in GetMouseInformation(y.s) : x = [ok |-> understood(y, p), s |-> p.s]
        BY <2>1
    <2> HIDE DEF understood
    <2>3. x.ok = understood(y, p) /\ x.s = p.s BY <2>2
    <2>4. Counted(n, x.s) BY <1>1, <2>3 DEF Answered
    <2>5. ASSUME x.s.faults = n PROVE y.ok /\ p.ok /\ p.known BY <1>1, <2>3, <2>5
    <2>6. x.s.faults = n => understood(y, p) = (pad.brand = "synaptics") BY <2>5 DEF understood
    <2> QED BY <2>3, <2>4, <2>6
<1> QED BY <1>3, <1>4

\* The device's own part of a command touches no count.
LEMMA EffectsCount ==
    ASSUME NEW n \in Nat, NEW t, Counted(n, t)
    PROVE  /\ \A v \in Defaults(t) \cup ResetDevice(t) \cup Reporting(t) : Counted(n, v)
           /\ \A mode, understood : \A v \in TakesMode(t, mode, understood) : Counted(n, v)
BY DEF Counted, Shape, Defaults, ResetDevice, Reporting, TakesMode

LEMMA MouseAnswers ==
    ASSUME NEW n \in Nat, NEW t, Counted(n, t)
    PROVE  /\ \A x \in InitializeMouse(t) : Answered(n, x)
           /\ \A x \in ResetMouse(t) : Counted(n, x.s)
           /\ \A x \in Enable(t) : Answered(n, x)
<1> DEFINE Status(u) == {[ok |-> TRUE, s |-> z.s] : z \in Always(GetMouseInformation(u), GetStatus)}
           DefaultsThenReset == ResetDevice(t) \cup Defaults(t) \cup {t}
<1>1. \A u : Counted(n, u) => \A x \in GetStatus(u) : Answered(n, x)
    BY EffectsCount, SendingAnswers DEF GetStatus
<1>2. ASSUME NEW u, Counted(n, u) PROVE \A x \in Status(u) : Answered(n, x)
    BY <1>1, <1>2, AskingAnswers DEF Always, Answered
<1>3. InitializeMouse(t) = Then(SendPS2Cmd(t, NoEffect(t)), Status) BY DEF InitializeMouse
<1>4. \A y \in SendPS2Cmd(t, NoEffect(t)) : Answered(n, y) BY AskingAnswers
<1>5. \A x \in InitializeMouse(t) : Answered(n, x)
    <2> HIDE DEF Status
    <2> QED BY <1>2, <1>3, <1>4 DEF Then, Answered
<1>6. \A v \in DefaultsThenReset : Counted(n, v) BY EffectsCount
<1>7. ResetMouse(t) = {[ok |-> TRUE, s |-> u] : u \in ResetDevice(t)} \cup
                      {[ok |-> FALSE, s |-> u] : u \in UNION {Fault(v) : v \in DefaultsThenReset}}
    BY DEF ResetMouse
<1>8. \A x \in ResetMouse(t) : Counted(n, x.s)
    <2>1. ResetDevice(t) \subseteq DefaultsThenReset OBVIOUS
    <2> HIDE DEF DefaultsThenReset
    <2> QED BY <1>6, <1>7, <2>1, FaultsCount
<1>9. \A x \in Enable(t) : Answered(n, x)
    BY EffectsCount, SendingAnswers DEF Enable, EnableTouchpad
<1> QED BY <1>5, <1>8, <1>9

\* Detection names the touchpad that is there, a FocalTech pad if it was taken
\* for one at the start.
Told(n, x) == Answered(n, x) /\ (x.s.faults = n => x.s.vendor = pad.brand)
Findable(t) == pad.brand = "focaltech" => t.vendor = "focaltech"

LEMMA VendorsTold ==
    ASSUME NEW n \in Nat, NEW z, Answered(n, z), z.s.faults = n => z.known,
           Plausible(z.s), Findable(z.s), pad \in Pads
    PROVE  \A x \in Vendor(z) : Told(n, x)
<1>0. pad.brand \in {"focaltech", "elan", "synaptics", "mouse"} BY TouchpadSetupAssumption
<1>1. CASE z.s.vendor = "focaltech"
    <2> DEFINE ok == z.ok /\ z.known /\ pad.brand = "focaltech"
    <2>1. Vendor(z) = {[ok |-> ok, s |-> z.s]} BY <1>1 DEF Vendor
    <2>2. pad.brand = "focaltech" BY <1>1 DEF Plausible
    <2>3. z.s.faults = n => ok BY <2>2 DEF Answered
    <2> HIDE DEF ok
    <2>4. \A x \in Vendor(z) : x.ok = ok /\ x.s = z.s BY <2>1
    <2> QED BY <1>1, <2>2, <2>3, <2>4 DEF Told, Answered
<1>2. CASE z.s.vendor # "focaltech" /\ z.known /\ pad.brand = "elan"
    <2> DEFINE u == [z.s EXCEPT !.vendor = "elan"]
    <2>1. Vendor(z) = {[ok |-> z.ok, s |-> u]} BY <1>2 DEF Vendor
    <2>2. Counted(n, u) /\ u.faults = z.s.faults /\ u.vendor = "elan"
        BY DEF Answered, Counted, Shape
    <2> HIDE DEF u
    <2>3. \A x \in Vendor(z) : x.ok = z.ok /\ x.s = u BY <2>1
    <2> QED BY <1>2, <2>2, <2>3 DEF Told, Answered
<1>3. CASE z.s.vendor # "focaltech" /\ ~(z.known /\ pad.brand = "elan")
    <2> DEFINE Own(d) == [d.s EXCEPT !.vendor = IF d.ok THEN "synaptics" ELSE "mouse"]
    <2>1. Vendor(z) = {[ok |-> z.ok, s |-> Own(d)] : d \in SynapticsDetect(z.s)}
        BY <1>3 DEF Vendor
    <2>2. z.s.faults \in Nat /\ Counted(n, z.s) /\ Counted(z.s.faults, z.s) /\ n <= z.s.faults
        BY DEF Answered, Counted, Shape
    <2>3. \A d \in SynapticsDetect(z.s) :
              /\ Counted(n, d.s) /\ (d.s.faults = n => d.ok = (pad.brand = "synaptics"))
              /\ Counted(z.s.faults, d.s)
        BY <2>2, QueriesAnswer
    <2>4. \A d \in SynapticsDetect(z.s) :
              LET u == Own(d)
              IN  /\ Counted(n, u) /\ u.faults = d.s.faults
                  /\ u.vendor = IF d.ok THEN "synaptics" ELSE "mouse"
        BY <2>3 DEF Counted, Shape
    <2> HIDE DEF Own
    <2>5. ASSUME NEW d \in SynapticsDetect(z.s), Own(d).faults = n
          PROVE  z.ok /\ Own(d).vendor = pad.brand
        <3>1. d.s.faults = n BY <2>4, <2>5
        <3>2. z.s.faults = n BY <2>2, <2>3, <3>1 DEF Counted
        <3>3. pad.brand \in {"synaptics", "mouse"} BY <1>0, <1>3, <3>2 DEF Findable
        <3>4. d.ok = (pad.brand = "synaptics") BY <2>3, <3>1
        <3>5. CASE pad.brand = "synaptics" BY <2>4, <3>2, <3>4, <3>5 DEF Answered
        <3>6. CASE pad.brand = "mouse" BY <2>4, <3>2, <3>4, <3>6 DEF Answered
        <3> QED BY <3>3, <3>5, <3>6
    <2>6. ASSUME NEW x \in Vendor(z) PROVE Told(n, x)
        <3>1. PICK d \in SynapticsDetect(z.s) : x = [ok |-> z.ok, s |-> Own(d)] BY <2>1, <2>6
        <3>2. x.ok = z.ok /\ x.s = Own(d) BY <3>1
        <3> QED BY <2>4, <2>5, <3>2 DEF Told, Answered
    <2> QED BY <2>6
<1> QED BY <1>1, <1>2, <1>3

LEMMA DetectionTells ==
    ASSUME NEW n \in Nat, NEW t, Counted(n, t), Plausible(t), Findable(t), pad \in Pads
    PROVE  \A x \in DetectTouchpad(t) : Told(n, x)
<1> DEFINE Knocked(u) == UNION {Vendor(z) : z \in Knock(u)}
           Sending    == SendPS2Cmd(t, Defaults(t))
<1>1. \A y \in Sending : Answered(n, y) BY EffectsCount, SendingAnswers
<1>2. \A y \in Sending : y.s.vendor = t.vendor /\ (y.ok => y.s.reporting = FALSE)
    <2>1. \A v \in {t} \cup Defaults(t) : Shape(v) /\ v.vendor = t.vendor
        BY DEF Counted, Shape, Defaults
    <2>2. \A v \in Defaults(t) : v.reporting = FALSE BY DEF Counted, Shape, Defaults
    <2>3. \A v \in {t} \cup Defaults(t) : \A u \in Fault(v) : u.vendor = t.vendor
        BY <2>1, FaultsKeep
    <2> HIDE DEF Sending
    <2>4. \A y \in Sending :
              IF y.ok THEN y.s \in Defaults(t) ELSE \E v \in {t} \cup Defaults(t) : y.s \in Fault(v)
        BY Sent DEF Sending
    <2> QED BY <2>1, <2>2, <2>3, <2>4
<1>3. ASSUME NEW u, Counted(n, u), u.vendor = t.vendor, u.reporting = FALSE, NEW x \in Knocked(u)
      PROVE  Told(n, x)
    <2>1. PICK z \in Knock(u) : x \in Vendor(z) BY <1>3
    <2>2. Answered(n, z) /\ (z.s.faults = n => z.known) BY <1>3, <2>1, QueriesAnswer
    <2>3. z.s.vendor = u.vendor
        <3>1. Same(u, u) BY <1>3 DEF Counted, Same, Silent
        <3> QED BY <2>1, <3>1, QueriesKeep DEF Same, Silent
    <2>4. Plausible(z.s) /\ Findable(z.s) BY <1>3, <2>3 DEF Plausible, Findable
    <2> QED BY <2>1, <2>2, <2>4, VendorsTold
<1>4. DetectTouchpad(t) = Then(Sending, Knocked) BY DEF DetectTouchpad
<1>5. \A y \in Sending : ~y.ok => Told(n, y) BY <1>1 DEF Told, Answered
<1> HIDE DEF Knocked, Sending
<1> QED BY <1>1, <1>2, <1>3, <1>4, <1>5 DEF Then, Answered

LEMMA ElantechSendingAnswers ==
    ASSUME NEW n \in Nat, NEW t, Counted(n, t)
    PROVE  /\ \A x \in SendElantechPS2Cmd(t) : Answered(n, x)
           /\ \A x \in InTurn3(t, SendElantechPS2Cmd) : Answered(n, x)
           /\ \A x \in InTurn4(t, SendElantechPS2Cmd) : Answered(n, x)
<1> DEFINE Three(u) == InTurn3(u, SendElantechPS2Cmd)
           Four(u)  == InTurn4(u, SendElantechPS2Cmd)
<1>1. \A u : Counted(n, u) => \A x \in SendElantechPS2Cmd(u) : Answered(n, x)
    BY AskingAnswers DEF SendElantechPS2Cmd, Retry3, OrElse, Answered
<1>2. \A x \in Three(t) : Answered(n, x)
    BY <1>1 DEF InTurn3, Then, Answered
<1>3. Four(t) = Then(Three(t), SendElantechPS2Cmd) BY DEF InTurn4
<1>4. \A x \in Four(t) : Answered(n, x)
    <2> HIDE DEF Three, Four
    <2> QED BY <1>1, <1>2, <1>3 DEF Then, Answered
<1> QED BY <1>1, <1>2, <1>4

\* A legacy pad refuses the absolute mode's value without any fault.
LEMMA WritingAnswers ==
    ASSUME NEW n \in Nat, NEW t, NEW mode, Counted(n, t)
    PROVE  \A x \in ElantechWriteReg(t, mode) :
               Counted(n, x.s) /\ (~(pad.legacy /\ mode = "absolute") => Answered(n, x))
<1> DEFINE refused    == pad.legacy /\ mode = "absolute"
           understood == pad.brand = "elan" /\ pad.hw = t.hw
           Last(u)    == IF refused THEN Failed(u)
                         ELSE SendPS2Cmd(u, TakesMode(u, mode, understood))
           Value(u)   == Retry3(u, Last)
           Three(u)   == InTurn3(u, SendElantechPS2Cmd)
           Four(u)    == InTurn4(u, SendElantechPS2Cmd)
           Good(x)    == Counted(n, x.s) /\ (~refused => Answered(n, x))
<1>1. \A u : Counted(n, u) => \A x \in Last(u) : Good(x)
    <2>1. \A u : \A x \in Failed(u) : x.s = u BY DEF Failed
    <2>2. \A u : Counted(n, u) =>
              \A x \in SendPS2Cmd(u, TakesMode(u, mode, understood)) : Answered(n, x)
        <3> HIDE DEF understood
        <3> QED BY EffectsCount, SendingAnswers
    <2> HIDE DEF refused, understood
    <2> QED BY <2>1, <2>2 DEF Answered
<1>2. \A u : Counted(n, u) => \A x \in Value(u) : Good(x)
    <2>1. \A x : Good(x) => Counted(n, x.s) OBVIOUS
    <2> HIDE DEF Last, Good
    <2> QED BY <1>1, <2>1 DEF Retry3, OrElse
<1>3. \A u : Counted(n, u) => \A x \in Three(u) \cup Four(u) : Answered(n, x)
    BY ElantechSendingAnswers
<1>4. \A x : Answered(n, x) => Good(x) /\ Counted(n, x.s) BY DEF Answered
<1>5. CASE t.hw \in {"v2", "v3"}
    <2>1. ElantechWriteReg(t, mode) = Then(Then(Three(t), Three), Value)
        BY <1>5 DEF ElantechWriteReg
    <2> HIDE DEF Three, Value, Good
    <2>2. \A x \in Then(Three(t), Three) : Answered(n, x)
        BY <1>3, <1>4 DEF Then
    <2>3. \A x \in ElantechWriteReg(t, mode) : Good(x)
        BY <1>2, <1>4, <2>1, <2>2 DEF Then
    <2> QED BY <2>3 DEF Good
<1>6. CASE t.hw = "v4"
    <2>1. ElantechWriteReg(t, mode) = Then(Then(Four(t), Four), Value)
        BY <1>6 DEF ElantechWriteReg
    <2> HIDE DEF Four, Value, Good
    <2>2. \A x \in Then(Four(t), Four) : Answered(n, x)
        BY <1>3, <1>4 DEF Then
    <2>3. \A x \in ElantechWriteReg(t, mode) : Good(x)
        BY <1>2, <1>4, <2>1, <2>2 DEF Then
    <2> QED BY <2>3 DEF Good
<1>7. CASE t.hw \notin {"v2", "v3", "v4"}
    <2>1. ElantechWriteReg(t, mode) = Done(t) BY <1>7 DEF ElantechWriteReg
    <2> QED BY <2>1 DEF Done, Answered
<1> QED BY <1>5, <1>6, <1>7

LEMMA ReadingAnswers ==
    ASSUME NEW n \in Nat, NEW t, Counted(n, t)
    PROVE  \A x \in Retry5(t, ElantechReadReg) : Answered(n, x)
<1>1. ASSUME NEW u, Counted(n, u) PROVE \A x \in ElantechReadReg(u) : Answered(n, x)
    <2> DEFINE First    == InTurn4(u, SendElantechPS2Cmd)
               Value(v) == {[ok |-> y.ok, s |-> y.s] : y \in GetMouseInformation(v)}
    <2>1. \A y \in First : Answered(n, y) BY <1>1, ElantechSendingAnswers
    <2>2. ElantechReadReg(u) = IF u.hw \in {"v2", "v3", "v4"} THEN Then(First, Value) ELSE Done(u)
        BY DEF ElantechReadReg
    <2>3. \A x \in Done(u) : Answered(n, x) BY <1>1 DEF Done, Answered
    <2>4. \A v : Counted(n, v) => \A x \in Value(v) : Answered(n, x)
        BY AskingAnswers DEF Answered
    <2> HIDE DEF First, Value
    <2>5. \A x \in Then(First, Value) : Answered(n, x) BY <2>1, <2>4 DEF Then, Answered
    <2> QED BY <2>2, <2>3, <2>5
<1>2. \A u : Counted(n, u) => \A x \in Retry3(u, ElantechReadReg) : Answered(n, x)
    BY <1>1 DEF Retry3, OrElse, Answered
<1> DEFINE Three == Retry3(t, ElantechReadReg)
<1>3. Retry5(t, ElantechReadReg) = OrElse(OrElse(Three, ElantechReadReg), ElantechReadReg)
    BY DEF Retry5
<1>4. \A x \in Three : Answered(n, x) BY <1>2
<1> HIDE DEF Three
<1> QED BY <1>1, <1>3, <1>4 DEF OrElse, Answered

\* The pads that refuse are of version 3, which falls back.
LEMMA ElantechAnswers ==
    ASSUME NEW n \in Nat, NEW t, Counted(n, t), t.reporting = FALSE, t.hw = pad.hw, pad \in Pads
    PROVE  \A x \in ElantechSetAbsoluteMode(t) : Answered(n, x)
<1> DEFINE Write(u)     == ElantechWriteReg(u, "absolute")
           Other(u)     == ElantechWriteReg(u, u.mode)
           FallBack(u)  == ElantechWriteReg([u EXCEPT !.legacy = TRUE], "legacy")
           ReadBack(u)  == Retry5(u, ElantechReadReg)
           Registers(u) ==
               CASE u.hw = "v2" -> Then(Then(Then(Write(u), Other), Other), ReadBack)
                 [] u.hw = "v3" -> Then(OrElse(Write(u), FallBack), ReadBack)
                 [] u.hw = "v4" -> Write(u)
                 [] OTHER       -> ReadBack(u)
           Sending      == SendPS2Cmd(t, ResetDevice(t))
<1>1. \A u : Counted(n, u) => \A x \in Write(u) : Counted(n, x.s) /\ (pad.hw # "v3" => Answered(n, x))
    BY WritingAnswers, TouchpadSetupAssumption
<1>2. \A u : Counted(n, u) /\ pad.hw # "v3" => \A x \in Other(u) : Answered(n, x)
    BY WritingAnswers, TouchpadSetupAssumption
<1>3. ASSUME NEW u, Counted(n, u) PROVE \A x \in FallBack(u) : Answered(n, x)
    <2> DEFINE v == [u EXCEPT !.legacy = TRUE]
    <2>1. Counted(n, v) BY <1>3 DEF Counted, Shape
    <2>2. FallBack(u) = ElantechWriteReg(v, "legacy") OBVIOUS
    <2> HIDE DEF v, FallBack
    <2> QED BY <2>1, <2>2, WritingAnswers
<1>4. \A u : Counted(n, u) => \A x \in ReadBack(u) : Answered(n, x) BY ReadingAnswers
<1>5. ASSUME NEW u, Counted(n, u), u.hw = pad.hw PROVE \A x \in Registers(u) : Answered(n, x)
    <2> HIDE DEF Write, Other, FallBack, ReadBack
    <2>1. CASE u.hw = "v2"
        <3> DEFINE Two   == Then(Write(u), Other)
                   Three == Then(Two, Other)
        <3>1. \A x \in Two : Answered(n, x) BY <1>1, <1>2, <1>5, <2>1 DEF Then, Answered
        <3>2. \A x \in Three : Answered(n, x)
            <4> HIDE DEF Two
            <4> QED BY <1>2, <1>5, <2>1, <3>1 DEF Then, Answered
        <3>3. Registers(u) = Then(Three, ReadBack) BY <2>1
        <3> HIDE DEF Three, Registers
        <3> QED BY <1>4, <3>2, <3>3 DEF Then, Answered
    <2>2. CASE u.hw = "v3"
        <3> DEFINE Written == OrElse(Write(u), FallBack)
        <3>1. \A x \in Written : Answered(n, x) BY <1>1, <1>3, <1>5 DEF OrElse, Answered
        <3>2. Registers(u) = Then(Written, ReadBack) BY <2>2
        <3> HIDE DEF Written, Registers
        <3> QED BY <1>4, <3>1, <3>2 DEF Then, Answered
    <2>3. CASE u.hw = "v4"
        <3>1. Registers(u) = Write(u) BY <2>3
        <3> HIDE DEF Registers
        <3> QED BY <1>1, <1>5, <2>3, <3>1
    <2>4. CASE u.hw \notin {"v2", "v3", "v4"}
        <3>1. Registers(u) = ReadBack(u) BY <2>4
        <3> HIDE DEF Registers
        <3> QED BY <1>4, <1>5, <3>1
    <2> QED BY <2>1, <2>2, <2>3, <2>4
<1>6. \A y \in Sending : Answered(n, y) BY EffectsCount, SendingAnswers
<1>7. \A y \in Sending : y.s.hw = pad.hw
    <2>1. Silent(t, t) BY DEF Counted, Silent
    <2>2. \A v \in {t} \cup ResetDevice(t) : Silent(t, v) BY <2>1 DEF Silent, Shape, ResetDevice
    <2>3. \A y \in Sending : Silent(t, y.s) BY <2>2, Sent, FaultsKeep
    <2> QED BY <2>3 DEF Silent
<1>8. ElantechSetAbsoluteMode(t) = UNION {Registers(y.s) : y \in Sending}
    BY DEF ElantechSetAbsoluteMode, Always
<1> HIDE DEF Registers, Sending
<1> QED BY <1>5, <1>6, <1>7, <1>8 DEF Answered

LEMMA SynapticsAnswersMode ==
    ASSUME NEW n \in Nat, NEW t, Counted(n, t)
    PROVE  \A x \in SynapticsSetAbsoluteMode(t) : Answered(n, x)
<1>1. ASSUME NEW mode PROVE \A x \in SynapticsModeCmd(t, mode) : Answered(n, x)
    <2> DEFINE SampleRate(u) == SendPS2Cmd(u, NoEffect(u))
               First == Then(SendSlicedPS2Cmd(t), SampleRate)
               understood == pad.brand = "synaptics"
    <2>1. \A u : Counted(n, u) => \A x \in SampleRate(u) : Answered(n, x) BY AskingAnswers
    <2>2. \A y \in SendSlicedPS2Cmd(t) : Answered(n, y) BY AskingAnswers DEF SendSlicedPS2Cmd
    <2>3. \A y \in First : Answered(n, y)
        <3> HIDE DEF SampleRate
        <3> QED BY <2>1, <2>2 DEF Then, Answered
    <2>4. SynapticsModeCmd(t, mode) =
              UNION {IF y.ok THEN SendPS2Cmd(y.s, TakesMode(y.s, mode, understood)) ELSE {y} : y \in First}
        BY DEF SynapticsModeCmd, Then
    <2> HIDE DEF First, understood
    <2>5. \A u : Counted(n, u) => \A x \in SendPS2Cmd(u, TakesMode(u, mode, understood)) : Answered(n, x)
        BY EffectsCount, SendingAnswers
    <2> QED BY <2>3, <2>4, <2>5 DEF Answered
<1>2. \A u : Counted(n, u) => \A x \in SynapticsSetAdvancedGestureMode(u) : Answered(n, x)
    <2> DEFINE Command(u) == SendPS2Cmd(u, NoEffect(u))
    <2>1. \A u : Counted(n, u) => \A x \in Command(u) \cup SendSlicedPS2Cmd(u) : Answered(n, x)
        BY AskingAnswers DEF SendSlicedPS2Cmd
    <2>2. \A u : SynapticsSetAdvancedGestureMode(u) =
                     IF u.gesture THEN Then(Then(SendSlicedPS2Cmd(u), Command), Command) ELSE Done(u)
        BY DEF SynapticsSetAdvancedGestureMode
    <2>3. \A u : Counted(n, u) => \A x \in Done(u) : Answered(n, x) BY DEF Done, Answered
    <2> HIDE DEF Command
    <2>4. \A u : Counted(n, u) => \A x \in Then(SendSlicedPS2Cmd(u), Command) : Answered(n, x)
        BY <2>1 DEF Then, Answered
    <2>5. \A u : Counted(n, u) =>
              \A x \in Then(Then(SendSlicedPS2Cmd(u), Command), Command) : Answered(n, x)
        <3> DEFINE Two(u) == Then(SendSlicedPS2Cmd(u), Command)
        <3>1. \A u : Counted(n, u) => \A x \in Two(u) : Answered(n, x) BY <2>4
        <3> HIDE DEF Two
        <3>2. \A u : Counted(n, u) => \A x \in Then(Two(u), Command) : Answered(n, x)
            BY <2>1, <3>1 DEF Then, Answered
        <3> QED BY <3>2 DEF Two
    <2> QED BY <2>2, <2>3, <2>5
<1>3. SynapticsSetAbsoluteMode(t) =
          IF t.hw = "synaptics" THEN Then(SynapticsModeCmd(t, "absolute"), SynapticsSetAdvancedGestureMode)
          ELSE SynapticsModeCmd(t, "relative")
    BY DEF SynapticsSetAbsoluteMode
<1>4. \A x \in Then(SynapticsModeCmd(t, "absolute"), SynapticsSetAdvancedGestureMode) : Answered(n, x)
    BY <1>1, <1>2 DEF Then, Answered
<1> QED BY <1>1, <1>3, <1>4

LEMMA ModeAnswers ==
    ASSUME NEW n \in Nat, NEW t, Counted(n, t), t.reporting = FALSE, t.hw = pad.hw,
           Plausible(t), pad \in Pads
    PROVE  \A x \in SetAbsoluteMode(t) : Answered(n, x)
<1>1. t.vendor \in {"focaltech", "elan", "synaptics", "mouse"}
    BY TouchpadSetupAssumption DEF Plausible
<1>2. CASE t.vendor = "focaltech"
    <2> DEFINE understood == pad.brand = "focaltech"
    <2>1. SetAbsoluteMode(t) = SendPS2Cmd(t, TakesMode(t, "absolute", understood))
        BY <1>2 DEF SetAbsoluteMode, FocaltechSetAbsoluteMode
    <2> HIDE DEF understood
    <2> QED BY <2>1, EffectsCount, SendingAnswers
<1>3. CASE t.vendor = "elan"
    BY <1>3, ElantechAnswers DEF SetAbsoluteMode
<1>4. CASE t.vendor = "synaptics"
    BY <1>4, SynapticsAnswersMode DEF SetAbsoluteMode
<1>5. CASE t.vendor = "mouse"
    <2>1. SetAbsoluteMode(t) = Done(t) BY <1>5 DEF SetAbsoluteMode
    <2> QED BY <2>1 DEF Done, Answered
<1> QED BY <1>1, <1>2, <1>3, <1>4, <1>5

LEMMA EnablingReports ==
    ASSUME NEW t, Shape(t)
    PROVE  \A x \in Enable(t) : x.ok => x.s.reporting = TRUE
<1>1. \A v \in Reporting(t) : v.reporting = TRUE BY DEF Reporting, Shape
<1> QED BY <1>1, Sent DEF Enable, EnableTouchpad

\* A decoder that expects the absolute mode is there for every known pad.
LEMMA KnownPadsFit ==
    ASSUME NEW t, t.hw = pad.hw, t.vendor = pad.brand, OwnVersion(t), pad \in Pads
    PROVE  FitsIn(t) /\ (t.vendor # "mouse" => t.hw # "mouse")
<1>1. pad.brand \in {"focaltech", "elan", "synaptics", "mouse"} BY TouchpadSetupAssumption
<1>2. IF pad.brand = "elan" THEN pad.hw \in {"v1", "v2", "v3", "v4", "unknown"}
      ELSE pad.hw = pad.brand
    BY TouchpadSetupAssumption
<1> QED BY <1>1, <1>2 DEF OwnVersion, FitsIn

LEMMA AnsweredReconnection ==
    ASSUME NEW t, Shape(t), Plausible(t), OwnVersion(t), Named(t), t.hw = pad.hw, pad \in Pads,
           NEW u \in Reconnect(t), u.faults = t.faults
    PROVE  u.vendor = pad.brand /\ u.reporting = TRUE /\ (u.vendor # "mouse" => u.mode # "relative")
<1> DEFINE n == t.faults
           Detect(v)   == Retry3(v, DetectTouchpad)
           Found       == Always(ResetMouse(t), Detect)
           Initialised == Then(Found, InitializeMouse)
           Moded       == Then(Initialised, SetAbsoluteMode)
           Kept(v)     == SilencedOrSame(t, v) /\ Plausible(v) /\ Findable(v)
           Good(x)     == Told(n, x) /\ Kept(x.s) /\ (x.ok => x.s.reporting = FALSE)
<1>0. n \in Nat /\ Counted(n, t) BY DEF Counted, Shape
<1>1. Kept(t)
    <2>1. pad.brand = "focaltech" => pad.hw = "focaltech" BY TouchpadSetupAssumption
    <2> QED BY <2>1 DEF SilencedOrSame, Findable, Named
<1>2. ASSUME NEW v, Kept(v), Counted(n, v) PROVE \A x \in DetectTouchpad(v) : Good(x)
    <2>1. ASSUME NEW x \in DetectTouchpad(v) PROVE Good(x)
        <3>1. Told(n, x) BY <1>0, <1>2, <2>1, DetectionTells
        <3>2. Detected(v, x) BY <1>2, <2>1, Detecting DEF SilencedOrSame
        <3>3. SilencedOrSame(t, x.s) /\ Plausible(x.s) /\ Findable(x.s)
            BY <1>2, <3>2 DEF Detected, SilencedOrSame, Findable, Remains
        <3> QED BY <3>1, <3>2, <3>3 DEF Detected
    <2> QED BY <2>1
<1>3. \A x : Good(x) => Kept(x.s) /\ Counted(n, x.s) BY DEF Told, Answered
<1>4. \A v : Kept(v) /\ Counted(n, v) => \A x \in Detect(v) : Good(x)
    <2> HIDE DEF Good, Kept
    <2> QED BY <1>2, <1>3 DEF Retry3, OrElse
<1>5. \A x \in Found : Good(x)
    <2>1. \A y \in ResetMouse(t) : SilencedOrSame(t, y.s) /\ y.s.vendor = t.vendor /\ Counted(n, y.s)
        BY <1>0, Resetting, MouseAnswers
    <2>2. \A y \in ResetMouse(t) : Kept(y.s) BY <1>1, <2>1 DEF Plausible, Findable
    <2> HIDE DEF Detect, Good, Kept
    <2> QED BY <1>4, <2>1, <2>2 DEF Always
\* What a later method does with a silent pad.
<1>6. ASSUME NEW y, Good(y), y.ok, NEW x, Silent(y.s, x.s), Answered(n, x), Answered(y.s.faults, x)
      PROVE  Good(x)
    <2>1. Shape(y.s) /\ n <= y.s.faults BY <1>6 DEF Told, Answered, Counted
    <2>2. x.s.faults = n => y.s.faults = n
        BY <1>0, <1>6, <2>1 DEF Answered, Counted, Shape
    <2>3. Told(n, x) BY <1>6, <2>2 DEF Told, Silent
    <2>4. Kept(x.s) BY <1>6 DEF Silent, SilencedOrSame, Plausible, Findable
    <2> QED BY <1>6, <2>3, <2>4 DEF Silent
<1>7. ASSUME NEW y, Good(y), y.ok
      PROVE  /\ Silent(y.s, y.s) /\ Plausible(y.s) /\ OwnVersion(y.s) /\ y.s.hw = pad.hw
             /\ y.s.faults \in Nat /\ Counted(n, y.s) /\ Counted(y.s.faults, y.s)
    BY <1>7 DEF Silent, SilencedOrSame, OwnVersion, Told, Answered, Counted, Shape
<1>8. \A x \in Initialised : Good(x)
    <2>1. ASSUME NEW y, Good(y), y.ok, NEW x \in InitializeMouse(y.s) PROVE Good(x)
        <3>1. Silent(y.s, x.s) BY <1>7, <2>1, InitializingSilences
        <3>2. Answered(n, x) /\ Answered(y.s.faults, x) BY <1>0, <1>7, <2>1, MouseAnswers
        <3> HIDE DEF n, Good
        <3> QED BY <1>6, <2>1, <3>1, <3>2
    <2> HIDE DEF Found, Good
    <2> QED BY <1>5, <2>1 DEF Then
<1>9. \A x \in Moded : Good(x) /\ (x.ok => Absolute(x.s))
    <2>1. ASSUME NEW y, Good(y), y.ok, NEW x \in SetAbsoluteMode(y.s)
          PROVE  Good(x) /\ (x.ok => Absolute(x.s))
        <3>1. y.s.reporting = FALSE /\ Shape(y.s) BY <1>7, <2>1 DEF Silent
        <3>2. Silent(y.s, x.s) /\ (x.ok => Absolute(x.s)) BY <1>7, <2>1, <3>1, AbsoluteSet
        <3>3. Answered(n, x) /\ Answered(y.s.faults, x) BY <1>0, <1>7, <2>1, <3>1, ModeAnswers
        <3> HIDE DEF n, Good
        <3> QED BY <1>6, <2>1, <3>2, <3>3
    <2>2. \A y \in Initialised : ~y.ok => Good(y) /\ (y.ok => Absolute(y.s)) BY <1>8
    <2> HIDE DEF Initialised, Good
    <2> QED BY <1>8, <2>1, <2>2 DEF Then
<1>10. Reconnect(t) = {x.s : x \in Then(Moded, Enable)} BY DEF Reconnect
<1> HIDE DEF Moded
<1>11. PICK y \in Moded : \E x \in (IF y.ok THEN Enable(y.s) ELSE {y}) : u = x.s
    BY <1>10 DEF Then
<1>12. PICK x \in (IF y.ok THEN Enable(y.s) ELSE {y}) : u = x.s
    BY <1>11
<1>13. y.ok
    <2>1. ~y.ok => y.s.faults = n BY <1>11
    <2> QED BY <1>9, <2>1 DEF Told, Answered
<1>14. x \in Enable(y.s) /\ x.s.faults = n BY <1>12, <1>13
<1>15. Silent(y.s, y.s) /\ OwnVersion(y.s) /\ y.s.hw = pad.hw /\ y.s.faults \in Nat
       /\ Counted(n, y.s) /\ Counted(y.s.faults, y.s)
    BY <1>7, <1>9, <1>13
<1>16. Answered(n, x) /\ Answered(y.s.faults, x) BY <1>0, <1>14, <1>15, MouseAnswers
<1>17. y.s.faults = n /\ x.ok
    BY <1>0, <1>14, <1>15, <1>16 DEF Answered, Counted
<1>18. y.s.vendor = pad.brand BY <1>9, <1>17 DEF Told
<1>19. x.s.reporting = TRUE /\ x.s.vendor = y.s.vendor /\ x.s.mode = y.s.mode
    BY <1>14, <1>15, <1>17, Enabling, EnablingReports DEF Silent
<1>20. y.s.vendor # "mouse" => y.s.mode # "relative"
    BY <1>9, <1>13, <1>15, <1>18, KnownPadsFit DEF Absolute
<1> QED BY <1>12, <1>18, <1>19, <1>20

---------------------------------------------------------------------------
(* The system. *)

Unattended == life \in {"matched", "probed", "failed"} => s.reporting = FALSE

\* What the driver knows of the device grows with its life.
Known ==
    /\ life \in {"matched", "probed"} => s.hw = "mouse"
    /\ life = "matched" => s.vendor = "mouse"
    /\ life \in {"probed", "running"} => Plausible(s) /\ OwnVersion(s)
    /\ life = "running" => Named(s)

SetupInv ==
    /\ pad \in Pads
    /\ life # "stopped" => Shape(s)
    /\ Unattended /\ Known
    /\ life = "running" /\ pad.keeps => Ready(s)

LEMMA SetupAtFirst == Init => SetupInv
<1> SUFFICES ASSUME Init PROVE SetupInv
    OBVIOUS
<1>1. Shape(s) /\ s.reporting = FALSE /\ s.hw = "mouse" /\ s.vendor = "mouse" /\ life = "matched"
    BY DEF Init, Shape
<1> QED BY <1>1 DEF Init, SetupInv, Unattended, Known

LEMMA ProbeKeeps == ASSUME SetupInv, Probe PROVE SetupInv'
<1> DEFINE t == DetectTouchpadVendor(s)
<1>1. Shape(t) /\ t.reporting = FALSE /\ t.hw = "mouse"
    BY DEF SetupInv, Unattended, Known, Probe, DetectTouchpadVendor, Shape
<1>2. PICK x \in DetectTouchpad(t) :
          life' = (IF x.ok THEN "probed" ELSE "failed") /\ s' = x.s /\ pad' = pad
    BY DEF Probe
<1> HIDE DEF t
<1>3. Detected(t, x) BY <1>1, <1>2, Detecting
<1>4. Shape(s') /\ s'.reporting = FALSE /\ s'.hw = "mouse" /\ (x.ok => s'.vendor \in {pad.brand, "mouse"})
    BY <1>1, <1>2, <1>3 DEF Detected, SilencedOrSame, Plausible
<1> QED BY <1>2, <1>4 DEF SetupInv, Unattended, Known, Plausible, OwnVersion

LEMMA StartKeeps == ASSUME SetupInv, Start PROVE SetupInv'
<1> DEFINE First == Then(InitializeMouse(s), SetupVendor)
           Whole == Then(First, InitializeMouse)
           Quiet(x) == Shape(x.s) /\ x.s.reporting = FALSE
           Right(x) == Plausible(x.s) /\ OwnVersion(x.s) /\ Named(x.s)
<1>1. /\ pad \in Pads /\ Shape(s) /\ s.reporting = FALSE /\ s.hw = "mouse"
      /\ Plausible(s) /\ OwnVersion(s)
    BY DEF SetupInv, Unattended, Known, Start
<1>2. Silent(s, s) BY <1>1 DEF Silent
<1>3. \A x \in First : Quiet(x) /\ (x.ok => Right(x) /\ Absolute(x.s))
    <2>1. ASSUME NEW y \in InitializeMouse(s)
          PROVE  Shape(y.s) /\ y.s.reporting = FALSE /\ Plausible(y.s) /\ y.s.hw = "mouse"
        BY <1>1, <1>2, <2>1, InitializingSilences DEF Silent, Plausible
    <2>2. ASSUME NEW y \in InitializeMouse(s), NEW x \in SetupVendor(y.s)
          PROVE  Quiet(x) /\ (x.ok => Right(x) /\ Absolute(x.s))
        BY <1>1, <2>1, <2>2, SettingUp
    <2>3. \A y \in InitializeMouse(s) : Quiet(y) BY <2>1
    <2> HIDE DEF Quiet, Right
    <2> QED BY <2>2, <2>3 DEF Then
<1>4. \A x \in Whole : Quiet(x) /\ (x.ok => Right(x) /\ (pad.keeps => Absolute(x.s)))
    <2>1. ASSUME NEW y, Quiet(y), Right(y), Absolute(y.s), NEW x \in InitializeMouse(y.s)
          PROVE  Quiet(x) /\ Right(x) /\ (pad.keeps => Absolute(x.s))
        <3>1. Silent(y.s, y.s) BY <2>1 DEF Silent
        <3>2. Silent(y.s, x.s) /\ (pad.keeps => x.s.mode = y.s.mode)
            BY <2>1, <3>1, InitializingSilences
        <3> QED BY <2>1, <3>2 DEF Silent, Plausible, OwnVersion, Named, Absolute, FitsIn
    <2> HIDE DEF First, Quiet, Right
    <2> QED BY <1>3, <2>1 DEF Then
<1>5. PICK x \in Whole :
          IF x.ok THEN life' = "running" /\ s' \in {e.s : e \in Enable(x.s)}
          ELSE life' = "failed" /\ s' = x.s
    BY DEF Start
<1>6. pad' = pad BY DEF Start
<1> HIDE DEF First, Whole
<1>7. CASE x.ok
    <2>1. PICK e \in Enable(x.s) : s' = e.s BY <1>5, <1>7
    <2>2. Shape(s') /\ s'.vendor = x.s.vendor /\ s'.hw = x.s.hw /\ s'.mode = x.s.mode
        BY <1>4, <2>1, Enabling
    <2>3. life' = "running" BY <1>5, <1>7
    <2>4. Plausible(x.s) /\ OwnVersion(x.s) /\ Named(x.s) /\ (pad.keeps => Absolute(x.s)) BY <1>4, <1>7
    <2> QED BY <1>1, <1>6, <2>2, <2>3, <2>4
        DEF SetupInv, Unattended, Known, Plausible, OwnVersion, Named, Ready, Absolute, FitsIn
<1>8. CASE ~x.ok
    BY <1>1, <1>4, <1>5, <1>6, <1>8 DEF SetupInv, Unattended, Known
<1> QED BY <1>7, <1>8

\* All reconnections, whatever else changes before them.
LEMMA ReconnectKeeps ==
    ASSUME SetupInv, life = "running", UNCHANGED <<pad, life>>,
           NEW t, Shape(t), t.vendor = s.vendor, t.hw = s.hw, t.mode = s.mode, t.reporting = s.reporting,
           s' \in Reconnect(t)
    PROVE  SetupInv'
<1>1. pad \in Pads /\ Plausible(t) /\ OwnVersion(t) BY DEF SetupInv, Known, Plausible, OwnVersion
<1>2. pad.keeps => Ready(t) BY DEF SetupInv, Ready, Absolute, FitsIn
<1>3. Shape(s') /\ s'.hw = t.hw /\ Plausible(s') /\ Remains(t, s') /\ (Ready(t) => Ready(s'))
    BY <1>1, ReconnectingKeepsReady
<1> QED BY <1>1, <1>2, <1>3
    DEF SetupInv, Unattended, Known, Plausible, Remains, OwnVersion, Named, Ready, Absolute, FitsIn

LEMMA SetupStays == SetupInv /\ [Next]_vars => SetupInv'
<1> SUFFICES ASSUME SetupInv, [Next]_vars PROVE SetupInv'
    OBVIOUS
<1>1. CASE Probe BY <1>1, ProbeKeeps
<1>2. CASE Start BY <1>2, StartKeeps
<1>3. CASE Stop
    BY <1>3 DEF Stop, SetupInv, Unattended, Known
<1>4. CASE DeviceResets
    <2>1. life = "running" /\ Shape(s) BY <1>4 DEF DeviceResets, Event, SetupInv
    <2>2. Shape(s') /\ s'.reporting = FALSE /\ s'.vendor = s.vendor /\ s'.hw = s.hw
        BY <1>4, <2>1 DEF DeviceResets, Shape
    <2> QED BY <1>4, <2>1, <2>2
        DEF DeviceResets, SetupInv, Unattended, Known, Plausible, OwnVersion, Named, Ready
<1>5. CASE Announcement
    <2> DEFINE t == [s EXCEPT !.announced = FALSE]
    <2>1. life = "running" /\ Shape(s) /\ s' \in Reconnect(t) /\ UNCHANGED <<pad, life>>
        BY <1>5 DEF Announcement, SetupInv
    <2>2. Shape(t) /\ t.vendor = s.vendor /\ t.hw = s.hw /\ t.mode = s.mode /\ t.reporting = s.reporting
        BY <2>1 DEF Shape
    <2> HIDE DEF t
    <2> QED BY <2>1, <2>2, ReconnectKeeps
<1>6. CASE PowerUp
    <2> DEFINE t == [s EXCEPT !.tries = 3, !.announced = FALSE, !.events = @ + 1]
    <2>1. life = "running" /\ Shape(s) /\ s' \in Reconnect(t) /\ UNCHANGED <<pad, life>>
        BY <1>6 DEF PowerUp, Event, SetupInv
    <2>2. Shape(t) /\ t.vendor = s.vendor /\ t.hw = s.hw /\ t.mode = s.mode /\ t.reporting = s.reporting
        BY <2>1 DEF Shape
    <2> HIDE DEF t
    <2> QED BY <2>1, <2>2, ReconnectKeeps
<1>7. CASE UnknownPacket
    <2> DEFINE t == [s EXCEPT !.tries = @ - 1]
    <2>1. life = "running" /\ Shape(s) /\ s' \in Reconnect(t) /\ UNCHANGED <<pad, life>>
        BY <1>7 DEF UnknownPacket, SetupInv
    <2>2. Shape(t) /\ t.vendor = s.vendor /\ t.hw = s.hw /\ t.mode = s.mode /\ t.reporting = s.reporting
        BY <2>1 DEF Shape
    <2> HIDE DEF t
    <2> QED BY <2>1, <2>2, ReconnectKeeps
<1>8. CASE UNCHANGED vars
    BY <1>8 DEF vars, SetupInv, Unattended, Known, Plausible, OwnVersion, Named, Ready, Absolute, FitsIn
<1> QED BY <1>1, <1>2, <1>3, <1>4, <1>5, <1>6, <1>7, <1>8 DEF Next

LEMMA SetupInvariant == Spec => []SetupInv
BY SetupAtFirst, SetupStays, PTL DEF Spec

LEMMA ReadySuffices == SetupInv => ReportsAbsolute
<1> SUFFICES ASSUME SetupInv, life = "running", pad.keeps, s.reporting, Fits, s.hw # "mouse"
             PROVE  s.mode # "relative"
    BY DEF ReportsAbsolute
<1>1. FitsIn(s) BY DEF Fits, FitsIn
<1>2. Ready(s) BY DEF SetupInv
<1> QED BY <1>1, <1>2 DEF Ready, Absolute

LEMMA KnownSuffices == SetupInv => DetectsNoOther /\ SilentUnattended
BY DEF SetupInv, Unattended, Known, Plausible, DetectsNoOther, SilentUnattended

\* Enable_touchpad is reached with the mode set that the decoder expects, or
\* with none set where no decoder fits: every request of the setup or of any
\* reconnection may fail before or after the device took it, any number of
\* times.
THEOREM ReportsInAbsoluteMode == Spec => []ReportsAbsolute
BY SetupInvariant, ReadySuffices, PTL

\* Detect_touchpad may miss a touchpad, it never takes one brand for another,
\* whatever requests fail or read zeros.
THEOREM NoBrandForAnother == Spec => []DetectsNoOther
BY SetupInvariant, KnownSuffices, PTL

\* probe and start leave no touchpad reporting to a driver that is not there.
THEOREM NoReportsUnattended == Spec => []SilentUnattended
BY SetupInvariant, KnownSuffices, PTL

\* A reconnection begins from what the driver has, but for its counters.
LEMMA RepairedInStep ==
    ASSUME SetupInv, life = "running", pad' = pad, s.hw = pad.hw, s'.faults = s.faults,
           NEW t, Shape(t), t.vendor = s.vendor, t.hw = s.hw, t.faults = s.faults,
           s' \in Reconnect(t)
    PROVE  Repaired'
<1>1. Plausible(t) /\ OwnVersion(t) /\ Named(t) /\ t.hw = pad.hw /\ pad \in Pads
    BY DEF SetupInv, Known, Plausible, OwnVersion, Named
<1>2. /\ s'.vendor = pad.brand /\ s'.reporting = TRUE
      /\ s'.vendor # "mouse" => s'.mode # "relative"
    BY <1>1, AnsweredReconnection
<1> QED BY <1>2 DEF Repaired

LEMMA RepairsInStep ==
    SetupInv /\ Reconnecting /\ s'.faults = s.faults /\ s.hw = pad.hw => Repaired'
<1> SUFFICES ASSUME SetupInv, Reconnecting, s'.faults = s.faults, s.hw = pad.hw PROVE Repaired'
    OBVIOUS
<1>1. CASE Announcement
    <2> DEFINE t == [s EXCEPT !.announced = FALSE]
    <2>1. life = "running" /\ Shape(s) /\ s' \in Reconnect(t) /\ pad' = pad
        BY <1>1 DEF Announcement, SetupInv
    <2>2. Shape(t) /\ t.vendor = s.vendor /\ t.hw = s.hw /\ t.faults = s.faults
        BY <2>1 DEF Shape
    <2> HIDE DEF t
    <2> QED BY <2>1, <2>2, RepairedInStep
<1>2. CASE PowerUp
    <2> DEFINE t == [s EXCEPT !.tries = 3, !.announced = FALSE, !.events = @ + 1]
    <2>1. life = "running" /\ Shape(s) /\ s' \in Reconnect(t) /\ pad' = pad
        BY <1>2 DEF PowerUp, Event, SetupInv
    <2>2. Shape(t) /\ t.vendor = s.vendor /\ t.hw = s.hw /\ t.faults = s.faults
        BY <2>1 DEF Shape
    <2> HIDE DEF t
    <2> QED BY <2>1, <2>2, RepairedInStep
<1>3. CASE UnknownPacket
    <2> DEFINE t == [s EXCEPT !.tries = @ - 1]
    <2>1. life = "running" /\ Shape(s) /\ s' \in Reconnect(t) /\ pad' = pad
        BY <1>3 DEF UnknownPacket, SetupInv
    <2>2. Shape(t) /\ t.vendor = s.vendor /\ t.hw = s.hw /\ t.faults = s.faults
        BY <2>1 DEF Shape
    <2> HIDE DEF t
    <2> QED BY <2>1, <2>2, RepairedInStep
<1> QED BY <1>1, <1>2, <1>3 DEF Reconnecting

\* One reconnection whose requests are all answered leaves the device known by
\* its brand, reporting, and in the mode its decoder expects, whatever earlier
\* reconnections and resets left behind and however often they failed.
THEOREM AnsweredReconnectionsRepair == Spec => AnsweredReconnectRepairs
<1>1. SetupInv /\ [Next]_vars =>
          [Reconnecting /\ s'.faults = s.faults /\ s.hw = pad.hw => Repaired']_vars
    BY RepairsInStep
<1> QED BY <1>1, SetupInvariant, PTL DEF Spec, AnsweredReconnectRepairs
=============================================================================
