------------------------ MODULE PowerControl_proofs ------------------------
(***************************************************************************)
(* Proofs about power changes, for any keyboard, any number of changes and *)
(* any number of changes that power management gives up on.                *)
(***************************************************************************)
EXTENDS PowerControl, TLAPS

---------------------------------------------------------------------------
(* Where the power state, the frozen flag and the drivers' view stand at   *)
(* each step of setPowerStateGated.                                        *)

GoingToSleep(informed) ==
    /\ ~hardwareOffline /\ told = (IF informed THEN "Disable" ELSE "Enable")
    /\ currentPowerState # "Sleep" /\ target = "Sleep"

WakingUp(frozen, informed) ==
    /\ hardwareOffline = frozen
    /\ told = (IF informed THEN "Enable" ELSE "Disable")
    /\ currentPowerState = "Sleep" /\ target # "Sleep"

\* The strengthening of FrozenInSleep: outside the gate the three agree, and
\* inside it they change one by one in the order of the code.
InStep ==
    /\ step \in Step
    /\ told \in {"Enable", "Disable"}
    /\ hardwareOffline \in BOOLEAN
    /\ step = "idle" => /\ hardwareOffline = (currentPowerState = "Sleep")
                        /\ hardwareOffline = (told = "Disable")
    /\ step = "disableKeyboard" => GoingToSleep(FALSE)
    /\ step \in {"disableMouse", "freeze"} => GoingToSleep(TRUE)
    /\ step \in {"clearInput", "resetInterrupts", "resetDevices", "enablePort", "thaw"}
           => WakingUp(TRUE, FALSE)
    /\ step = "enableKeyboard" => WakingUp(FALSE, FALSE)
    /\ step = "enableMouse" => WakingUp(FALSE, TRUE)
    /\ step = "acknowledge" => /\ hardwareOffline = (target = "Sleep")
                               /\ hardwareOffline = (told = "Disable")

LEMMA InStepInit == Init => InStep
  BY DEF Init, InStep, Step

\* The variables InStep speaks of are left alone outside setPowerStateGated.
LEMMA InStepStutter ==
  ASSUME InStep, UNCHANGED <<gate, power, drivers>> PROVE InStep'
  BY DEF InStep, GoingToSleep, WakingUp, gate, power, drivers

LEMMA InStepGated ==
  ASSUME InStep, GatedStep PROVE InStep'
<1> USE DEF InStep, GoingToSleep, WakingUp, Step, power, drivers
<1>1. CASE DisableKeyboard BY <1>1 DEF DisableKeyboard
<1>2. CASE DisableMouse BY <1>2 DEF DisableMouse
<1>3. CASE Freeze BY <1>3 DEF Freeze
<1>4. CASE ClearInput BY <1>4 DEF ClearInput
<1>5. CASE ResetInterrupts BY <1>5 DEF ResetInterrupts
<1>6. CASE ResetDevices BY <1>6 DEF ResetDevices
<1>7. CASE EnablePort BY <1>7 DEF EnablePort
<1>8. CASE Thaw BY <1>8 DEF Thaw
<1>9. CASE EnableKeyboard BY <1>9 DEF EnableKeyboard
<1>10. CASE EnableMouse BY <1>10 DEF EnableMouse
<1>11. CASE Acknowledge BY <1>11 DEF Acknowledge
<1> QED
  BY <1>1, <1>2, <1>3, <1>4, <1>5, <1>6, <1>7, <1>8, <1>9, <1>10, <1>11 DEF GatedStep

LEMMA InStepNext == InStep /\ [Next]_vars => InStep'
<1> SUFFICES ASSUME InStep, [Next]_vars PROVE InStep' OBVIOUS
<1>1. ASSUME NEW s \in PowerState, SetPowerState(s) PROVE InStep'
  BY <1>1, InStepStutter DEF SetPowerState
<1>2. CASE AcknowledgementTimesOut
  BY <1>2, InStepStutter DEF AcknowledgementTimesOut
<1>3. CASE CallThread
  BY <1>3, InStepStutter DEF CallThread
<1>4. ASSUME NEW i \in 1..Len(callouts), EnterGate(i) PROVE InStep'
  <2>1. /\ step = "idle" /\ target' = callouts[i]
        /\ step' = FirstStep(currentPowerState, callouts[i])
        /\ UNCHANGED <<power, told>>
    BY <1>4 DEF EnterGate, drivers
  <2> QED BY <2>1 DEF FirstStep, InStep, GoingToSleep, WakingUp, Step, power
<1>5. ASSUME NEW k \in Key, Stroke(k) PROVE InStep'
  BY <1>5, InStepStutter DEF Stroke
<1>6. CASE DispatchKey
  BY <1>6, InStepStutter DEF DispatchKey
<1>7. CASE ServeQueue
  BY <1>7, InStepStutter DEF ServeQueue
<1>8. CASE GatedStep
  BY <1>8, InStepGated
<1>9. CASE UNCHANGED vars
  BY <1>9, InStepStutter DEF vars
<1> QED BY <1>1, <1>2, <1>3, <1>4, <1>5, <1>6, <1>7, <1>8, <1>9 DEF Next

\* Outside the gate the request engine is frozen exactly in sleep, and that is
\* what the drivers were told, in whatever order the calls of several changes
\* get the gate.
THEOREM EngineFrozenInSleep == Spec => []FrozenInSleep
<1>1. InStep => FrozenInSleep BY DEF InStep, FrozenInSleep
<1> QED BY <1>1, InStepInit, InStepNext, PTL DEF Spec

\* A driver is told to disable its device only when it was told to enable it
\* last, and the other way round.
THEOREM DriversToldInTurn == Spec => ToldInTurn
<1>1. InStep => (DisableKeyboard => told = "Enable")
  BY DEF InStep, DisableKeyboard, GoingToSleep
<1>2. InStep => (EnableKeyboard => told = "Disable")
  BY DEF InStep, EnableKeyboard, WakingUp
<1> QED BY <1>1, <1>2, InStepInit, InStepNext, PTL DEF Spec, ToldInTurn

---------------------------------------------------------------------------
(* One reference per call. *)

Calls ==
    /\ pending \in Seq(PowerState) /\ Len(pending) <= 1
    /\ callouts \in Seq(PowerState)
    /\ retains \in Nat
    /\ ReferencePerCall

\* A waiting call leaves exactly one place.
LEMMA RemoveOne ==
  ASSUME NEW S, NEW s \in Seq(S), NEW i \in 1..Len(s)
  PROVE  RemoveAt(s, i) \in Seq(S) /\ Len(RemoveAt(s, i)) = Len(s) - 1
<1>1. SubSeq(s, 1, i - 1) \in Seq(S) /\ Len(SubSeq(s, 1, i - 1)) = i - 1
  OBVIOUS
<1>2. SubSeq(s, i + 1, Len(s)) \in Seq(S) /\ Len(SubSeq(s, i + 1, Len(s))) = Len(s) - i
  OBVIOUS
<1>3. \A a, b \in Seq(S) : a \o b \in Seq(S) /\ Len(a \o b) = Len(a) + Len(b)
  OBVIOUS
<1>4. RemoveAt(s, i) = SubSeq(s, 1, i - 1) \o SubSeq(s, i + 1, Len(s))
  BY DEF RemoveAt
<1>5. i \in Nat /\ Len(s) \in Nat
  OBVIOUS
<1>6. RemoveAt(s, i) \in Seq(S)
      /\ Len(RemoveAt(s, i)) = Len(SubSeq(s, 1, i - 1)) + Len(SubSeq(s, i + 1, Len(s)))
  BY <1>1, <1>2, <1>3, <1>4
<1>7. \A m, n \in Nat : (m - 1) + (n - m) = n - 1
  OBVIOUS
<1>8. (i - 1) + (Len(s) - i) = Len(s) - 1
  BY <1>5, <1>7
<1> QED BY <1>1, <1>2, <1>6, <1>8

\* Steps inside the gate, other than the last, leave the calls alone.
LEMMA CallsStutter ==
  ASSUME Calls, UNCHANGED thread, (step = "idle") <=> (step' = "idle")
  PROVE  Calls'
  BY DEF Calls, ReferencePerCall, thread

LEMMA CallsNext == InStep /\ Calls /\ [Next]_vars => Calls'
<1> SUFFICES ASSUME InStep, Calls, [Next]_vars PROVE Calls' OBVIOUS
<1> USE DEF Calls, ReferencePerCall
<1>1. ASSUME NEW s \in PowerState, SetPowerState(s) PROVE Calls'
  <2>1. pending' = <<s>> /\ pending' \in Seq(PowerState) /\ Len(pending') = 1
    BY <1>1 DEF SetPowerState
  <2>2. pending = <<>> <=> Len(pending) = 0 OBVIOUS
  <2> QED BY <1>1, <2>1, <2>2 DEF SetPowerState, gate
<1>2. CASE AcknowledgementTimesOut
  BY <1>2, CallsStutter DEF AcknowledgementTimesOut, gate
<1>3. CASE CallThread
  <2>1. pending' = <<>> /\ Len(pending') = 0 /\ pending' \in Seq(PowerState)
    BY <1>3 DEF CallThread
  <2>2. callouts' \in Seq(PowerState) /\ Len(callouts') = Len(callouts) + Len(pending)
    BY <1>3 DEF CallThread
  <2> QED BY <1>3, <2>1, <2>2 DEF CallThread, gate
<1>4. ASSUME NEW i \in 1..Len(callouts), EnterGate(i) PROVE Calls'
  <2>1. callouts' \in Seq(PowerState) /\ Len(callouts') = Len(callouts) - 1
    BY <1>4, RemoveOne DEF EnterGate
  <2>2. step = "idle" /\ step' # "idle"
    BY <1>4 DEF EnterGate, FirstStep
  <2> QED BY <1>4, <2>1, <2>2 DEF EnterGate
<1>5. ASSUME NEW k \in Key, Stroke(k) PROVE Calls'
  BY <1>5, CallsStutter DEF Stroke, gate
<1>6. CASE DispatchKey \/ ServeQueue
  BY <1>6, CallsStutter DEF DispatchKey, ServeQueue, gate
<1>7. CASE GatedStep
  <2>1. CASE Acknowledge
    BY <2>1 DEF Acknowledge
  <2>2. CASE ~Acknowledge
    <3>1. UNCHANGED thread /\ step # "idle" /\ step' # "idle"
      BY <1>7, <2>2 DEF GatedStep, DisableKeyboard, DisableMouse, Freeze, ClearInput,
         ResetInterrupts, ResetDevices, EnablePort, Thaw, EnableKeyboard, EnableMouse
    <3> QED BY <3>1, CallsStutter
  <2> QED BY <2>1, <2>2
<1>8. CASE UNCHANGED vars
  BY <1>8, CallsStutter DEF vars, gate
<1> QED BY <1>1, <1>2, <1>3, <1>4, <1>5, <1>6, <1>7, <1>8 DEF Next

\* setPowerState and the callouts balance: the controller is referenced once
\* for every call that is pending, waiting for the gate or inside it, so it is
\* neither freed under a call nor kept after the last.
THEOREM ReferencesBalance == Spec => []ReferencePerCall
<1>1. Init => Calls
  BY DEF Init, Calls, ReferencePerCall
<1>2. Calls => ReferencePerCall
  BY DEF Calls
<1> QED BY <1>1, <1>2, InStepInit, InStepNext, CallsNext, PTL DEF Spec

---------------------------------------------------------------------------
(* What is acknowledged was done. *)

\* Where the one outstanding change is, while power management has given up
\* on none: pending, on its way to the gate, or inside it.
Underway ==
    \/ step = "idle" /\ pending = <<requested>> /\ callouts = <<>>
    \/ step = "idle" /\ pending = <<>> /\ callouts = <<requested>>
    \/ step # "idle" /\ pending = <<>> /\ callouts = <<>> /\ target = requested

Settled ==
    /\ step = "idle" /\ pending = <<>> /\ callouts = <<>>
    /\ currentPowerState = requested

Outstanding ==
    /\ timeouts \in Nat
    /\ awaiting \in BOOLEAN
    /\ requested \in PowerState
    /\ timeouts = 0 => (awaiting => Underway) /\ (~awaiting => Settled)

LEMMA OutstandingStutter ==
  ASSUME Outstanding, UNCHANGED <<manager, thread, target, currentPowerState>>,
         (step = "idle") <=> (step' = "idle")
  PROVE  Outstanding'
  BY DEF Outstanding, Underway, Settled, manager, thread

\* One call leaves the gate's queue empty when it was the only one.
LEMMA RemoveOnly ==
  ASSUME NEW S, NEW r \in S
  PROVE  Len(<<r>>) = 1 /\ RemoveAt(<<r>>, 1) = <<>> /\ <<r>>[1] = r
<1>1. <<r>> \in Seq(S) /\ Len(<<r>>) = 1 /\ <<r>>[1] = r
  OBVIOUS
<1>2. RemoveAt(<<r>>, 1) \in Seq(S) /\ Len(RemoveAt(<<r>>, 1)) = 0
  <2>1. 1 \in 1..Len(<<r>>) BY <1>1
  <2>2. RemoveAt(<<r>>, 1) \in Seq(S) /\ Len(RemoveAt(<<r>>, 1)) = Len(<<r>>) - 1
    BY <1>1, <2>1, RemoveOne
  <2> QED BY <1>1, <2>2
<1>3. \A e \in Seq(S) : Len(e) = 0 => e = <<>>
  OBVIOUS
<1> QED BY <1>1, <1>2, <1>3

LEMMA OutstandingNext == InStep /\ Outstanding /\ [Next]_vars => Outstanding'
<1> SUFFICES ASSUME InStep, Outstanding, [Next]_vars PROVE Outstanding' OBVIOUS
<1>1. ASSUME NEW s \in PowerState, SetPowerState(s) PROVE Outstanding'
  BY <1>1 DEF SetPowerState, Outstanding, Underway, Settled, gate
<1>2. CASE AcknowledgementTimesOut
  <2>1. awaiting' = FALSE /\ timeouts' = timeouts + 1 /\ requested' = requested
    BY <1>2 DEF AcknowledgementTimesOut
  <2>2. timeouts' \in Nat /\ timeouts' # 0
    BY <2>1 DEF Outstanding
  <2> QED BY <2>1, <2>2 DEF Outstanding
<1>3. CASE CallThread
  <2>1. UNCHANGED <<timeouts, awaiting, requested, step, target, currentPowerState>>
    BY <1>3 DEF CallThread, manager, gate, power
  <2>2. ASSUME timeouts = 0
        PROVE  awaiting /\ Underway'
    <3>1. awaiting /\ pending = <<requested>> /\ callouts = <<>> /\ step = "idle"
      BY <1>3, <2>2 DEF CallThread, Outstanding, Underway, Settled
    <3>2. <<>> \o <<requested>> = <<requested>>
      OBVIOUS
    <3> QED BY <1>3, <2>1, <3>1, <3>2 DEF CallThread, Underway
  <2> QED BY <2>1, <2>2 DEF Outstanding
<1>4. ASSUME NEW i \in 1..Len(callouts), EnterGate(i) PROVE Outstanding'
  <2>1. UNCHANGED <<timeouts, awaiting, requested, pending>>
    BY <1>4 DEF EnterGate, manager
  <2>2. ASSUME timeouts = 0
        PROVE  awaiting /\ Underway'
    <3>1. callouts # <<>>
      <4>1. Len(<<>>) = 0 OBVIOUS
      <4> QED BY <1>4, <4>1
    <3>2. awaiting /\ callouts = <<requested>> /\ pending = <<>>
      BY <1>4, <2>2, <3>1 DEF EnterGate, Outstanding, Underway, Settled
    <3>3. i = 1
      <4>1. Len(callouts) = 1 BY <3>2, RemoveOnly DEF Outstanding
      <4> QED BY <4>1
    <3>4. RemoveAt(callouts, i) = <<>> /\ callouts[i] = requested
      BY <3>2, <3>3, RemoveOnly DEF Outstanding
    <3>5. step' # "idle"
      BY <1>4 DEF EnterGate, FirstStep
    <3> QED BY <1>4, <2>1, <3>2, <3>4, <3>5 DEF EnterGate, Underway
  <2> QED BY <2>1, <2>2 DEF Outstanding
<1>5. ASSUME NEW k \in Key, Stroke(k) PROVE Outstanding'
  BY <1>5, OutstandingStutter DEF Stroke, gate, power
<1>6. CASE DispatchKey \/ ServeQueue
  BY <1>6, OutstandingStutter DEF DispatchKey, ServeQueue, gate, power
<1>7. CASE GatedStep
  <2>1. CASE Acknowledge
    BY <2>1 DEF Acknowledge, Outstanding, Underway, Settled
  <2>2. CASE ~Acknowledge
    <3>1. /\ UNCHANGED <<manager, thread, target, currentPowerState>>
          /\ step # "idle" /\ step' # "idle"
      BY <1>7, <2>2 DEF GatedStep, DisableKeyboard, DisableMouse, Freeze, ClearInput,
         ResetInterrupts, ResetDevices, EnablePort, Thaw, EnableKeyboard, EnableMouse,
         power
    <3> QED BY <3>1, OutstandingStutter
  <2> QED BY <2>1, <2>2
<1>8. CASE UNCHANGED vars
  BY <1>8, OutstandingStutter DEF vars, gate, power
<1> QED BY <1>1, <1>2, <1>3, <1>4, <1>5, <1>6, <1>7, <1>8 DEF Next

\* As long as power management waits for each acknowledgement, a change that is
\* acknowledged has been carried out: the state is the one asked for, and the
\* engine is frozen exactly if that is sleep.
THEOREM AcknowledgedChangesAreDone == Spec => []AcknowledgedIsDone
<1>1. ASSUME Init PROVE Outstanding
  <2>1. awaiting = FALSE /\ timeouts = 0 /\ requested = "Normal"
    BY <1>1 DEF Init
  <2>2. Settled
    BY <1>1 DEF Init, Settled
  <2> QED BY <2>1, <2>2 DEF Outstanding, PowerState
<1>2. InStep /\ Outstanding => AcknowledgedIsDone
  BY DEF InStep, Outstanding, Settled, AcknowledgedIsDone
<1> QED BY <1>1, <1>2, InStepInit, InStepNext, OutstandingNext, PTL DEF Spec

---------------------------------------------------------------------------
(* The keyboard is silent when the engine freezes.                         *)
(*                                                                         *)
(* Its disable command waits on the queue behind whatever was there, and   *)
(* is the last one when the touchpad driver's blocking request drains the  *)
(* queue: nobody else runs inside the gate.  From then on only a thawed    *)
(* engine lets another command through.                                    *)

Quiet ==
    /\ requestQueue \in Seq({"enable", "disable"})
    /\ step = "disableMouse" =>
           requestQueue # <<>> /\ requestQueue[Len(requestQueue)] = "disable"
    /\ mouseInstalled /\ (hardwareOffline \/ step = "freeze") => reporting = FALSE

LEMMA QuietStutter ==
  ASSUME Quiet, UNCHANGED <<requestQueue, step, mouseInstalled, hardwareOffline, reporting>>
  PROVE  Quiet'
  BY DEF Quiet

\* A step inside the gate that only moves on, to a step other than these two.
LEMMA QuietMovesOn ==
  ASSUME Quiet, UNCHANGED <<requestQueue, mouseInstalled, reporting>>,
         step' \notin {"disableMouse", "freeze"}, hardwareOffline' => hardwareOffline
  PROVE  Quiet'
  BY DEF Quiet

LEMMA QuietNext == InStep /\ Quiet /\ [Next]_vars => Quiet'
<1> SUFFICES ASSUME InStep, Quiet, [Next]_vars PROVE Quiet' OBVIOUS
<1>0. <<>> \in Seq({"enable", "disable"})
  OBVIOUS
<1>1. ASSUME NEW s \in PowerState, SetPowerState(s) PROVE Quiet'
  BY <1>1, QuietStutter DEF SetPowerState, gate, power, drivers, hardware
<1>2. CASE AcknowledgementTimesOut \/ CallThread
  BY <1>2, QuietStutter
  DEF AcknowledgementTimesOut, CallThread, gate, power, drivers, hardware
<1>3. ASSUME NEW i \in 1..Len(callouts), EnterGate(i) PROVE Quiet'
  <2>1. step' \notin {"disableMouse", "freeze"}
    BY <1>3 DEF EnterGate, FirstStep
  <2> QED BY <1>3, <2>1, QuietMovesOn DEF EnterGate, power, drivers, hardware
<1>4. ASSUME NEW k \in Key, Stroke(k) PROVE Quiet'
  BY <1>4, QuietStutter DEF Stroke, gate, power, drivers
<1>5. CASE DispatchKey
  BY <1>5, QuietStutter DEF DispatchKey, gate, power, drivers
<1>6. CASE ServeQueue
  <2>1. /\ step = "idle" /\ step' = "idle" /\ requestQueue' = <<>>
        /\ UNCHANGED <<hardwareOffline, mouseInstalled>>
        /\ hardwareOffline => reporting' = reporting
    BY <1>6 DEF ServeQueue, DrainQueue, gate, power, drivers
  <2> QED BY <1>0, <2>1 DEF Quiet
<1>7. CASE DisableKeyboard
  <2>1. /\ requestQueue' = Append(requestQueue, "disable")
        /\ step' = "disableMouse" /\ ~hardwareOffline /\ hardwareOffline' = hardwareOffline
    BY <1>7 DEF DisableKeyboard, power, InStep, GoingToSleep
  <2>2. /\ requestQueue' \in Seq({"enable", "disable"}) /\ requestQueue' # <<>>
        /\ requestQueue'[Len(requestQueue')] = "disable"
    BY <2>1 DEF Quiet
  <2> QED BY <2>1, <2>2 DEF Quiet
<1>8. CASE DisableMouse
  <2>1. /\ requestQueue # <<>> /\ requestQueue[Len(requestQueue)] = "disable"
        /\ ~hardwareOffline /\ hardwareOffline' = hardwareOffline
        /\ mouseInstalled' = mouseInstalled /\ step' = "freeze"
    BY <1>8 DEF DisableMouse, power, drivers, InStep, GoingToSleep, Quiet
  <2>2. CASE mouseInstalled
    <3>1. requestQueue' = <<>> /\ reporting' = FALSE
      BY <1>8, <2>1, <2>2 DEF DisableMouse, DrainQueue, Executed
    <3> QED BY <1>0, <2>1, <3>1 DEF Quiet
  <2>3. CASE ~mouseInstalled
    BY <1>8, <2>1, <2>3 DEF DisableMouse, Quiet
  <2> QED BY <2>2, <2>3
<1>9. CASE Freeze
  <2>1. /\ step = "freeze" /\ step' = "acknowledge"
        /\ UNCHANGED <<requestQueue, mouseInstalled, reporting>>
    BY <1>9 DEF Freeze, drivers, hardware
  <2> QED BY <2>1 DEF Quiet
<1>10. CASE ClearInput \/ ResetInterrupts \/ EnablePort \/ Thaw \/ Acknowledge
  <2>1. /\ UNCHANGED <<requestQueue, mouseInstalled, reporting>>
        /\ step' \notin {"disableMouse", "freeze"} /\ (hardwareOffline' => hardwareOffline)
    BY <1>10 DEF ClearInput, ResetInterrupts, EnablePort, Thaw, Acknowledge,
       power, drivers, hardware
  <2> QED BY <2>1, QuietMovesOn
<1>11. CASE ResetDevices
  <2>1. UNCHANGED <<requestQueue, mouseInstalled>> /\ reporting' = FALSE
        /\ step' = "enablePort"
    BY <1>11 DEF ResetDevices, drivers
  <2> QED BY <2>1 DEF Quiet
<1>12. CASE EnableKeyboard
  <2>1. /\ requestQueue' = <<"enable">> /\ step' = "enableMouse"
        /\ hardwareOffline = FALSE /\ hardwareOffline' = FALSE
    BY <1>12 DEF EnableKeyboard, power, InStep, WakingUp
  <2> QED BY <2>1 DEF Quiet
<1>13. CASE EnableMouse
  <2>1. /\ hardwareOffline = FALSE /\ hardwareOffline' = FALSE /\ step' = "acknowledge"
        /\ requestQueue' \in {<<>>, requestQueue}
    BY <1>13 DEF EnableMouse, DrainQueue, power, InStep, WakingUp
  <2> QED BY <1>0, <2>1 DEF Quiet
<1>14. CASE UNCHANGED vars
  BY <1>14, QuietStutter DEF vars, gate, power, drivers, hardware
<1> QED
  BY <1>1, <1>2, <1>3, <1>4, <1>5, <1>6, <1>7, <1>8, <1>9, <1>10, <1>11, <1>12,
     <1>13, <1>14
  DEF Next, GatedStep

\* With a touchpad driver the keyboard reports no key once the engine is frozen,
\* although its disable command is asynchronous and strokes, dispatches and
\* other changes come at any time.
THEOREM KeyboardSilentWhenFrozen == Spec => []SilentWhenFrozen
<1>1. Init => Quiet
  BY DEF Init, Quiet
<1>2. Quiet => SilentWhenFrozen
  BY DEF Quiet, SilentWhenFrozen
<1> QED BY <1>1, <1>2, InStepInit, InStepNext, QuietNext, PTL DEF Spec
=============================================================================
