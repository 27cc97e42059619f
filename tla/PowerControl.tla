---------------------------- MODULE PowerControl ----------------------------
(***************************************************************************)
(* Power changes of ApplePS2Controller, from setPowerState to the drivers. *)
(*                                                                         *)
(* Power management calls setPowerState on a thread of its own; a thread   *)
(* call carries the new state to the work loop, where setPowerStateGated   *)
(* tells the drivers, freezes or thaws the request engine, and brings the  *)
(* controller back after sleep.  Meanwhile the user types, and the         *)
(* keyboard's interrupt handler keeps filling the software queue.          *)
(***************************************************************************)
EXTENDS Naturals, Sequences, FiniteSets, SequencesExt

CONSTANTS
    Key,            \* the keys of the keyboard
    ScanBits,       \* what a scan code reads like as a command byte
    MaxKeys,        \* bound: key strokes
    MaxChanges,     \* bound: power changes
    MaxTimeouts     \* bound: changes given up before the acknowledgement

CommandBits == {"kbdIRQ", "mouseIRQ", "system", "kbdOff", "mouseOff", "translate"}

PowerState == {"Sleep", "Doze", "Normal"}

ASSUME PowerAssumption ==
    /\ ScanBits \subseteq CommandBits
    /\ MaxKeys \in Nat /\ MaxChanges \in Nat /\ MaxTimeouts \in Nat

VARIABLES
    \* power management
    requested,      \* the state asked for last
    awaiting,       \* is an acknowledgement outstanding?
    changes, timeouts,
    \* the thread call
    pending,        \* the parameter of the pending call: at most one
    callouts,       \* parameters of the calls on their way to the gate
    retains,        \* references taken on the controller for them
    \* the controller
    step,           \* where setPowerStateGated is
    target,         \* its argument
    currentPowerState, hardwareOffline,
    requestQueue,   \* asynchronous requests of the keyboard driver
    told,           \* what the drivers were told last
    mouseInstalled, \* has a touchpad driver installed its power action?
    \* the hardware and the keyboard's data
    commandByte,    \* the controller's command byte
    reporting,      \* does the keyboard report keys?
    input,          \* the keyboard's data: software queue, then port
    held,           \* the keys the user holds
    strokes,
    \* the keyboard driver
    isKeyboardEnabled,
    keyBitVector    \* keys the driver knows to be down

manager  == <<requested, awaiting, changes, timeouts>>
thread   == <<pending, callouts, retains>>
gate     == <<step, target>>
power    == <<currentPowerState, hardwareOffline>>
drivers  == <<told, mouseInstalled>>
user     == <<held, strokes>>
keyboard == <<isKeyboardEnabled, keyBitVector>>
hardware == <<commandByte, reporting, input>>

vars == <<manager, thread, gate, power, requestQueue, drivers, hardware, user, keyboard>>

\* A byte of the keyboard's stream and how it reads as a command byte.
KeyByte(k, down) == [kind |-> "key", key |-> {k}, down |-> down, bits |-> ScanBits]
Answer(bits)     == [kind |-> "answer", key |-> {}, down |-> FALSE, bits |-> bits]
AckBits          == {"mouseIRQ", "kbdOff", "mouseOff", "translate"}

Byte == [kind : {"key", "answer"}, key : SUBSET Key, down : BOOLEAN,
         bits : SUBSET CommandBits]

Init ==
    /\ requested = "Normal" /\ awaiting = FALSE /\ changes = 0 /\ timeouts = 0
    /\ pending = <<>> /\ callouts = <<>> /\ retains = 0
    /\ step = "idle" /\ target = "Normal"
    /\ currentPowerState = "Normal" /\ hardwareOffline = FALSE
    /\ requestQueue = <<>>
    /\ told = "Enable" /\ mouseInstalled \in BOOLEAN
    /\ commandByte = {"kbdIRQ", "mouseIRQ", "system", "translate"}
    /\ reporting = TRUE
    /\ input = [queue |-> <<>>, port |-> <<>>]
    /\ held = {} /\ strokes = 0
    /\ isKeyboardEnabled = TRUE /\ keyBitVector = {}

---------------------------------------------------------------------------
(* Power management and the thread call. *)

\* Mutant: the extra reference is kept when a call is pending already.
MutantSetPowerState(s) ==
    /\ ~awaiting /\ changes < MaxChanges /\ s # requested
    /\ requested' = s
    /\ awaiting' = TRUE
    /\ changes' = changes + 1
    /\ retains' = retains + 1
    /\ pending' = <<s>>
    /\ UNCHANGED <<timeouts, callouts, gate, power, requestQueue, drivers, hardware,
                   user, keyboard>>

\* setPowerState: a call that is pending already gets the new parameter, and
\* the reference just taken is dropped.
SetPowerState(s) ==
    /\ ~awaiting /\ changes < MaxChanges /\ s # requested
    /\ requested' = s
    /\ awaiting' = TRUE
    /\ changes' = changes + 1
    /\ retains' = IF pending = <<>> THEN retains + 1 ELSE retains
    /\ pending' = <<s>>
    /\ UNCHANGED <<timeouts, callouts, gate, power, requestQueue, drivers, hardware,
                   user, keyboard>>

\* Power management gives a change up when the five seconds are over.
AcknowledgementTimesOut ==
    /\ awaiting /\ timeouts < MaxTimeouts
    /\ awaiting' = FALSE
    /\ timeouts' = timeouts + 1
    /\ UNCHANGED <<requested, changes, thread, gate, power, requestQueue, drivers,
                   hardware, user, keyboard>>

\* A thread takes the pending call; it still has to get the gate.
CallThread ==
    /\ pending # <<>>
    /\ callouts' = callouts \o pending
    /\ pending' = <<>>
    /\ UNCHANGED <<manager, retains, gate, power, requestQueue, drivers, hardware,
                   user, keyboard>>

\* Mutant: every working state is brought up as after sleep.
MutantFirstStep(from, to) ==
    IF from = to THEN "acknowledge"
    ELSE IF to = "Sleep" THEN "disableKeyboard"
    ELSE "clearInput"

\* The first step of setPowerStateGated for a change from one state to another.
FirstStep(from, to) ==
    IF from = to THEN "acknowledge"
    ELSE IF to = "Sleep" THEN "disableKeyboard"
    ELSE IF from = "Sleep" THEN "clearInput"
    ELSE "acknowledge"

\* setPowerStateCallout: some waiting thread gets the gate.
EnterGate(i) ==
    /\ step = "idle"
    /\ target' = callouts[i]
    /\ callouts' = RemoveAt(callouts, i)
    /\ step' = FirstStep(currentPowerState, callouts[i])
    /\ UNCHANGED <<manager, pending, retains, power, requestQueue, drivers, hardware,
                   user, keyboard>>

---------------------------------------------------------------------------
(* The keyboard, its interrupt handler and its driver's data. *)

\* A byte arrives: the interrupt handler moves it to the software queue.
Arrive(in, b) ==
    IF "kbdIRQ" \in commandByte
    THEN [in EXCEPT !.queue = Append(@, b)]
    ELSE [in EXCEPT !.port = Append(@, b)]

\* readDataPort(kDT_Keyboard): the software queue comes first.
Available(in) == in.queue \o in.port
ReadByte(in)  == Head(Available(in))
AfterRead(in) == IF in.queue # <<>> THEN [in EXCEPT !.queue = Tail(@)]
                                    ELSE [in EXCEPT !.port = Tail(@)]

Stroke(k) ==
    /\ strokes < MaxKeys
    /\ strokes' = strokes + 1
    /\ held' = IF k \in held THEN held \ {k} ELSE held \cup {k}
    /\ input' = IF reporting /\ "kbdOff" \notin commandByte
                THEN Arrive(input, KeyByte(k, k \notin held))
                ELSE input
    /\ UNCHANGED <<manager, thread, gate, power, requestQueue, drivers, commandByte,
                   reporting, keyboard>>

\* interruptOccurred of the controller, then of the keyboard driver.
DispatchKey ==
    /\ step = "idle" /\ ~hardwareOffline
    /\ input.queue # <<>>
    /\ input' = [input EXCEPT !.queue = Tail(@)]
    /\ LET b == Head(input.queue) IN
           IF ~isKeyboardEnabled \/ b.kind # "key"
           THEN UNCHANGED keyBitVector
           ELSE keyBitVector' = IF b.down THEN keyBitVector \cup b.key
                                          ELSE keyBitVector \ b.key
    /\ UNCHANGED <<manager, thread, gate, power, requestQueue, drivers, commandByte,
                   reporting, isKeyboardEnabled, user>>

\* The keyboard's asynchronous requests, executed in order; a frozen engine
\* fails them.  Each enables or disables whatever was before, so the last one
\* decides.  A command counts from its write on, acknowledged or not.
Executed(queue, now) == IF queue = <<>> THEN now ELSE queue[Len(queue)] = "enable"

DrainQueue(queue) ==
    /\ requestQueue' = <<>>
    /\ reporting' = IF hardwareOffline THEN reporting ELSE Executed(queue, reporting)

\* processRequestQueue, from the work loop.
ServeQueue ==
    /\ step = "idle" /\ requestQueue # <<>>
    /\ DrainQueue(requestQueue)
    /\ UNCHANGED <<manager, thread, gate, power, drivers, commandByte, input, user, keyboard>>

---------------------------------------------------------------------------
(* setPowerStateGated to sleep. *)

\* Keyboard driver, kPS2C_DisableDevice: the disable command is asynchronous.
DisableKeyboard ==
    /\ step = "disableKeyboard"
    /\ step' = "disableMouse"
    /\ told' = "Disable"
    /\ isKeyboardEnabled' = FALSE
    /\ requestQueue' = Append(requestQueue, "disable")
    /\ UNCHANGED <<manager, thread, target, power, hardware, user, keyBitVector, mouseInstalled>>

\* Mutant: the touchpad's disable does not wait for the queued requests.
MutantDisableMouse ==
    /\ step = "disableMouse"
    /\ step' = "freeze"
    /\ UNCHANGED <<manager, thread, target, power, drivers, requestQueue, hardware,
                   user, keyboard>>

\* Touchpad driver: its blocking request drains the queue first.
DisableMouse ==
    /\ step = "disableMouse"
    /\ step' = "freeze"
    /\ IF mouseInstalled THEN DrainQueue(requestQueue)
                         ELSE UNCHANGED <<requestQueue, reporting>>
    /\ UNCHANGED <<manager, thread, target, power, drivers, commandByte, input, user, keyboard>>

Freeze ==
    /\ step = "freeze"
    /\ step' = "acknowledge"
    /\ hardwareOffline' = TRUE
    /\ UNCHANGED <<manager, thread, target, currentPowerState, requestQueue, drivers,
                   hardware, user, keyboard>>

---------------------------------------------------------------------------
(* setPowerStateGated after sleep. *)

\* Garbage is cleared from the port; the software queue is left alone.
ClearInput ==
    /\ step = "clearInput"
    /\ step' = "resetInterrupts"
    /\ input' = [input EXCEPT !.port = <<>>]
    /\ UNCHANGED <<manager, thread, target, power, requestQueue, drivers, commandByte,
                   reporting, user, keyboard>>

\* kCP_GetCommandByte, readDataPort(kDT_Keyboard), kCP_SetCommandByte.
UpdateCommandByte(set, clear) ==
    LET in == Arrive(input, Answer(commandByte)) IN
    /\ commandByte' = (ReadByte(in).bits \cup set) \ clear
    /\ input' = AfterRead(in)

\* resetPS2Controller: its first command byte update.
ResetInterrupts ==
    /\ step = "resetInterrupts"
    /\ step' = "resetDevices"
    /\ UpdateCommandByte({}, {"mouseIRQ", "mouseOff"})
    /\ UNCHANGED <<manager, thread, target, power, requestQueue, drivers, reporting,
                   user, keyboard>>

\* The rest of resetPS2Controller: two reads whose result is discarded, with
\* or without the keyboard's acknowledgement, and the port cleared.
ResetDevices ==
    /\ step = "resetDevices"
    /\ step' = "enablePort"
    /\ reporting' = FALSE
    /\ LET first == AfterRead(Arrive(input, Answer(commandByte))) IN
       \E acked \in BOOLEAN :
           LET second == IF acked THEN Arrive(first, Answer(AckBits)) ELSE first
               last   == IF Available(second) # <<>> THEN AfterRead(second) ELSE second
           IN  input' = [last EXCEPT !.port = <<>>]
    /\ UNCHANGED <<manager, thread, target, power, requestQueue, drivers, commandByte,
                   user, keyboard>>

EnablePort ==
    /\ step = "enablePort"
    /\ step' = "thaw"
    /\ UpdateCommandByte({"kbdIRQ", "mouseIRQ"}, {"kbdOff", "mouseOff"})
    /\ UNCHANGED <<manager, thread, target, power, requestQueue, drivers, reporting,
                   user, keyboard>>

\* Mutant: the request engine stays frozen while the drivers are enabled.
MutantThaw ==
    /\ step = "thaw"
    /\ step' = "enableKeyboard"
    /\ UNCHANGED <<manager, thread, target, power, requestQueue,
                   drivers, hardware, user, keyboard>>

Thaw ==
    /\ step = "thaw"
    /\ step' = "enableKeyboard"
    /\ hardwareOffline' = FALSE
    /\ UNCHANGED <<manager, thread, target, currentPowerState, requestQueue, drivers,
                   hardware, user, keyboard>>

\* Keyboard driver, kPS2C_EnableDevice: LEDs, a command byte update whose
\* retries use up what is left on the software queue and whose first request
\* drains the request queue, and the enable command, left on the queue.
EnableKeyboard ==
    /\ step = "enableKeyboard"
    /\ step' = "enableMouse"
    /\ told' = "Enable"
    /\ keyBitVector' = {}
    /\ reporting' = IF hardwareOffline THEN reporting ELSE Executed(requestQueue, reporting)
    /\ requestQueue' = <<"enable">>
    /\ commandByte' = (commandByte \cup {"kbdIRQ", "translate"}) \ {"kbdOff"}
    /\ input' = [input EXCEPT !.queue = <<>>]
    /\ isKeyboardEnabled' = TRUE
    /\ UNCHANGED <<manager, thread, target, power, user, mouseInstalled>>

\* Touchpad driver: reconnects with blocking requests.
EnableMouse ==
    /\ step = "enableMouse"
    /\ step' = "acknowledge"
    /\ IF mouseInstalled THEN DrainQueue(requestQueue)
                         ELSE UNCHANGED <<requestQueue, reporting>>
    /\ UNCHANGED <<manager, thread, target, power, drivers, commandByte, input, user, keyboard>>

\* Mutant: the acknowledgement is sent only if something changed.
MutantAcknowledge ==
    /\ step = "acknowledge"
    /\ step' = "idle"
    /\ awaiting' = (awaiting /\ currentPowerState = target)
    /\ currentPowerState' = target
    /\ retains' = retains - 1
    /\ UNCHANGED <<requested, changes, timeouts, pending, callouts, target,
                   hardwareOffline, requestQueue, drivers, hardware, user, keyboard>>

\* Mutant: the state is not recorded for a change that needs no action.
MutantForgetsState ==
    /\ step = "acknowledge"
    /\ step' = "idle"
    /\ currentPowerState' = IF target = "Doze" THEN currentPowerState ELSE target
    /\ awaiting' = FALSE
    /\ retains' = retains - 1
    /\ UNCHANGED <<requested, changes, timeouts, pending, callouts, target,
                   hardwareOffline, requestQueue, drivers, hardware, user, keyboard>>

\* The end of setPowerStateGated, and of setPowerStateCallout.
Acknowledge ==
    /\ step = "acknowledge"
    /\ step' = "idle"
    /\ currentPowerState' = target
    /\ awaiting' = FALSE
    /\ retains' = retains - 1
    /\ UNCHANGED <<requested, changes, timeouts, pending, callouts, target,
                   hardwareOffline, requestQueue, drivers, hardware, user, keyboard>>

---------------------------------------------------------------------------
GatedStep ==
    \/ DisableKeyboard \/ DisableMouse \/ Freeze
    \/ ClearInput \/ ResetInterrupts \/ ResetDevices \/ EnablePort
    \/ Thaw \/ EnableKeyboard \/ EnableMouse
    \/ Acknowledge

Next ==
    \/ \E s \in PowerState : SetPowerState(s)
    \/ AcknowledgementTimesOut
    \/ CallThread
    \/ \E i \in 1..Len(callouts) : EnterGate(i)
    \/ \E k \in Key : Stroke(k)
    \/ DispatchKey
    \/ ServeQueue
    \/ GatedStep

Spec == Init /\ [][Next]_vars

\* Threads with a call run, get the gate, and go on inside it; the work loop
\* serves the queue it was signalled for.
Fairness ==
    /\ WF_vars(CallThread)
    /\ WF_vars(\E i \in 1..Len(callouts) : EnterGate(i))
    /\ WF_vars(GatedStep)
    /\ WF_vars(ServeQueue)

FairSpec == Spec /\ Fairness

---------------------------------------------------------------------------
(* Properties. *)

\* What setPowerStateGated does next.
Step == {"idle", "disableKeyboard", "disableMouse", "freeze", "clearInput",
         "resetInterrupts", "resetDevices", "enablePort", "thaw",
         "enableKeyboard", "enableMouse", "acknowledge"}

\* The controller is referenced once for every call that is pending, waiting
\* for the gate or inside it: setPowerState takes one reference per call and
\* gives one back when thread_call_enter1 says that a call was pending, a
\* callout drops one.
ReferencePerCall ==
    retains = Len(pending) + Len(callouts) + (IF step = "idle" THEN 0 ELSE 1)

\* While nobody was given up on, a change that is acknowledged has been
\* carried out: the state is the one asked for, and the engine is frozen
\* exactly in sleep.
AcknowledgedIsDone ==
    ~awaiting /\ timeouts = 0 =>
        /\ currentPowerState = requested
        /\ hardwareOffline = (requested = "Sleep")

\* Outside the gate the engine is frozen exactly in sleep, however changes
\* overtake each other, and the drivers know.
FrozenInSleep ==
    step = "idle" =>
        /\ hardwareOffline = (currentPowerState = "Sleep")
        /\ hardwareOffline = (told = "Disable")

\* Drivers are disabled and enabled in turn: no driver is told to reconnect a
\* device that was never put to sleep.
ToldInTurn ==
    [][ /\ DisableKeyboard => told = "Enable"
        /\ EnableKeyboard => told = "Disable" ]_vars

\* The keyboard does not report keys once the engine is frozen: the keyboard
\* driver's disable command, which it leaves on the queue, gets out in time
\* when the touchpad driver's blocking request drains the queue after it.
SilentWhenFrozen == mouseInstalled /\ hardwareOffline => ~reporting

\* What setPowerStateGated says of the PS/2 port: all data received is
\* dropped.  The command byte that is written at wake-up is then the
\* controller's own; its system flag, which nobody changes, survives.
CommandByteKept == "system" \in commandByte

\* Every power change is acknowledged.
EveryChangeAcknowledged == awaiting ~> ~awaiting

\* Once power management settles on a working state, the keyboard reports
\* keys, although the command that enables it is asynchronous and may find a
\* frozen engine or an older disable command before it.
KeyboardComesBack ==
    <>[](requested # "Sleep" /\ ~awaiting /\ timeouts = 0) => <>[]reporting
=============================================================================
