---------------------------- MODULE PS2DataPort ----------------------------
(***************************************************************************)
(* The input path of ApplePS2Controller: how a byte that a device puts in  *)
(* the 8042 output buffer reaches either the interrupt routine of its      *)
(* driver or the read that the work loop is executing for a request.       *)
(*                                                                         *)
(* Two threads of control share the data port.  The keyboard interrupt     *)
(* handler reads the port at interrupt time and parks the byte on a        *)
(* bounded software queue (the DEBUGGER_SUPPORT build, the one shipped).   *)
(* The work loop drains that queue, and reads the port itself for mouse    *)
(* bytes and for every read a request makes.  Both serialise on            *)
(* _controllerLock, which also keeps interrupts off.                       *)
(*                                                                         *)
(* The module covers the powered-on state (_hardwareOffline false) with    *)
(* both drivers installed, and drivers that issue no request from their    *)
(* interrupt routine.                                                      *)
(***************************************************************************)
EXTENDS Naturals, Sequences, FiniteSets, SequencesExt

CONSTANTS
    Value,       \* what a byte can be, as far as a compare can tell
    QueueSize,   \* kKeyboardQueueSize
    PollLimit,   \* initial timeoutCounter of a read
    MaxSent,     \* bound: how many bytes each device sends
    MaxGiveUps,  \* bound: no read starts after so many have given up
    NoByte,        \* no byte: an empty port, the fake 0 of a timed out read
    AnyByte          \* stands for "no expected byte" in a read

Device == {"Keyboard", "Mouse"}

Other(d) == IF d = "Keyboard" THEN "Mouse" ELSE "Keyboard"

ASSUME DataPortAssumption ==
    /\ QueueSize \in Nat \ {0}
    /\ PollLimit \in Nat \ {0}
    /\ MaxSent \in [Device -> Nat]
    /\ MaxGiveUps \in Nat

\* A byte carries the stream it belongs to (the kMouseData status bit), its
\* position in that stream (bookkeeping only) and its value.
Byte == [dev : Device, id : Nat, val : Value]

ASSUME SentinelAssumption == NoByte \notin Byte /\ AnyByte \notin Value

HeldSlots == 3   \* firstByte, secondByte, thirdByte

VARIABLES
    port,          \* the 8042 output buffer: a Byte or NoByte
    irq,           \* interrupt lines latched and not yet taken
    sent,          \* how many bytes each device has sent
    keyboardQueue, \* _keyboardQueue
    signalled,     \* interrupt event sources with work for the work loop
    pc,            \* where the work loop is
    call,          \* the readDataPort call in progress
    result,        \* what the last readDataPort call returned
    delivered,     \* bytes handed to each driver's interrupt routine, in order
    returned,      \* bytes handed to the callers of readDataPort
    dropped,       \* bytes enqueueKeyboardData found no element for
    gaveUp         \* how many reads returned without the byte they wanted

vars == <<port, irq, sent, keyboardQueue, signalled, pc, call, result,
          delivered, returned, dropped, gaveUp>>

hardware == <<port, irq, sent>>
history  == <<delivered, returned, dropped, gaveUp>>

Call == [dev : Device, expected : Value \cup {AnyByte},
         held : Seq(Byte), timeoutCounter : Nat]

Init ==
    /\ port = NoByte
    /\ irq = {}
    /\ sent = [d \in Device |-> 0]
    /\ keyboardQueue = <<>>
    /\ signalled = {}
    /\ pc = "idle"
    /\ call = [dev |-> "Keyboard", expected |-> AnyByte, held |-> <<>>,
               timeoutCounter |-> 0]
    /\ result = NoByte
    /\ delivered = [d \in Device |-> <<>>]
    /\ returned = {}
    /\ dropped = {}
    /\ gaveUp = 0

---------------------------------------------------------------------------
(* The hardware.  The controller holds one byte for the host and inhibits  *)
(* both devices while it is unread; a new byte latches the line of its     *)
(* device (the interrupts are edge triggered).                             *)

DeviceSends(d, v) ==
    /\ port = NoByte
    /\ sent[d] < MaxSent[d]
    /\ port' = [dev |-> d, id |-> sent[d] + 1, val |-> v]
    /\ sent' = [sent EXCEPT ![d] = @ + 1]
    /\ irq' = irq \cup {d}
    /\ UNCHANGED <<keyboardQueue, signalled, pc, call, result, history>>

---------------------------------------------------------------------------
(* Interrupt time. *)

\* _controllerLock is held, interrupts off, while readDataPort polls.
LockHeld == pc = "poll"

MouseReady    == port # NoByte /\ port.dev = "Mouse"
KeyboardReady == port # NoByte /\ port.dev = "Keyboard"

\* Mutant: the interrupt is acknowledged and the work loop not woken.
MutantMouseHandler ==
    /\ "Mouse" \in irq
    /\ irq' = irq \ {"Mouse"}
    /\ UNCHANGED <<port, sent, keyboardQueue, signalled, pc, call, result, history>>

\* interruptHandlerMouse only wakes the work loop.
InterruptHandlerMouse ==
    /\ "Mouse" \in irq
    /\ irq' = irq \ {"Mouse"}
    /\ signalled' = signalled \cup {"Mouse"}
    /\ UNCHANGED <<port, sent, keyboardQueue, pc, call, result, history>>

\* enqueueKeyboardData: a full queue loses the byte without a trace.
EnqueueKeyboardData(b) ==
    IF Len(keyboardQueue) < QueueSize
    THEN keyboardQueue' = Append(keyboardQueue, b) /\ UNCHANGED dropped
    ELSE dropped' = dropped \cup {b} /\ UNCHANGED keyboardQueue

\* The handler found a keyboard byte: it reads the port and parks the byte.
HandlerParksByte ==
    /\ KeyboardReady
    /\ port' = NoByte
    /\ EnqueueKeyboardData(port)
    /\ signalled' = signalled \cup {"Keyboard"}

\* The handler found a mouse byte and hands over to the mouse handler.
HandlerFindsMouseByte ==
    /\ MouseReady
    /\ signalled' = signalled \cup {"Mouse"}
    /\ UNCHANGED <<port, keyboardQueue, dropped>>

\* A read emptied the port before the handler ran.
HandlerFindsNothing ==
    /\ port = NoByte
    /\ UNCHANGED <<port, keyboardQueue, signalled, dropped>>

InterruptHandlerKeyboard ==
    /\ "Keyboard" \in irq
    /\ ~LockHeld
    /\ irq' = irq \ {"Keyboard"}
    /\ HandlerParksByte \/ HandlerFindsMouseByte \/ HandlerFindsNothing
    /\ UNCHANGED <<sent, pc, call, result, delivered, returned, gaveUp>>

---------------------------------------------------------------------------
(* The work loop, interruptOccurred: one event source has work. *)

\* dispatchDriverInterrupt: the routine called is the one of deviceType,
\* whatever stream the byte came from.
DispatchDriverInterrupt(d, b) ==
    delivered' = [delivered EXCEPT ![d] = Append(@, b)]

InterruptOccurred ==
    /\ pc = "idle"
    /\ \E s \in signalled : signalled' = signalled \ {s}
    /\ pc' = "interrupt"
    /\ UNCHANGED <<hardware, keyboardQueue, call, result, history>>

\* Mutant: one byte per signal, as if the event source counted bytes.
MutantDispatchQueued ==
    /\ pc = "interrupt"
    /\ keyboardQueue # <<>>
    /\ DispatchDriverInterrupt("Keyboard", Head(keyboardQueue))
    /\ keyboardQueue' = Tail(keyboardQueue)
    /\ pc' = "idle"
    /\ UNCHANGED <<hardware, signalled, call, result, returned, dropped, gaveUp>>

\* dequeueKeyboardData under the lock, then the keyboard driver's routine.
DispatchQueued ==
    /\ pc = "interrupt"
    /\ keyboardQueue # <<>>
    /\ DispatchDriverInterrupt("Keyboard", Head(keyboardQueue))
    /\ keyboardQueue' = Tail(keyboardQueue)
    /\ UNCHANGED <<hardware, signalled, pc, call, result,
                   returned, dropped, gaveUp>>

\* Mutant: only kOutputReady is tested, not kMouseData.
MutantSeeMouseByte ==
    /\ pc = "interrupt"
    /\ keyboardQueue = <<>>
    /\ port # NoByte
    /\ pc' = "mouseReady"
    /\ UNCHANGED <<hardware, keyboardQueue, signalled, call, result, history>>

\* The status says mouse data; the lock is dropped before the port is read.
SeeMouseByte ==
    /\ pc = "interrupt"
    /\ keyboardQueue = <<>>
    /\ MouseReady
    /\ pc' = "mouseReady"
    /\ UNCHANGED <<hardware, keyboardQueue, signalled, call, result, history>>

\* inb(kDataPort), unlocked, dispatched as mouse data whatever it is.
DispatchMouseByte ==
    /\ pc = "mouseReady"
    /\ port # NoByte
    /\ DispatchDriverInterrupt("Mouse", port)
    /\ port' = NoByte
    /\ pc' = "interrupt"
    /\ UNCHANGED <<irq, sent, keyboardQueue, signalled, call, result,
                   returned, dropped, gaveUp>>

LeaveInterrupt ==
    /\ pc = "interrupt"
    /\ keyboardQueue = <<>>
    /\ ~MouseReady
    /\ pc' = "idle"
    /\ UNCHANGED <<hardware, keyboardQueue, signalled, call, result, history>>

---------------------------------------------------------------------------
(* The work loop, readDataPort: with expected = AnyByte the version without an *)
(* expected byte, otherwise the version that corrects out of order data.   *)

ReadDataPort(d, e) ==
    /\ pc = "idle"
    /\ gaveUp < MaxGiveUps
    /\ pc' = "read"
    /\ call' = [dev |-> d, expected |-> e, held |-> <<>>,
                timeoutCounter |-> PollLimit]
    /\ UNCHANGED <<hardware, keyboardQueue, signalled, result, history>>

Return(b) ==
    /\ pc' = "idle"
    /\ result' = b
    /\ returned' = IF b = NoByte THEN returned ELSE returned \cup {b}

Wanted(b) == call.expected \in {AnyByte, b.val}

\* Mutant: the bytes held are forgotten on a match.
MutantMatchForgets(b) ==
    /\ Wanted(b)
    /\ Return(b)
    /\ UNCHANGED <<call, delivered, gaveUp>>

\* Mutant: the bytes held are dispatched last one first.
MutantMatchReverses(b) ==
    /\ Wanted(b)
    /\ delivered' = [delivered EXCEPT ![call.dev] = @ \o Reverse(call.held)]
    /\ Return(b)
    /\ UNCHANGED <<call, gaveUp>>

\* The byte read is the one wanted: the bytes held go to the driver first.
AcceptMatch(b) ==
    /\ Wanted(b)
    /\ delivered' = [delivered EXCEPT ![call.dev] = @ \o call.held]
    /\ Return(b)
    /\ UNCHANGED <<call, gaveUp>>

\* Not the one wanted: put it aside and try again.
AcceptHold(b) ==
    /\ ~Wanted(b)
    /\ Len(call.held) < HeldSlots
    /\ call' = [call EXCEPT !.held = Append(@, b)]
    /\ pc' = "read"
    /\ UNCHANGED <<result, delivered, returned, gaveUp>>

\* Mutant: the bytes held are dispatched too, and the first still returned.
MutantFourthMismatch(b) ==
    /\ ~Wanted(b)
    /\ Len(call.held) = HeldSlots
    /\ delivered' = [delivered EXCEPT ![call.dev] = @ \o Append(call.held, b)]
    /\ Return(Head(call.held))
    /\ gaveUp' = gaveUp + 1
    /\ UNCHANGED call

\* A fourth mismatch is dispatched and the first byte held is returned.
AcceptFourthMismatch(b) ==
    /\ ~Wanted(b)
    /\ Len(call.held) = HeldSlots
    /\ DispatchDriverInterrupt(call.dev, b)
    /\ Return(Head(call.held))
    /\ gaveUp' = gaveUp + 1
    /\ UNCHANGED call

Accept(b) == AcceptMatch(b) \/ AcceptHold(b) \/ AcceptFourthMismatch(b)

\* A keyboard read takes from the software queue before the port.
ReadFromQueue ==
    /\ pc = "read"
    /\ call.dev = "Keyboard"
    /\ keyboardQueue # <<>>
    /\ keyboardQueue' = Tail(keyboardQueue)
    /\ Accept(Head(keyboardQueue))
    /\ UNCHANGED <<hardware, signalled, dropped>>

StartPolling ==
    /\ pc = "read"
    /\ call.dev = "Keyboard" => keyboardQueue = <<>>
    /\ pc' = "poll"
    /\ UNCHANGED <<hardware, keyboardQueue, signalled, call, result, history>>

\* Mutant: the time limit is not counted down.
MutantPollEmpty ==
    /\ pc = "poll"
    /\ call.timeoutCounter > 0
    /\ port = NoByte
    /\ UNCHANGED vars

\* One turn of the wait loop that finds the output buffer empty.
PollEmpty ==
    /\ pc = "poll"
    /\ call.timeoutCounter > 0
    /\ port = NoByte
    /\ call' = [call EXCEPT !.timeoutCounter = @ - 1]
    /\ UNCHANGED <<hardware, keyboardQueue, signalled, pc, result, history>>

\* The byte is of the stream asked for.
PollReads ==
    /\ pc = "poll"
    /\ call.timeoutCounter > 0
    /\ port # NoByte
    /\ port.dev = call.dev
    /\ port' = NoByte
    /\ Accept(port)
    /\ UNCHANGED <<irq, sent, keyboardQueue, signalled, dropped>>

\* The byte is of the other stream: its driver gets it at once.
PollDispatchesOther ==
    /\ pc = "poll"
    /\ call.timeoutCounter > 0
    /\ port # NoByte
    /\ port.dev # call.dev
    /\ DispatchDriverInterrupt(Other(call.dev), port)
    /\ port' = NoByte
    /\ pc' = "read"
    /\ UNCHANGED <<irq, sent, keyboardQueue, signalled, call, result,
                   returned, dropped, gaveUp>>

\* Time is up: the first byte held, if any, is returned in place of the one
\* wanted; a second or third byte held is forgotten.
PollTimesOut ==
    /\ pc = "poll"
    /\ call.timeoutCounter = 0
    /\ Return(IF call.held = <<>> THEN NoByte ELSE Head(call.held))
    /\ gaveUp' = gaveUp + 1
    /\ UNCHANGED <<hardware, keyboardQueue, signalled, call, delivered, dropped>>

---------------------------------------------------------------------------
InterruptTime == InterruptHandlerMouse \/ InterruptHandlerKeyboard

ServeInterrupt ==
    \/ InterruptOccurred
    \/ DispatchQueued
    \/ SeeMouseByte
    \/ DispatchMouseByte
    \/ LeaveInterrupt

ContinueRead ==
    \/ ReadFromQueue
    \/ StartPolling
    \/ PollEmpty
    \/ PollReads
    \/ PollDispatchesOther
    \/ PollTimesOut

Next ==
    \/ \E d \in Device, v \in Value : DeviceSends(d, v)
    \/ InterruptTime
    \/ ServeInterrupt
    \/ \E d \in Device, e \in Value \cup {AnyByte} : ReadDataPort(d, e)
    \/ ContinueRead

Spec == Init /\ [][Next]_vars

\* A latched interrupt is taken once interrupts are on (which is again and
\* again, not always: a read turns them off while it polls), the work loop
\* runs while an event source is signalled, however many reads requests make
\* it do in between, and a read it has begun goes on.
Fairness ==
    /\ SF_vars(InterruptHandlerKeyboard)
    /\ WF_vars(InterruptHandlerMouse)
    /\ SF_vars(InterruptOccurred)
    /\ WF_vars(ServeInterrupt /\ pc # "idle")
    /\ WF_vars(ContinueRead)

FairSpec == Spec /\ Fairness
---------------------------------------------------------------------------
(* Properties. *)

Control == {"idle", "interrupt", "mouseReady", "read", "poll"}

\* Type correctness: every variable stays in its domain, the software queue
\* within its storage and a call within its three slots.
TypeOK ==
    /\ port \in Byte \cup {NoByte}
    /\ irq \subseteq Device
    /\ sent \in [Device -> Nat]
    /\ keyboardQueue \in Seq(Byte) /\ Len(keyboardQueue) <= QueueSize
    /\ signalled \subseteq Device
    /\ pc \in Control
    /\ call \in Call /\ Len(call.held) <= HeldSlots
    /\ result \in Byte \cup {NoByte}
    /\ delivered \in [Device -> Seq(Byte)]
    /\ returned \subseteq Byte
    /\ dropped \subseteq Byte
    /\ gaveUp \in Nat

\* A byte reaches the interrupt routine of the device that sent it, although
\* interruptOccurred drops the lock between reading the status and reading
\* the port, and readDataPort dispatches what it held under the device of the
\* call.  A failure would feed key codes to the pointer driver.
RightDriver ==
    \A d \in Device : \A i \in 1..Len(delivered[d]) : delivered[d][i].dev = d

\* No wake-up is lost: whenever the work loop is idle with a byte parked on
\* the software queue or waiting in the port, an event source is signalled or
\* the interrupt that will signal it is still latched.  The keyboard handler,
\* the mouse handler, a drain in progress and the reads of requests all take
\* bytes from under each other; a byte left with nobody told would block both
\* devices for good.
NoLostWakeup ==
    pc = "idle" =>
        /\ keyboardQueue # <<>> => "Keyboard" \in signalled
        /\ MouseReady => "Mouse" \in irq \cup signalled
        /\ KeyboardReady => "Keyboard" \in irq

Waiting == IF port = NoByte THEN {} ELSE {port}
Held    == IF pc \in {"read", "poll"} THEN call.held ELSE <<>>

\* The bytes that are somewhere: every byte sent that was not forgotten.
Present ==
    UNION {Waiting, ToSet(keyboardQueue), ToSet(Held),
           ToSet(delivered["Keyboard"]), ToSet(delivered["Mouse"]),
           returned, dropped}

\* No byte is served twice: it is in one place only, so it is never both the
\* answer to a request and data for the driver, nor dispatched twice by the
\* correction of out of order data.
ExactlyOnce ==
    Cardinality(Present) =
        Cardinality(Waiting) + Len(keyboardQueue) + Len(Held)
        + Len(delivered["Keyboard"]) + Len(delivered["Mouse"])
        + Cardinality(returned) + Cardinality(dropped)

\* Only a read that gives up forgets bytes, and then at most two: the second
\* and third byte it had put aside.  All others are delivered, returned or
\* were dropped by the full software queue.
LossBounded ==
    sent["Keyboard"] + sent["Mouse"] <= Cardinality(Present) + 2 * gaveUp

InOrder(s) == \A i, j \in 1..Len(s) : i < j => s[i].id < s[j].id

\* The mouse driver gets its bytes in the order the device sent them, also
\* across reads that put bytes aside and dispatch them later: the touchpad
\* driver assembles packets from them.
MouseInOrder == InOrder(delivered["Mouse"])

\* Every byte a device sends leaves the port and the software queue: the
\* interrupt-driven path never wedges, whatever reads come in between.
AllTakenUp ==
    \A d \in Device : \A n \in 1..MaxSent[d] :
        sent[d] >= n ~>
            \A b \in Waiting \cup ToSet(keyboardQueue) : b.dev # d \/ b.id # n

\* Every read returns: foreign data and bytes put aside do not restart its
\* time limit.
ReadsReturn == pc \in {"read", "poll"} ~> pc = "idle"
=============================================================================
