---------------------------- MODULE PacketAssembly ----------------------------
(***************************************************************************)
(* How the touchpad driver puts packets together from single bytes, and    *)
(* how it gets back into step with the device: interruptOccurred, and the  *)
(* reconnection that it runs from inside itself.                           *)
(*                                                                         *)
(* A byte is its position in the device's packet; the two bytes of a reset *)
(* announcement have position 0.  Of its value only what the driver's      *)
(* tests for AA and 00 see is kept.  While a reconnection's requests wait  *)
(* for answers, bytes of the device are handed to interruptOccurred again, *)
(* or taken for answers and lost.                                          *)
(***************************************************************************)
EXTENDS Naturals, Sequences

CONSTANTS
    Pads,        \* touchpads that may be there, see the assumption
    MaxEvents,   \* bound: resets of the device, power cycles, other reconnections
    MaxLost,     \* bound: bytes that are lost
    MaxDepth,    \* bound: reconnections inside each other
    MaxAttempts  \* bound: reconnections because of unknown packets

ASSUME PacketAssemblyAssumption ==
    /\ Pads \subseteq [size : {3, 4, 6},
                       crc : BOOLEAN,       \* ELAN's packets with a checksum
                       corrects : BOOLEAN,  \* ELAN v4's corrected status packet
                       unknown : SUBSET {"counted", "tried"}]
    /\ {MaxEvents, MaxLost, MaxDepth, MaxAttempts} \subseteq Nat

Tries == 3

VARIABLES
    pad,      \* the touchpad; never changes
    dev,      \* what it is doing: reporting, in relative mode, next position
    left,     \* bytes of an announcement that it has still to send
    buffer,   \* _packetBuffer up to _packetByteCount
    mark,     \* the first byte of the buffer is kSC_Reset
    calls,    \* reconnections in progress, the outermost first
    tries,    \* _modeSetTries, eight bits
    attempts, \* reconnections because of unknown packets since the power change
    nested,   \* one of them began inside another since then
    torn,     \* why device and driver may be out of step, see PacketsInStep
    spent     \* used up of the bounds

vars == <<pad, dev, left, buffer, mark, calls, tries, attempts, nested, torn, spent>>

\* A device that was not put into its own mode reports like a mouse.
PacketSize == IF dev.relative THEN 3 ELSE pad.size

Following(pos) == (pos % PacketSize) + 1

Init ==
    /\ pad \in Pads
    /\ dev = [reporting |-> TRUE, relative |-> pad.size = 3, next |-> 1]
    /\ left = <<>> /\ buffer = <<>> /\ mark = FALSE /\ calls = <<>>
    /\ tries = Tries /\ attempts = 0 /\ nested = FALSE /\ torn = FALSE
    /\ spent = [events |-> 0, lost |-> 0]

---------------------------------------------------------------------------
(* interruptOccurred. *)

\* Reconnect_touchpad is entered.
Reconnecting(why) ==
    /\ Len(calls) < MaxDepth
    /\ calls' = Append(calls, [why |-> why, phase |-> "reset"])
    /\ torn' = (torn \/ calls # <<>>)

\* A zero where a packet should start, while nothing touches the pad.  Packets
\* with a checksum may start with it.
InvalidStart(value) == buffer = <<>> /\ value = "zero" /\ ~pad.crc

DropsInvalid(value) ==
    /\ InvalidStart(value)
    /\ UNCHANGED <<buffer, mark, calls, tries, attempts, nested, torn>>

\* AA 00 in the first two places.  Until the reconnection is over the two
\* bytes stay in the buffer.
IsAnnouncement(value) == Len(buffer) = 1 /\ mark /\ value = "zero"

TakesAnnouncement(pos, value) ==
    /\ IsAnnouncement(value)
    /\ buffer' = Append(buffer, pos)
    /\ Reconnecting("announced")
    /\ UNCHANGED <<mark, tries, attempts, nested>>

Keeps(pos, value) ==
    /\ ~IsAnnouncement(value) /\ Len(buffer) + 1 < pad.size
    /\ buffer' = Append(buffer, pos)
    /\ mark' = IF buffer = <<>> THEN value = "aa" ELSE mark
    /\ UNCHANGED <<calls, tries, attempts, nested, torn>>

Completes(value) == ~IsAnnouncement(value) /\ Len(buffer) + 1 = pad.size

\* A packet of the kind the decoder expects, or bytes that look like one, or a
\* driver that is told to ignore the touchpad.
TakesPacket(value) ==
    /\ Completes(value)
    /\ buffer' = <<>> /\ mark' = FALSE
    /\ UNCHANGED <<calls, tries, attempts, nested, torn>>

\* A status packet whose first byte went missing: the last byte is the first
\* one of the packet after it, and is kept.
CorrectsPacket(pos, value) ==
    /\ Completes(value) /\ pad.corrects /\ ~dev.relative
    /\ Append(buffer, pos) = [i \in 1..pad.size |-> Following(i)]
    /\ buffer' = <<1>> /\ mark' = FALSE
    /\ torn' = (torn /\ calls # <<>>)
    /\ UNCHANGED <<calls, tries, attempts, nested>>

\* A packet that the decoder does not know, which the device's own packets are
\* not.  Some ways of finding out count before they reconnect, some after.
Readable(bytes) == ~dev.relative /\ bytes = [i \in 1..pad.size |-> i]

\* Mutant: leaves all counting to what follows the attempt.
MutantUnknownPacket(pos, value) ==
    /\ Completes(value) /\ ~Readable(Append(buffer, pos))
    /\ buffer' = <<>> /\ mark' = FALSE
    /\ tries > 0 /\ attempts < MaxAttempts
    /\ \E why \in pad.unknown : Reconnecting(why)
    /\ attempts' = attempts + 1
    /\ nested' = (nested \/ calls # <<>>)
    /\ UNCHANGED tries

UnknownPacket(pos, value) ==
    /\ Completes(value) /\ ~Readable(Append(buffer, pos))
    /\ buffer' = <<>> /\ mark' = FALSE
    /\ tries > 0 /\ attempts < MaxAttempts
    /\ \E why \in pad.unknown :
           /\ Reconnecting(why)
           /\ tries' = IF why = "counted" THEN tries - 1 ELSE tries
    /\ attempts' = attempts + 1
    /\ nested' = (nested \/ calls # <<>>)

InterruptOccurred(pos, value) ==
    \/ DropsInvalid(value)
    \/ TakesAnnouncement(pos, value)
    \/ Keeps(pos, value)
    \/ TakesPacket(value)
    \/ CorrectsPacket(pos, value)
    \/ UnknownPacket(pos, value)

---------------------------------------------------------------------------
(* The device and the controller (external). *)

Advances == dev' = [dev EXCEPT !.next = Following(@)]

\* Only a packet with a checksum starts with a zero, none starts with AA.
Values(pos) ==
    IF pos # 1 THEN {"aa", "zero", "data"}
    ELSE IF pad.crc /\ ~dev.relative THEN {"zero", "data"} ELSE {"data"}

DeviceSends ==
    /\ dev.reporting /\ left = <<>>
    /\ \E value \in Values(dev.next) : InterruptOccurred(dev.next, value)
    /\ Advances
    /\ UNCHANGED <<pad, left, spent>>

Announces ==
    /\ left # <<>>
    /\ InterruptOccurred(0, Head(left))
    /\ left' = Tail(left)
    /\ UNCHANGED <<pad, dev, spent>>

\* A byte is taken for the answer to a request, or forgotten by a read that
\* gives up.
ByteLost ==
    /\ dev.reporting \/ left # <<>>
    /\ spent.lost < MaxLost
    /\ spent' = [spent EXCEPT !.lost = @ + 1]
    /\ IF left # <<>> THEN left' = Tail(left) /\ UNCHANGED dev
       ELSE Advances /\ UNCHANGED left
    /\ torn' = TRUE
    /\ UNCHANGED <<pad, buffer, mark, calls, tries, attempts, nested>>

Event == spent.events < MaxEvents /\ spent' = [spent EXCEPT !.events = @ + 1]

\* Of its own accord, perhaps in the middle of a packet or of a reconnection.
DeviceResets ==
    /\ Event
    /\ dev' = [reporting |-> FALSE, relative |-> TRUE, next |-> 1]
    /\ left' = <<"aa", "zero">>
    /\ torn' = (torn \/ buffer # <<>> \/ calls # <<>>)
    /\ UNCHANGED <<pad, buffer, mark, calls, tries, attempts, nested>>

---------------------------------------------------------------------------
(* Reconnect_touchpad. *)

\* setDevicePowerState, off and on again.  If the device does not take the
\* request to be silent, what it reports in sleep is lost.
PowerCycle ==
    /\ calls = <<>> /\ Event
    /\ \E silent \in BOOLEAN :
           /\ dev' = [dev EXCEPT !.reporting = @ /\ ~silent]
           /\ torn' = (torn \/ dev'.reporting)
    /\ tries' = Tries /\ attempts' = 0 /\ nested' = FALSE
    /\ calls' = <<[why |-> "power", phase |-> "reset"]>>
    /\ UNCHANGED <<pad, left, buffer, mark>>

\* From a pointer that stood still for too long, or by the keyboard's command.
OtherReconnection ==
    /\ Event
    /\ Reconnecting("other")
    /\ UNCHANGED <<pad, dev, left, buffer, mark, tries, attempts, nested>>

Current == calls[Len(calls)]
InPhase(phase) == calls # <<>> /\ Current.phase = phase
Goes(phase) == calls' = [calls EXCEPT ![Len(calls)].phase = phase]

\* resetMouse and Detect_touchpad: the device has taken SetDefaultsAndDisable.
DeviceStops ==
    /\ InPhase("reset")
    /\ Goes("setup")
    /\ dev' = [reporting |-> FALSE, relative |-> TRUE, next |-> 1]
    /\ left' = <<>>
    /\ UNCHANGED <<pad, buffer, mark, tries, attempts, nested, torn, spent>>

\* A silent device and an empty buffer are in step, unless a reconnection
\* around this one is yet to return.
Mended == ~dev.reporting /\ left = <<>> /\ Len(calls) = 1

\* Mutant: the fragment of a packet from before stays.
MutantClearBuffer ==
    /\ InPhase("setup")
    /\ Goes("cleared")
    /\ \E relative \in {TRUE, pad.size = 3} : dev' = [dev EXCEPT !.relative = relative]
    /\ torn' = ~Mended
    /\ UNCHANGED <<pad, left, buffer, mark, tries, attempts, nested, spent>>

\* initializeMouse and the vendor's set_absolute_mode went well; a pad that
\* detection took for a mouse stays in relative mode.
ClearBuffer ==
    /\ InPhase("setup")
    /\ Goes("cleared")
    /\ \E relative \in {TRUE, pad.size = 3} : dev' = [dev EXCEPT !.relative = relative]
    /\ buffer' = <<>> /\ mark' = FALSE
    /\ torn' = ~Mended
    /\ UNCHANGED <<pad, left, tries, attempts, nested, spent>>

\* What the caller does when Reconnect_touchpad returns.
Returned(bytes, first) ==
    /\ calls' = SubSeq(calls, 1, Len(calls) - 1)
    /\ IF Current.why = "announced" THEN buffer' = <<>> /\ mark' = FALSE
       ELSE buffer' = bytes /\ mark' = first
    /\ tries' = IF Current.why = "tried" THEN (tries + 255) % 256 ELSE tries

\* Enable_touchpad, whose request may fail.
Reconnected ==
    /\ InPhase("cleared")
    /\ \E taken \in BOOLEAN :
           dev' = IF taken THEN [dev EXCEPT !.reporting = TRUE, !.next = 1] ELSE dev
    /\ Returned(buffer, mark)
    /\ UNCHANGED <<pad, left, attempts, nested, torn, spent>>

\* An early return: the device could not be detected, initialized or set.
ReconnectionFails ==
    /\ InPhase("reset") \/ InPhase("setup")
    /\ Returned(buffer, mark)
    /\ UNCHANGED <<pad, dev, left, attempts, nested, torn, spent>>

Next ==
    \/ DeviceSends \/ Announces \/ ByteLost \/ DeviceResets
    \/ PowerCycle \/ OtherReconnection
    \/ DeviceStops \/ ClearBuffer \/ Reconnected \/ ReconnectionFails

Spec == Init /\ [][Next]_vars

---------------------------------------------------------------------------
(* Properties. *)

\* The buffer never holds a whole packet, whatever bytes come while an earlier
\* one is being handled: the test for a complete packet would never hold again.
BufferHolds == Len(buffer) < pad.size

\* Packets start where the device starts them: unless a byte was lost, the
\* device reset itself in the middle of a packet or of a reconnection, or one
\* reconnection ran inside another, the buffer holds exactly what the device has sent of its packet,
\* across sleep, resets and reconnections that fail half way.
PacketsInStep ==
    /\ BufferHolds
    /\ calls = <<>> /\ left = <<>> /\ dev.reporting /\ ~torn /\ pad.size % PacketSize = 0 =>
           /\ \A i \in 1..Len(buffer) : buffer[i] = ((i - 1) % PacketSize) + 1
           /\ dev.next = (Len(buffer) % PacketSize) + 1

\* Unknown packets start at most three reconnections between power changes,
\* also if unknown packets come while one is running, where they are counted
\* before.  What is counted after may then count below zero.
AttemptsBounded ==
    pad.unknown \subseteq {"counted"} \/ ~nested => attempts <= Tries

===============================================================================
