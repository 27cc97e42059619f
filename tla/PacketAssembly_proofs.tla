------------------------- MODULE PacketAssembly_proofs -------------------------
(***************************************************************************)
(* Proofs about PacketAssembly, for every pad and every bound.             *)
(* Reconnections because of unknown packets are bounded, however deep they *)
(* nest where they are counted before, and the driver's buffer stays in    *)
(* step with the device's packets.                                         *)
(***************************************************************************)
EXTENDS PacketAssembly, TLAPS

Call == [why : {"announced", "counted", "tried", "power", "other"},
         phase : {"reset", "setup", "cleared"}]

\* What the pad is never changes, and the calls have their shape.
Shapes ==
    /\ pad \in Pads
    /\ calls \in Seq(Call)
    /\ tries \in 0..255 /\ attempts \in Nat /\ nested \in BOOLEAN

\* A try is given up for each attempt: before it, where it is counted, or when
\* it returns.
Outstanding == calls # <<>> /\ calls[1].why = "tried"

CountedBefore ==
    pad.unknown \subseteq {"counted"} =>
        /\ tries + attempts = Tries
        /\ \A i \in 1..Len(calls) : calls[i].why # "tried"

\* Outside a nested one only the outermost call can be an attempt, and while a
\* try is outstanding there still is one to give up.
CountedAfter ==
    ~nested =>
        /\ Outstanding => tries + attempts = Tries + 1 /\ tries > 0
        /\ ~Outstanding => tries + attempts = Tries
        /\ \A i \in 2..Len(calls) : calls[i].why # "tried"

Counting == Shapes /\ CountedBefore /\ CountedAfter

\* The invariant is about these variables only.
counted == <<pad, calls, tries, attempts, nested>>

LEMMA CountingUnchanged ==
    ASSUME Counting, UNCHANGED counted
    PROVE  Counting'
BY DEF Counting, Shapes, CountedBefore, CountedAfter, Outstanding, Call, counted

\* A reconnection that is not an attempt may begin at any depth.
LEMMA CountingOther ==
    ASSUME Counting, NEW why \in {"announced", "other"},
           Reconnecting(why), UNCHANGED <<pad, tries, attempts, nested>>
    PROVE  Counting'
<1> DEFINE c == [why |-> why, phase |-> "reset"]
<1>1. c \in Call /\ c.why = why
  BY DEF Call
<1>2. calls' = Append(calls, c)
  BY DEF Reconnecting
<1> HIDE DEF c
<1>3. calls \in Seq(Call)
  BY DEF Counting, Shapes
<1>4. /\ calls' \in Seq(Call) /\ Len(calls') = Len(calls) + 1 /\ Len(calls) \in Nat
      /\ \A i \in 1..Len(calls) : calls'[i] = calls[i]
      /\ calls'[Len(calls) + 1] = c
  BY <1>1, <1>2, <1>3
<1>5. \A i \in 1..Len(calls') : calls'[i].why = "tried" => i <= Len(calls) /\ calls[i].why = "tried"
  BY <1>1, <1>4
<1>6. Outstanding' <=> Outstanding
  <2>1. calls' # <<>>
    BY <1>4
  <2>2. CASE calls = <<>>
    BY <1>4, <1>1, <2>2 DEF Outstanding
  <2>3. CASE calls # <<>>
    <3>1. 1 \in 1..Len(calls)
      BY <1>3, <2>3
    <3> QED BY <3>1, <1>4, <2>1, <2>3 DEF Outstanding
  <2> QED BY <2>2, <2>3
<1>7. Shapes'
  BY <1>4 DEF Counting, Shapes
<1>8. CountedBefore'
  BY <1>5, <1>4 DEF Counting, CountedBefore
<1>9. CountedAfter'
  <2>1. ASSUME ~nested PROVE \A i \in 2..Len(calls') : calls'[i].why # "tried"
    BY <2>1, <1>4, <1>1 DEF Counting, CountedAfter
  <2> QED BY <1>6, <2>1 DEF Counting, CountedAfter
<1> QED BY <1>7, <1>8, <1>9 DEF Counting

\* An attempt: a try is given up before it, or is outstanding.
LEMMA CountingAttempt ==
    ASSUME Counting, PacketAssemblyAssumption, NEW pos, NEW value, UnknownPacket(pos, value), UNCHANGED pad
    PROVE  Counting'
<1> PICK why \in pad.unknown : /\ Reconnecting(why)
                               /\ tries' = IF why = "counted" THEN tries - 1 ELSE tries
  BY DEF UnknownPacket
<1> DEFINE c == [why |-> why, phase |-> "reset"]
<1>0. why \in {"counted", "tried"}
  BY DEF PacketAssemblyAssumption, Counting, Shapes
<1>1. c \in Call /\ c.why = why
  BY <1>0 DEF Call
<1>2. calls' = Append(calls, c)
  BY DEF Reconnecting
<1> HIDE DEF c
<1>3. calls \in Seq(Call) /\ tries \in 0..255 /\ tries > 0 /\ attempts \in Nat
      /\ attempts' = attempts + 1 /\ nested' = (nested \/ calls # <<>>) /\ nested \in BOOLEAN
  BY DEF Counting, Shapes, UnknownPacket
<1>4. /\ calls' \in Seq(Call) /\ Len(calls') = Len(calls) + 1 /\ Len(calls) \in Nat
      /\ \A i \in 1..Len(calls) : calls'[i] = calls[i]
      /\ calls'[Len(calls) + 1] = c
  BY <1>1, <1>2, <1>3
<1>5. Shapes'
  <2>1. tries' \in 0..255
    BY <1>3
  <2>2. nested' \in BOOLEAN
    BY <1>3
  <2> QED BY <1>3, <1>4, <2>1, <2>2 DEF Counting, Shapes
<1>6. CountedBefore'
  <2> SUFFICES ASSUME pad.unknown \subseteq {"counted"}
               PROVE  /\ tries' + attempts' = Tries
                      /\ \A i \in 1..Len(calls') : calls'[i].why # "tried"
    BY DEF CountedBefore
  <2>1. why = "counted"
    OBVIOUS
  <2>2. tries' = tries - 1 /\ tries + attempts = Tries
    BY <2>1 DEF Counting, CountedBefore
  <2>3. tries' + attempts' = Tries
    BY <2>2, <1>3 DEF Tries
  <2>4. \A i \in 1..Len(calls) : calls[i].why # "tried"
    BY DEF Counting, CountedBefore
  <2> QED BY <2>1, <2>3, <2>4, <1>1, <1>4
<1>7. CountedAfter'
  <2> SUFFICES ASSUME ~nested'
               PROVE  /\ Outstanding' => tries' + attempts' = Tries + 1 /\ tries' > 0
                      /\ ~Outstanding' => tries' + attempts' = Tries
                      /\ \A i \in 2..Len(calls') : calls'[i].why # "tried"
    BY DEF CountedAfter
  <2>1. ~nested /\ calls = <<>>
    BY <1>3
  <2>2. Len(calls) = 0 /\ calls'[1] = c /\ Len(calls') = 1 /\ calls' # <<>>
    <3>1. Len(calls) = 0
      BY <2>1
    <3>2. Len(calls) + 1 = 1
      BY <3>1
    <3>3. calls'[1] = c /\ Len(calls') = 1
      BY <3>2, <1>4
    <3>4. calls' # <<>>
      BY <1>2, <1>3
    <3> QED BY <3>1, <3>3, <3>4
  <2>3. tries + attempts = Tries
    BY <2>1 DEF Counting, CountedAfter, Outstanding
  <2>4. CASE why = "counted"
    <3>1. ~Outstanding' /\ tries' = tries - 1
      BY <2>4, <2>2, <1>1 DEF Outstanding
    <3>2. tries' + attempts' = Tries
      BY <3>1, <2>3, <1>3 DEF Tries
    <3> QED BY <3>1, <3>2, <2>2
  <2>5. CASE why = "tried"
    <3>1. Outstanding' /\ tries' = tries
      BY <2>5, <2>2, <1>1 DEF Outstanding
    <3>2. tries' + attempts' = Tries + 1 /\ tries' > 0
      BY <3>1, <2>3, <1>3 DEF Tries
    <3> QED BY <3>1, <3>2, <2>2
  <2> QED BY <1>0, <2>4, <2>5
<1> QED BY <1>5, <1>6, <1>7 DEF Counting

\* A reconnection goes on without counting anything.
LEMMA CountingPhase ==
    ASSUME Counting, calls # <<>>, NEW phase \in {"setup", "cleared"}, Goes(phase),
           UNCHANGED <<pad, tries, attempts, nested>>
    PROVE  Counting'
<1> DEFINE c == [calls[Len(calls)] EXCEPT !.phase = phase]
<1>1. calls \in Seq(Call) /\ Len(calls) \in 1..Len(calls)
  BY DEF Counting, Shapes
<1>a. calls[Len(calls)] \in Call
  BY <1>1
<1>b. c \in Call /\ c.why = calls[Len(calls)].why
  BY <1>a DEF Call
<1>c. calls' = [calls EXCEPT ![Len(calls)] = c]
  BY DEF Goes
<1> HIDE DEF c
<1>2. /\ calls' \in Seq(Call) /\ Len(calls') = Len(calls)
      /\ \A i \in 1..Len(calls) : calls'[i].why = calls[i].why
  BY <1>1, <1>b, <1>c
<1>3. calls' # <<>> /\ (Outstanding' <=> Outstanding)
  BY <1>1, <1>2 DEF Outstanding
<1>4. Shapes'
  BY <1>2 DEF Counting, Shapes
<1>5. CountedBefore'
  BY <1>2 DEF Counting, CountedBefore
<1>6. CountedAfter'
  BY <1>1, <1>2, <1>3 DEF Counting, CountedAfter
<1> QED BY <1>4, <1>5, <1>6 DEF Counting

\* One less, in eight bits.
LEMMA OneLess ==
    ASSUME NEW t \in 0..255
    PROVE  (t + 255) % 256 \in 0..255 /\ (t > 0 => (t + 255) % 256 = t - 1)
<1>1. CASE t = 0
  BY <1>1
<1>2. CASE t > 0
  <2>1. (t + 255) % 256 = t - 1
    BY <1>2
  <2> QED BY <2>1, <1>2
<1> QED BY <1>1, <1>2

\* A reconnection returns; one that was tried gives up its try.
LEMMA CountingReturn ==
    ASSUME Counting, calls # <<>>, NEW bytes, NEW first, Returned(bytes, first),
           UNCHANGED <<pad, attempts, nested>>
    PROVE  Counting'
<1> DEFINE n == Len(calls)
<1>1. calls \in Seq(Call) /\ n \in Nat /\ n >= 1 /\ tries \in 0..255 /\ attempts \in Nat
  BY DEF Counting, Shapes
<1>2. calls' = SubSeq(calls, 1, n - 1)
  BY DEF Returned
<1>3. /\ calls' \in Seq(Call) /\ Len(calls') = n - 1
      /\ \A i \in 1..(n - 1) : calls'[i] = calls[i]
  <2>1. n - 1 \in 0..n
    BY <1>1
  <2>2. \A i \in 1..(n - 1) : calls[i] \in Call
    BY <1>1
  <2>3. calls' = [i \in 1..(n - 1) |-> calls[i]]
    BY <1>1, <1>2
  <2> HIDE DEF n
  <2> QED BY <2>1, <2>2, <2>3, <1>1
<1>4. /\ calls[n].why = "tried" => tries' = (tries + 255) % 256
      /\ calls[n].why # "tried" => tries' = tries
  BY DEF Returned, Current
<1>5. tries' \in 0..255
  <2> HIDE DEF n
  <2>1. CASE calls[n].why = "tried"
    BY <1>1, <1>4, <2>1, OneLess
  <2>2. CASE calls[n].why # "tried"
    BY <1>1, <1>4, <2>2
  <2> QED BY <2>1, <2>2
<1>6. Shapes'
  BY <1>3, <1>5 DEF Counting, Shapes
<1>7. CountedBefore'
  <2>1. ASSUME pad.unknown \subseteq {"counted"}
        PROVE  tries' = tries /\ tries + attempts = Tries
               /\ \A i \in 1..n : calls[i].why # "tried"
    BY <2>1, <1>1, <1>4 DEF Counting, CountedBefore
  <2> QED BY <2>1, <1>1, <1>3 DEF CountedBefore
<1>8. CountedAfter'
  <2> SUFFICES ASSUME ~nested
               PROVE  /\ Outstanding' => tries' + attempts = Tries + 1 /\ tries' > 0
                      /\ ~Outstanding' => tries' + attempts = Tries
                      /\ \A i \in 2..Len(calls') : calls'[i].why # "tried"
    BY DEF CountedAfter
  <2>1. \A i \in 2..n : calls[i].why # "tried"
    BY DEF Counting, CountedAfter
  <2>2. CASE n > 1
    <3>1. calls[n].why # "tried" /\ tries' = tries
      BY <2>1, <2>2, <1>1, <1>4
    <3>2. calls' # <<>> /\ calls'[1] = calls[1]
      BY <2>2, <1>1, <1>3
    <3>3. Outstanding' <=> Outstanding
      BY <3>2 DEF Outstanding
    <3> QED BY <3>1, <3>3, <2>1, <1>1, <1>3 DEF Counting, CountedAfter
  <2>3. CASE n = 1
    <3>1. calls' = <<>> /\ ~Outstanding' /\ Len(calls') = 0
      BY <2>3, <1>3 DEF Outstanding
    <3>2. CASE calls[n].why = "tried"
      <4>1. tries + attempts = Tries + 1 /\ tries > 0
        BY <3>2, <2>3 DEF Counting, CountedAfter, Outstanding
      <4>2. tries' = tries - 1
        BY <4>1, <3>2, <1>1, <1>4, OneLess
      <4>3. tries' + attempts = Tries
        BY <4>1, <4>2, <1>1 DEF Tries
      <4> QED BY <4>3, <3>1
    <3>3. CASE calls[n].why # "tried"
      <4>1. tries + attempts = Tries /\ tries' = tries
        BY <3>3, <2>3, <1>4 DEF Counting, CountedAfter, Outstanding
      <4> QED BY <4>1, <3>1
    <3> QED BY <3>2, <3>3
  <2> QED BY <1>1, <2>2, <2>3
<1> QED BY <1>6, <1>7, <1>8 DEF Counting

LEMMA CountingInterrupt ==
    ASSUME Counting, PacketAssemblyAssumption, NEW pos, NEW value,
           InterruptOccurred(pos, value), UNCHANGED pad
    PROVE  Counting'
<1>1. CASE DropsInvalid(value)
  BY <1>1, CountingUnchanged DEF DropsInvalid, counted
<1>2. CASE TakesAnnouncement(pos, value)
  BY <1>2, CountingOther DEF TakesAnnouncement
<1>3. CASE Keeps(pos, value)
  BY <1>3, CountingUnchanged DEF Keeps, counted
<1>4. CASE TakesPacket(value)
  BY <1>4, CountingUnchanged DEF TakesPacket, counted
<1>5. CASE CorrectsPacket(pos, value)
  BY <1>5, CountingUnchanged DEF CorrectsPacket, counted
<1>6. CASE UnknownPacket(pos, value)
  BY <1>6, CountingAttempt
<1> QED BY <1>1, <1>2, <1>3, <1>4, <1>5, <1>6 DEF InterruptOccurred

LEMMA CountingInit == ASSUME Init PROVE Counting
<1>1. calls = <<>> /\ calls \in Seq(Call) /\ Len(calls) = 0
  <2>1. <<>> \in Seq(Call)
    OBVIOUS
  <2> QED BY <2>1 DEF Init
<1>2. pad \in Pads /\ tries = 3 /\ attempts = 0 /\ nested = FALSE /\ nested \in BOOLEAN
  BY DEF Init, Tries
<1>3. Shapes
  BY <1>1, <1>2 DEF Shapes
<1>4. CountedBefore
  BY <1>1, <1>2 DEF CountedBefore, Tries
<1>5. CountedAfter
  BY <1>1, <1>2 DEF CountedAfter, Outstanding, Tries
<1> QED BY <1>3, <1>4, <1>5 DEF Counting

LEMMA CountingPower == ASSUME PowerCycle, Counting PROVE Counting'
<1> DEFINE c == [why |-> "power", phase |-> "reset"]
<1>1. c \in Call /\ c.why # "tried"
  BY DEF Call
<1>2. calls' = <<c>>
  BY DEF PowerCycle
<1> HIDE DEF c
<1>3. calls' \in Seq(Call) /\ Len(calls') = 1 /\ calls'[1] = c
  BY <1>1, <1>2
<1>4. ~Outstanding'
  BY <1>1, <1>3 DEF Outstanding
<1>5. pad' = pad /\ tries' = 3 /\ attempts' = 0 /\ nested' = FALSE
  BY DEF PowerCycle, Tries
<1>6. Shapes'
  <2>1. nested' \in BOOLEAN
    BY <1>5
  <2> QED BY <1>3, <1>5, <2>1 DEF Counting, Shapes
<1>7. CountedBefore'
  BY <1>1, <1>3, <1>5 DEF CountedBefore, Tries
<1>8. CountedAfter'
  BY <1>3, <1>4, <1>5 DEF CountedAfter, Tries
<1> QED BY <1>6, <1>7, <1>8 DEF Counting

LEMMA CountingNext ==
    ASSUME PacketAssemblyAssumption, Counting, [Next]_vars
    PROVE  Counting'
<1>1. CASE DeviceSends
  <2>1. PICK value \in Values(dev.next) : InterruptOccurred(dev.next, value)
    BY <1>1 DEF DeviceSends
  <2> QED BY <1>1, <2>1, CountingInterrupt DEF DeviceSends
<1>2. CASE Announces
  BY <1>2, CountingInterrupt DEF Announces
<1>3. CASE ByteLost
  BY <1>3, CountingUnchanged DEF ByteLost, counted
<1>4. CASE DeviceResets
  BY <1>4, CountingUnchanged DEF DeviceResets, counted
<1>5. CASE PowerCycle
  BY <1>5, CountingPower
<1>6. CASE OtherReconnection
  BY <1>6, CountingOther DEF OtherReconnection
<1>7. CASE DeviceStops
  BY <1>7, CountingPhase DEF DeviceStops, InPhase
<1>8. CASE ClearBuffer
  BY <1>8, CountingPhase DEF ClearBuffer, InPhase
<1>9. CASE Reconnected
  BY <1>9, CountingReturn DEF Reconnected, InPhase
<1>10. CASE ReconnectionFails
  BY <1>10, CountingReturn DEF ReconnectionFails, InPhase
<1>11. CASE UNCHANGED vars
  BY <1>11, CountingUnchanged DEF vars, counted
<1> QED BY <1>1, <1>2, <1>3, <1>4, <1>5, <1>6, <1>7, <1>8, <1>9, <1>10, <1>11 DEF Next

LEMMA CountingBounds == ASSUME Counting PROVE AttemptsBounded
<1>1. tries \in 0..255 /\ attempts \in Nat
  BY DEF Counting, Shapes
<1>2. ASSUME pad.unknown \subseteq {"counted"} PROVE attempts <= Tries
  BY <1>1, <1>2 DEF Counting, CountedBefore, Tries
<1>3. ASSUME ~nested PROVE attempts <= Tries
  BY <1>1, <1>3 DEF Counting, CountedAfter, Tries
<1> QED BY <1>2, <1>3 DEF AttemptsBounded

\* Unknown packets start at most three reconnections between power changes
\* (_modeSetTries): for every pad whose ways of finding out count before they
\* reconnect, and for every pad as long as no attempt began inside another.
THEOREM ReconnectionsAreBounded == Spec => []AttemptsBounded
<1>1. Init => Counting
  BY CountingInit
<1>2. Counting /\ [Next]_vars => Counting'
  BY CountingNext, PacketAssemblyAssumption
<1>3. Counting => AttemptsBounded
  BY CountingBounds
<1> QED BY <1>1, <1>2, <1>3, PTL DEF Spec

---------------------------------------------------------------------------
(* Staying in step: PacketsInStep. *)

Device == [reporting : BOOLEAN, relative : BOOLEAN, next : 1..6]

StreamShapes ==
    /\ pad \in Pads /\ pad.size \in {3, 4, 6}
    /\ dev \in Device
    /\ buffer \in Seq(Nat) /\ Len(buffer) < pad.size
    /\ mark \in BOOLEAN /\ torn \in BOOLEAN
    /\ calls \in Seq(Call)

\* The driver's packets are the device's, or several of them.
Whole == pad.size % PacketSize = 0

\* The buffer is what the device has sent of its packet; no packet starts with
\* what an announcement starts with.
Aligned ==
    /\ \A i \in 1..Len(buffer) : buffer[i] = ((i - 1) % PacketSize) + 1
    /\ dev.next = (Len(buffer) % PacketSize) + 1
    /\ ~mark

\* A device that reports is only ever met by a reconnection that has yet to
\* silence it, and one that was announced has silenced itself.
Reporting ==
    /\ left = <<>>
    /\ calls # <<>> => calls[1].phase = "reset"
    /\ Whole => Aligned /\ (calls # <<>> => calls[1].why # "announced")

\* What Enable_touchpad finds.
Silenced == ~dev.reporting /\ left = <<>> /\ buffer = <<>> /\ ~mark

InStep ==
    ~torn =>
        /\ Len(calls) <= 1
        /\ calls # <<>> /\ calls[1].phase = "cleared" => Silenced
        /\ dev.reporting => Reporting

Sync == StreamShapes /\ InStep

---------------------------------------------------------------------------
(* Positions in a packet. *)

LEMMA NextPosition ==
    ASSUME NEW size \in {3, 4, 6}, NEW n \in Nat
    PROVE  ((n % size) + 1) % size = (n + 1) % size
<1>1. ((n % 3) + 1) % 3 = (n + 1) % 3 OBVIOUS
<1>2. ((n % 4) + 1) % 4 = (n + 1) % 4 OBVIOUS
<1>3. ((n % 6) + 1) % 6 = (n + 1) % 6 OBVIOUS
<1> QED BY <1>1, <1>2, <1>3

LEMMA One == ASSUME NEW n \in Nat, n # 0, n <= 1 PROVE n = 1
OBVIOUS

LEMMA Zero == ASSUME NEW size \in {3, 4, 6} PROVE (0 % size) + 1 = 1
<1>1. 0 % 3 = 0 /\ 0 % 4 = 0 /\ 0 % 6 = 0 OBVIOUS
<1> QED BY <1>1

LEMMA PacketSizes == ASSUME StreamShapes PROVE PacketSize \in {3, 4, 6}
BY DEF StreamShapes, PacketSize

LEMMA Positions ==
    ASSUME NEW size \in {3, 4, 6}, NEW pos \in 0..6
    PROVE  (pos % size) + 1 \in 1..6
<1>1. (pos % 3) + 1 \in 1..6 OBVIOUS
<1>2. (pos % 4) + 1 \in 1..6 OBVIOUS
<1>3. (pos % 6) + 1 \in 1..6 OBVIOUS
<1> QED BY <1>1, <1>2, <1>3

\* One more byte of the device's packet.
LEMMA AlignedGrows ==
    ASSUME StreamShapes, Aligned, Advances, UNCHANGED pad, ~mark',
           buffer' = Append(buffer, dev.next)
    PROVE  Aligned'
<1>1. PacketSize \in {3, 4, 6} /\ PacketSize' = PacketSize
    BY PacketSizes DEF StreamShapes, Device, Advances, PacketSize
<1>2. /\ Len(buffer') = Len(buffer) + 1 /\ Len(buffer) \in Nat
      /\ \A i \in 1..Len(buffer) : buffer'[i] = buffer[i]
      /\ buffer'[Len(buffer) + 1] = dev.next
    BY DEF StreamShapes, Device
<1>3. dev'.next = (dev.next % PacketSize) + 1
    BY DEF Advances, Following, StreamShapes, Device
<1>4. dev'.next = (Len(buffer') % PacketSize) + 1
    BY <1>1, <1>2, <1>3, NextPosition DEF Aligned
<1>5. \A i \in 1..Len(buffer') : buffer'[i] = ((i - 1) % PacketSize) + 1
    <2> SUFFICES ASSUME NEW i \in 1..Len(buffer') PROVE buffer'[i] = ((i - 1) % PacketSize) + 1
        OBVIOUS
    <2>1. CASE i \in 1..Len(buffer)
        BY <2>1, <1>2 DEF Aligned
    <2>2. CASE i = Len(buffer) + 1
        BY <2>2, <1>2 DEF Aligned
    <2> QED BY <1>2, <2>1, <2>2
<1> QED BY <1>1, <1>4, <1>5 DEF Aligned

\* The last byte of a packet, taken or not.
LEMMA AlignedAfterPacket ==
    ASSUME StreamShapes, Whole, Aligned, Advances, UNCHANGED pad, ~mark',
           Len(buffer) + 1 = pad.size, buffer' = <<>>
    PROVE  Aligned'
<1>1. PacketSize \in {3, 4, 6} /\ PacketSize' = PacketSize
    BY PacketSizes DEF StreamShapes, Device, Advances, PacketSize
<1>2. Len(buffer') = 0 /\ Len(buffer) \in Nat
    BY DEF StreamShapes
<1>3. dev'.next = (dev.next % PacketSize) + 1
    BY DEF Advances, Following, StreamShapes, Device
<1>4. dev'.next = ((Len(buffer) + 1) % PacketSize) + 1
    BY <1>1, <1>2, <1>3, NextPosition DEF Aligned
<1>5. dev'.next = 1
    BY <1>4 DEF Whole
<1>6. (Len(buffer') % PacketSize) + 1 = 1
    <2>1. 0 % 3 = 0 /\ 0 % 4 = 0 /\ 0 % 6 = 0 OBVIOUS
    <2> QED BY <2>1, <1>1, <1>2
<1> QED BY <1>1, <1>2, <1>5, <1>6 DEF Aligned

---------------------------------------------------------------------------
(* interruptOccurred *)

LEMMA ReconnectingShapes ==
    ASSUME StreamShapes, NEW why \in {"announced", "counted", "tried", "power", "other"}, Reconnecting(why)
    PROVE  /\ calls' \in Seq(Call) /\ torn' \in BOOLEAN
           /\ calls = <<>> => calls'[1].why = why /\ calls'[1].phase = "reset" /\ Len(calls') = 1
           /\ calls # <<>> => torn'
           /\ calls = <<>> => torn' = torn
<1> DEFINE c == [why |-> why, phase |-> "reset"]
<1>1. c \in Call /\ c.why = why /\ c.phase = "reset" BY DEF Call
<1>2. calls' = Append(calls, c) /\ torn' = (torn \/ calls # <<>>) BY DEF Reconnecting
<1>3. calls \in Seq(Call) /\ torn \in BOOLEAN BY DEF StreamShapes
<1> HIDE DEF c
<1>4. calls' \in Seq(Call) BY <1>1, <1>2, <1>3
<1>5. calls = <<>> => calls'[1] = c /\ Len(calls') = 1 BY <1>1, <1>2, <1>3
<1>6. torn' \in BOOLEAN /\ (calls # <<>> => torn') /\ (calls = <<>> => torn' = torn) BY <1>2, <1>3
<1> QED BY <1>1, <1>4, <1>5, <1>6

LEMMA InterruptShapes ==
    ASSUME PacketAssemblyAssumption, StreamShapes, NEW pos \in Nat, NEW value, InterruptOccurred(pos, value)
    PROVE  /\ buffer' \in Seq(Nat) /\ Len(buffer') < pad.size
           /\ mark' \in BOOLEAN /\ torn' \in BOOLEAN /\ calls' \in Seq(Call)
<1>0. /\ pad.size \in {3, 4, 6} /\ buffer \in Seq(Nat) /\ Len(buffer) \in Nat /\ Len(buffer) < pad.size
      /\ mark \in BOOLEAN /\ torn \in BOOLEAN /\ calls \in Seq(Call)
      /\ <<>> \in Seq(Nat) /\ Len(<<>>) = 0 /\ <<1>> \in Seq(Nat) /\ Len(<<1>>) = 1
      /\ Append(buffer, pos) \in Seq(Nat) /\ Len(Append(buffer, pos)) = Len(buffer) + 1
    BY DEF StreamShapes
<1>1. CASE DropsInvalid(value)
    BY <1>0, <1>1 DEF DropsInvalid
<1>2. CASE TakesAnnouncement(pos, value)
    <2>1. calls' \in Seq(Call) /\ torn' \in BOOLEAN
        BY <1>2, ReconnectingShapes DEF TakesAnnouncement
    <2>2. buffer' \in Seq(Nat) /\ Len(buffer') < pad.size
        BY <1>0, <1>2 DEF TakesAnnouncement, IsAnnouncement
    <2>3. mark' = mark
        BY <1>2 DEF TakesAnnouncement
    <2> QED BY <1>0, <2>1, <2>2, <2>3
<1>3. CASE Keeps(pos, value)
    <2>1. mark' \in BOOLEAN
        BY <1>0, <1>3 DEF Keeps
    <2>2. buffer' \in Seq(Nat) /\ Len(buffer') < pad.size
        BY <1>0, <1>3 DEF Keeps
    <2>3. UNCHANGED <<calls, torn>>
        BY <1>3 DEF Keeps
    <2> QED BY <1>0, <2>1, <2>2, <2>3
<1>4. CASE TakesPacket(value)
    <2>1. buffer' = <<>> /\ mark' = FALSE /\ UNCHANGED <<calls, torn>>
        BY <1>4 DEF TakesPacket
    <2>2. buffer' \in Seq(Nat) /\ Len(buffer') < pad.size
        BY <1>0, <2>1
    <2> QED BY <1>0, <2>1, <2>2
<1>5. CASE CorrectsPacket(pos, value)
    <2>1. buffer' = <<1>> /\ mark' = FALSE /\ torn' = (torn /\ calls # <<>>) /\ calls' = calls
        BY <1>5 DEF CorrectsPacket
    <2>2. buffer' \in Seq(Nat) /\ Len(buffer') < pad.size
        BY <1>0, <2>1
    <2>3. mark' \in BOOLEAN /\ torn' \in BOOLEAN
        BY <2>1
    <2> QED BY <1>0, <2>1, <2>2, <2>3
<1>6. CASE UnknownPacket(pos, value)
    <2>1. PICK why \in pad.unknown : Reconnecting(why)
        BY <1>6 DEF UnknownPacket
    <2>2. why \in {"counted", "tried"}
        BY DEF PacketAssemblyAssumption, StreamShapes
    <2>3. calls' \in Seq(Call) /\ torn' \in BOOLEAN
        BY <2>1, <2>2, ReconnectingShapes
    <2>4. buffer' = <<>> /\ mark' = FALSE
        BY <1>6 DEF UnknownPacket
    <2>5. buffer' \in Seq(Nat) /\ Len(buffer') < pad.size
        BY <1>0, <2>4
    <2> QED BY <2>3, <2>4, <2>5
<1> QED BY <1>1, <1>2, <1>3, <1>4, <1>5, <1>6 DEF InterruptOccurred

\* A byte of a device that reports and is in step.
LEMMA BytesInStep ==
    ASSUME PacketAssemblyAssumption, StreamShapes, Reporting, Len(calls) <= 1, ~torn, ~torn',
           NEW value \in Values(dev.next), InterruptOccurred(dev.next, value),
           Advances, UNCHANGED <<pad, left>>
    PROVE  Len(calls') <= 1 /\ Reporting'
<1>1. dev.next \in 1..6 /\ calls \in Seq(Call) /\ left' = <<>> /\ (Whole' <=> Whole)
    BY DEF StreamShapes, Device, Reporting, Advances, Whole, PacketSize
<1>2. Whole /\ buffer = <<>> => dev.next = 1 /\ value # "aa" /\ (value = "zero" => pad.crc)
    <2> SUFFICES ASSUME Whole, buffer = <<>>
                 PROVE  dev.next = 1 /\ value # "aa" /\ (value = "zero" => pad.crc)
        OBVIOUS
    <2>1. 0 % 3 = 0 /\ 0 % 4 = 0 /\ 0 % 6 = 0 OBVIOUS
    <2>2. dev.next = 1 BY <2>1, PacketSizes DEF Reporting, Aligned
    <2> QED BY <2>2 DEF Values
<1>3. CASE DropsInvalid(value)
    BY <1>1, <1>2, <1>3 DEF DropsInvalid, InvalidStart, Reporting
<1>4. CASE TakesAnnouncement(dev.next, value)
    <2>1. calls = <<>> /\ calls'[1].phase = "reset" /\ Len(calls') = 1
        BY <1>4, ReconnectingShapes DEF TakesAnnouncement
    <2>2. ~Whole
        BY <1>4 DEF TakesAnnouncement, IsAnnouncement, Reporting, Aligned
    <2> QED BY <1>1, <2>1, <2>2 DEF Reporting
<1>5. CASE Keeps(dev.next, value)
    <2>1. Whole => ~mark'
        BY <1>2, <1>5 DEF Keeps, Reporting, Aligned
    <2>2. Whole => Aligned'
        BY <1>5, <2>1, AlignedGrows DEF Keeps, Reporting
    <2> QED BY <1>1, <1>5, <2>2 DEF Keeps, Reporting
<1>6. CASE TakesPacket(value)
    <2>1. Whole => Aligned'
        BY <1>6, AlignedAfterPacket DEF TakesPacket, Completes, Reporting
    <2> QED BY <1>1, <1>6, <2>1 DEF TakesPacket, Reporting
<1>7. CASE CorrectsPacket(dev.next, value)
    \* Its first byte is the second one of a packet.
    <2>1. PacketSize = pad.size /\ Whole
        <3>1. 3 % 3 = 0 /\ 4 % 4 = 0 /\ 6 % 6 = 0 OBVIOUS
        <3> QED BY <1>7, <3>1 DEF CorrectsPacket, PacketSize, Whole, StreamShapes
    <2>2. buffer[1] = (1 % pad.size) + 1 /\ 1 \in 1..Len(buffer)
        <3>1. 1 \in 1..Len(buffer)
            BY <1>7 DEF CorrectsPacket, Completes, StreamShapes
        <3>2. Append(buffer, dev.next)[1] = buffer[1]
            BY <3>1, <1>1 DEF StreamShapes
        <3>3. Append(buffer, dev.next)[1] = Following(1)
            BY <1>7 DEF CorrectsPacket, StreamShapes
        <3> QED BY <2>1, <3>1, <3>2, <3>3 DEF Following
    <2>3. buffer[1] = ((1 - 1) % pad.size) + 1
        BY <2>1, <2>2 DEF Reporting, Aligned
    <2>4. /\ 1 % 3 = 1 /\ 1 % 4 = 1 /\ 1 % 6 = 1
          /\ (1 - 1) % 3 = 0 /\ (1 - 1) % 4 = 0 /\ (1 - 1) % 6 = 0
        OBVIOUS
    <2> QED BY <2>2, <2>3, <2>4 DEF StreamShapes
<1>8. CASE UnknownPacket(dev.next, value)
    <2>1. PICK why \in pad.unknown : Reconnecting(why)
        BY <1>8 DEF UnknownPacket
    <2>2. why \in {"counted", "tried"}
        BY DEF PacketAssemblyAssumption, StreamShapes
    <2>3. calls = <<>> /\ calls'[1].why = why /\ calls'[1].phase = "reset" /\ Len(calls') = 1
        BY <2>1, <2>2, ReconnectingShapes
    <2>4. Whole => Aligned'
        BY <1>8, AlignedAfterPacket DEF UnknownPacket, Completes, Reporting
    <2> QED BY <1>1, <2>2, <2>3, <2>4 DEF Reporting
<1> QED BY <1>3, <1>4, <1>5, <1>6, <1>7, <1>8 DEF InterruptOccurred

\* A status packet is corrected outside reconnections only, with the first byte
\* of a packet.
LEMMA CorrectionInStep ==
    ASSUME StreamShapes, torn, ~torn', NEW pos \in 0..6, NEW value, InterruptOccurred(pos, value)
    PROVE  /\ pos = 1 /\ buffer' = <<1>> /\ ~mark' /\ calls = <<>> /\ calls' = <<>>
           /\ PacketSize = pad.size
<1>1. CorrectsPacket(pos, value)
    BY DEF InterruptOccurred, DropsInvalid, TakesAnnouncement, Keeps, TakesPacket, UnknownPacket, Reconnecting
<1>2. PacketSize = pad.size /\ calls = <<>> /\ calls' = <<>> /\ buffer' = <<1>> /\ ~mark'
    BY <1>1 DEF CorrectsPacket, PacketSize
<1>3. Append(buffer, pos)[pad.size] = pos
    <2>1. Len(buffer) + 1 = pad.size /\ buffer \in Seq(Nat) /\ pos \in Nat
        BY <1>1 DEF CorrectsPacket, Completes, StreamShapes
    <2>2. Append(buffer, pos)[Len(buffer) + 1] = pos
        BY <2>1
    <2> QED BY <2>1, <2>2
<1>4. Append(buffer, pos)[pad.size] = (pad.size % pad.size) + 1
    BY <1>1, <1>2 DEF CorrectsPacket, Following, StreamShapes
<1>5. 3 % 3 = 0 /\ 4 % 4 = 0 /\ 6 % 6 = 0
    OBVIOUS
<1> QED BY <1>2, <1>3, <1>4, <1>5 DEF StreamShapes

LEMMA SendingKeepsStep ==
    ASSUME PacketAssemblyAssumption, Sync, DeviceSends
    PROVE  Sync'
<1> USE DEF Sync
<1>1. PICK value \in Values(dev.next) : InterruptOccurred(dev.next, value)
    BY DEF DeviceSends
<1>2. dev.next \in 1..6 /\ dev.next \in Nat /\ dev.reporting /\ left = <<>> /\ Advances /\ pad' = pad /\ left' = left
    BY DEF DeviceSends, StreamShapes, Device
<1>3. dev' \in Device /\ dev'.reporting /\ dev'.relative = dev.relative /\ dev'.next = Following(dev.next)
    <2>1. Following(dev.next) \in 1..6
        BY <1>2, PacketSizes, Positions DEF Following
    <2>2. dev \in Device
        BY DEF StreamShapes
    <2> QED BY <1>2, <2>1, <2>2 DEF Advances, Device
<1>4. StreamShapes'
    BY <1>1, <1>2, <1>3, InterruptShapes DEF StreamShapes
<1>5. ASSUME ~torn' PROVE Len(calls') <= 1 /\ Reporting'
    <2>1. CASE ~torn
        BY <1>1, <1>2, <1>5, <2>1, BytesInStep DEF InStep
    <2>2. CASE torn
        <3>1. /\ dev.next = 1 /\ buffer' = <<1>> /\ ~mark' /\ calls' = <<>>
              /\ PacketSize = pad.size
            BY <1>1, <1>2, <1>5, <2>2, CorrectionInStep
        <3>2. PacketSize' = pad.size /\ pad.size \in {3, 4, 6}
            BY <1>2, <1>3, <3>1 DEF PacketSize, StreamShapes
        <3>3. 1 % 3 = 1 /\ 1 % 4 = 1 /\ 1 % 6 = 1 /\ (1 - 1) % 3 = 0 /\ (1 - 1) % 4 = 0 /\ (1 - 1) % 6 = 0
            OBVIOUS
        <3>4. dev'.next = 2
            BY <1>3, <3>1, <3>2, <3>3 DEF Following
        <3>5. Len(buffer') = 1 /\ buffer'[1] = 1
            BY <3>1
        <3>6. Aligned'
            BY <3>1, <3>2, <3>3, <3>4, <3>5 DEF Aligned
        <3> QED BY <1>2, <3>1, <3>6 DEF Reporting
    <2> QED BY <2>1, <2>2 DEF StreamShapes
<1>6. InStep'
    BY <1>3, <1>5 DEF InStep, Reporting
<1> QED BY <1>4, <1>6

LEMMA AnnouncingKeepsStep ==
    ASSUME PacketAssemblyAssumption, Sync, Announces
    PROVE  Sync'
<1> USE DEF Sync
<1>1. InterruptOccurred(0, Head(left)) /\ left # <<>> /\ pad' = pad /\ dev' = dev
    BY DEF Announces
<1>2. StreamShapes'
    BY <1>1, InterruptShapes DEF StreamShapes
<1>3. ASSUME ~torn' PROVE ~torn
    BY <1>1, <1>3, CorrectionInStep
<1>4. ASSUME ~torn' PROVE ~dev.reporting /\ Len(calls) <= 1 /\ ~(calls # <<>> /\ calls[1].phase = "cleared")
    BY <1>1, <1>3, <1>4 DEF InStep, Reporting, Silenced
<1>5. ASSUME ~torn', NEW why \in {"announced", "counted", "tried"}, Reconnecting(why)
      PROVE  Len(calls') <= 1 /\ calls'[1].phase = "reset"
    <2>1. StreamShapes /\ why \in {"announced", "counted", "tried", "power", "other"}
        OBVIOUS
    <2>2. calls = <<>>
        BY <1>5, <2>1, ReconnectingShapes
    <2>3. Len(calls') = 1 /\ calls'[1].phase = "reset"
        BY <1>5, <2>1, <2>2, ReconnectingShapes
    <2> QED BY <2>3
<1>6. ASSUME ~torn' PROVE Len(calls') <= 1 /\ ~(calls' # <<>> /\ calls'[1].phase = "cleared")
    <2>1. CASE UNCHANGED calls
        BY <1>4, <1>6, <2>1
    <2>2. CASE TakesAnnouncement(0, Head(left))
        BY <1>5, <1>6, <2>2 DEF TakesAnnouncement
    <2>3. CASE UnknownPacket(0, Head(left))
        <3>1. PICK why \in pad.unknown : Reconnecting(why)
            BY <2>3 DEF UnknownPacket
        <3>2. why \in {"counted", "tried"}
            BY DEF PacketAssemblyAssumption, StreamShapes
        <3> QED BY <1>5, <1>6, <3>1, <3>2
    <2> QED BY <1>1, <2>1, <2>2, <2>3
            DEF InterruptOccurred, DropsInvalid, Keeps, TakesPacket, CorrectsPacket
<1> QED BY <1>1, <1>2, <1>4, <1>6 DEF InStep

---------------------------------------------------------------------------
(* The device. *)

LEMMA LosingKeepsStep ==
    ASSUME Sync, ByteLost
    PROVE  Sync'
<1>1. dev' \in Device
    <2>1. dev \in Device /\ Following(dev.next) \in 1..6
        BY PacketSizes, Positions DEF Sync, StreamShapes, Device, Following
    <2> QED BY <2>1 DEF ByteLost, Advances, Device
<1>2. torn' = TRUE /\ UNCHANGED <<pad, buffer, mark, calls>>
    BY DEF ByteLost
<1>3. StreamShapes'
    BY <1>1, <1>2 DEF Sync, StreamShapes
<1> QED BY <1>2, <1>3 DEF Sync, InStep

LEMMA ResettingKeepsStep ==
    ASSUME Sync, DeviceResets
    PROVE  Sync'
<1>1. /\ dev' \in Device /\ ~dev'.reporting
      /\ UNCHANGED <<pad, buffer, mark, calls>>
    BY DEF DeviceResets, Device
<1>2. torn' \in BOOLEAN /\ (~torn' => calls = <<>>)
    BY DEF DeviceResets, Sync, StreamShapes
<1>3. StreamShapes'
    BY <1>1, <1>2 DEF Sync, StreamShapes
<1>4. InStep'
    BY <1>1, <1>2 DEF InStep
<1> QED BY <1>3, <1>4 DEF Sync

---------------------------------------------------------------------------
(* Reconnections. *)

LEMMA PowerKeepsStep ==
    ASSUME Sync, PowerCycle
    PROVE  Sync'
<1> DEFINE c == [why |-> "power", phase |-> "reset"]
<1>1. c \in Call /\ c.phase = "reset" BY DEF Call
<1>2. calls' = <<c>> /\ UNCHANGED <<pad, left, buffer, mark>>
    BY DEF PowerCycle
<1> HIDE DEF c
<1>3. calls' \in Seq(Call) /\ Len(calls') = 1 /\ calls'[1] = c
    BY <1>1, <1>2
<1>4. /\ dev' \in Device /\ torn' \in BOOLEAN
      /\ ~torn' => ~dev'.reporting
    <2>1. PICK silent \in BOOLEAN :
              /\ dev' = [dev EXCEPT !.reporting = @ /\ ~silent]
              /\ torn' = (torn \/ dev'.reporting)
        BY DEF PowerCycle
    <2>2. dev \in Device /\ torn \in BOOLEAN
        BY DEF Sync, StreamShapes
    <2>3. dev' \in Device
        BY <2>1, <2>2 DEF Device
    <2> QED BY <2>1, <2>2, <2>3 DEF Device
<1>5. StreamShapes'
    BY <1>2, <1>3, <1>4 DEF Sync, StreamShapes
<1>6. InStep'
    BY <1>1, <1>3, <1>4 DEF InStep
<1> QED BY <1>5, <1>6 DEF Sync

LEMMA OtherKeepsStep ==
    ASSUME Sync, OtherReconnection
    PROVE  Sync'
<1>1. UNCHANGED <<pad, dev, left, buffer, mark>> /\ Reconnecting("other")
    BY DEF OtherReconnection
<1>2. /\ calls' \in Seq(Call) /\ torn' \in BOOLEAN
      /\ ~torn' => /\ ~torn /\ calls = <<>> /\ Len(calls') = 1
                   /\ calls'[1].why = "other" /\ calls'[1].phase = "reset"
    <2>1. StreamShapes BY DEF Sync
    <2> QED BY <1>1, <2>1, ReconnectingShapes
<1>3. StreamShapes'
    BY <1>1, <1>2 DEF Sync, StreamShapes
<1>4. ASSUME ~torn', dev.reporting PROVE Reporting'
    BY <1>1, <1>2, <1>4 DEF Sync, InStep, Reporting, Whole, Aligned, PacketSize
<1>5. ASSUME ~torn'
      PROVE  Len(calls') <= 1 /\ ~(calls' # <<>> /\ calls'[1].phase = "cleared")
    <2>1. Len(calls') = 1 /\ calls'[1].phase = "reset"
        BY <1>2, <1>5
    <2> QED BY <2>1
<1>6. InStep'
    BY <1>1, <1>4, <1>5 DEF InStep
<1> QED BY <1>3, <1>6 DEF Sync

\* The innermost reconnection goes on.
LEMMA PhaseChanges ==
    ASSUME StreamShapes, calls # <<>>, NEW phase \in {"setup", "cleared"}, Goes(phase)
    PROVE  /\ calls' \in Seq(Call) /\ Len(calls') = Len(calls)
           /\ Len(calls) <= 1 => Len(calls) = 1 /\ calls'[1].phase = phase
<1> DEFINE c == [calls[Len(calls)] EXCEPT !.phase = phase]
<1>1. calls \in Seq(Call) /\ Len(calls) \in 1..Len(calls)
    BY DEF StreamShapes
<1>2. calls[Len(calls)] \in Call
    BY <1>1
<1>3. c \in Call /\ c.phase = phase
    BY <1>2 DEF Call
<1>4. calls' = [calls EXCEPT ![Len(calls)] = c]
    BY DEF Goes
<1> HIDE DEF c
<1>5. calls' \in Seq(Call) /\ Len(calls') = Len(calls) /\ calls'[Len(calls)] = c
    BY <1>1, <1>3, <1>4
<1>6. ASSUME Len(calls) <= 1 PROVE Len(calls) = 1
    <2>1. Len(calls) \in Nat /\ Len(calls) # 0
        BY <1>1
    <2> QED BY <1>6, <2>1, One
<1> QED BY <1>3, <1>5, <1>6

LEMMA StoppingKeepsStep ==
    ASSUME Sync, DeviceStops
    PROVE  Sync'
<1>1. /\ dev' \in Device /\ ~dev'.reporting
      /\ UNCHANGED <<pad, buffer, mark, torn>>
    BY DEF DeviceStops, Device
<1>2. /\ calls' \in Seq(Call) /\ Len(calls') = Len(calls)
      /\ Len(calls) <= 1 => Len(calls) = 1 /\ calls'[1].phase = "setup"
    BY PhaseChanges DEF DeviceStops, InPhase, Sync
<1>3. StreamShapes'
    BY <1>1, <1>2 DEF Sync, StreamShapes
<1>4. InStep'
    BY <1>1, <1>2 DEF Sync, InStep
<1> QED BY <1>3, <1>4 DEF Sync

LEMMA ClearingKeepsStep ==
    ASSUME Sync, ClearBuffer
    PROVE  Sync'
<1>1. /\ buffer' = <<>> /\ ~mark' /\ mark' \in BOOLEAN /\ UNCHANGED <<pad, left>>
      /\ torn' = ~Mended
    BY DEF ClearBuffer
<1>2. dev' \in Device /\ dev'.reporting = dev.reporting
    <2>1. PICK relative \in {TRUE, pad.size = 3} : dev' = [dev EXCEPT !.relative = relative]
        BY DEF ClearBuffer
    <2>2. dev \in Device /\ relative \in BOOLEAN
        BY DEF Sync, StreamShapes
    <2> QED BY <2>1, <2>2 DEF Device
<1>3. /\ calls' \in Seq(Call) /\ Len(calls') = Len(calls)
      /\ Len(calls) <= 1 => Len(calls) = 1 /\ calls'[1].phase = "cleared"
    BY PhaseChanges DEF ClearBuffer, InPhase, Sync
<1>4. torn' \in BOOLEAN /\ (~torn' => ~dev.reporting /\ left = <<>> /\ Len(calls) = 1)
    BY <1>1 DEF Mended
<1>5. StreamShapes'
    <2>1. buffer' \in Seq(Nat) /\ Len(buffer') = 0
        BY <1>1
    <2>2. pad' \in Pads /\ pad'.size \in {3, 4, 6}
        BY <1>1 DEF Sync, StreamShapes
    <2> QED BY <1>1, <1>2, <1>3, <1>4, <2>1, <2>2 DEF StreamShapes
<1>6. ASSUME ~torn' PROVE Len(calls') <= 1 /\ Silenced' /\ ~dev'.reporting
    <2>1. ~dev.reporting /\ left = <<>> /\ Len(calls) = 1
        BY <1>4, <1>6
    <2>2. Len(calls') <= 1
        BY <1>3, <2>1
    <2>3. ~dev'.reporting
        BY <1>2, <2>1
    <2> QED BY <1>1, <2>1, <2>2, <2>3 DEF Silenced
<1>7. InStep'
    BY <1>6 DEF InStep
<1> QED BY <1>5, <1>7 DEF Sync

\* The innermost reconnection returns; if it was announced, the buffer is
\* cleared once more.
LEMMA ReturnShapes ==
    ASSUME StreamShapes, calls # <<>>, Returned(buffer, mark)
    PROVE  /\ calls' \in Seq(Call) /\ buffer' \in Seq(Nat) /\ Len(buffer') <= Len(buffer)
           /\ mark' \in BOOLEAN
           /\ Len(calls) = 1 => calls' = <<>>
           /\ Current.why # "announced" => UNCHANGED <<buffer, mark>>
           /\ Current.why = "announced" => buffer' = <<>> /\ ~mark'
<1> DEFINE n == Len(calls)
<1>1. calls \in Seq(Call) /\ n \in Nat /\ n >= 1 /\ buffer \in Seq(Nat) /\ mark \in BOOLEAN
    BY DEF StreamShapes
<1>2. calls' = SubSeq(calls, 1, n - 1)
    BY DEF Returned
<1>3. calls' \in Seq(Call) /\ Len(calls') = n - 1
    <2>1. n - 1 \in 0..n BY <1>1
    <2>2. \A i \in 1..(n - 1) : calls[i] \in Call BY <1>1
    <2>3. calls' = [i \in 1..(n - 1) |-> calls[i]] BY <1>1, <1>2
    <2> HIDE DEF n
    <2> QED BY <2>1, <2>2, <2>3
<1>4. n = 1 => calls' = <<>>
    BY <1>3
<1>5. CASE Current.why = "announced"
    <2>1. buffer' = <<>> /\ mark' = FALSE
        BY <1>5 DEF Returned
    <2>2. buffer' \in Seq(Nat) /\ Len(buffer') <= Len(buffer)
        BY <1>1, <2>1
    <2>3. mark' \in BOOLEAN /\ ~mark'
        BY <2>1
    <2> QED BY <1>3, <1>4, <1>5, <2>1, <2>2, <2>3
<1>6. CASE Current.why # "announced"
    <2>1. buffer' = buffer /\ mark' = mark
        BY <1>6 DEF Returned
    <2> QED BY <1>1, <1>3, <1>4, <1>6, <2>1
<1> QED BY <1>5, <1>6

LEMMA OneCall ==
    ASSUME Sync, ~torn, calls # <<>>
    PROVE  Len(calls) = 1 /\ Current = calls[1]
<1>1. calls \in Seq(Call)
    BY DEF Sync, StreamShapes
<1>2. Len(calls) <= 1
    BY DEF Sync, InStep
<1>3. Len(calls) \in Nat /\ Len(calls) # 0
    BY <1>1
<1>4. Len(calls) = 1
    BY <1>2, <1>3, One
<1> QED BY <1>4 DEF Current

LEMMA ReconnectedKeepsStep ==
    ASSUME Sync, Reconnected
    PROVE  Sync'
<1>1. calls # <<>> /\ Current.phase = "cleared" /\ Returned(buffer, mark) /\ UNCHANGED <<pad, left, torn>>
    BY DEF Reconnected, InPhase
<1>2. dev' \in Device /\ (dev'.reporting => dev.reporting \/ dev'.next = 1)
    <2>1. PICK taken \in BOOLEAN :
              dev' = IF taken THEN [dev EXCEPT !.reporting = TRUE, !.next = 1] ELSE dev
        BY DEF Reconnected
    <2>2. dev \in Device
        BY DEF Sync, StreamShapes
    <2>3. CASE taken
        <3>1. dev' = [dev EXCEPT !.reporting = TRUE, !.next = 1]
            BY <2>1, <2>3
        <3>2. dev' = [reporting |-> TRUE, relative |-> dev.relative, next |-> 1]
            BY <2>2, <3>1 DEF Device
        <3>3. dev' \in Device
            BY <2>2, <3>2 DEF Device
        <3> QED BY <3>2, <3>3
    <2>4. CASE ~taken
        BY <2>1, <2>2, <2>4
    <2> QED BY <2>3, <2>4
<1>3. /\ calls' \in Seq(Call) /\ buffer' \in Seq(Nat) /\ Len(buffer') <= Len(buffer)
      /\ mark' \in BOOLEAN
      /\ Len(calls) = 1 => calls' = <<>>
      /\ Current.why # "announced" => UNCHANGED <<buffer, mark>>
      /\ Current.why = "announced" => buffer' = <<>> /\ ~mark'
    BY <1>1, ReturnShapes DEF Sync
<1>4. StreamShapes'
    BY <1>1, <1>2, <1>3 DEF Sync, StreamShapes
<1>5. ASSUME ~torn PROVE Len(calls) = 1 /\ Silenced
    <2>1. Len(calls) = 1 /\ Current = calls[1]
        BY <1>1, <1>5, OneCall
    <2> QED BY <1>1, <1>5, <2>1 DEF Sync, InStep
<1>6. ASSUME ~torn', dev'.reporting PROVE Reporting'
    <2>1. /\ left' = <<>> /\ calls' = <<>> /\ buffer' = <<>> /\ ~mark' /\ dev'.next = 1
        BY <1>1, <1>2, <1>3, <1>5, <1>6 DEF Silenced
    <2>2. Len(buffer') = 0 /\ PacketSize' \in {3, 4, 6}
        BY <1>4, <2>1 DEF StreamShapes, PacketSize
    <2>4. (0 % PacketSize') + 1 = 1
        BY <2>2, Zero
    <2>5. Aligned'
        <3>1. dev'.next = (Len(buffer') % PacketSize') + 1
            BY <2>1, <2>2, <2>4
        <3>2. \A i \in 1..Len(buffer') : buffer'[i] = ((i - 1) % PacketSize') + 1
            BY <2>2
        <3> QED BY <2>1, <3>1, <3>2 DEF Aligned
    <2> QED BY <2>1, <2>5 DEF Reporting
<1>7. InStep'
    <2>1. ~torn' => calls' = <<>> /\ Len(calls') = 0
        BY <1>1, <1>3, <1>5
    <2> QED BY <1>6, <2>1 DEF InStep
<1> QED BY <1>4, <1>7 DEF Sync

LEMMA FailingKeepsStep ==
    ASSUME Sync, ReconnectionFails
    PROVE  Sync'
<1>1. calls # <<>> /\ Returned(buffer, mark) /\ UNCHANGED <<pad, dev, left, torn>>
    BY DEF ReconnectionFails, InPhase
<1>2. /\ calls' \in Seq(Call) /\ buffer' \in Seq(Nat) /\ Len(buffer') <= Len(buffer)
      /\ mark' \in BOOLEAN
      /\ Len(calls) = 1 => calls' = <<>>
      /\ Current.why # "announced" => UNCHANGED <<buffer, mark>>
    BY <1>1, ReturnShapes DEF Sync
<1>3. StreamShapes'
    BY <1>1, <1>2 DEF Sync, StreamShapes
<1>4. ASSUME ~torn PROVE Len(calls) = 1 /\ Current = calls[1] /\ calls' = <<>> /\ Len(calls') = 0
    <2>1. Len(calls) = 1 /\ Current = calls[1]
        BY <1>1, <1>4, OneCall
    <2> QED BY <1>2, <2>1
<1>5. ASSUME ~torn', dev'.reporting PROVE Reporting'
    <2>1. Reporting /\ ~torn /\ dev.reporting
        BY <1>1, <1>5 DEF Sync, InStep
    <2>2. calls' = <<>> /\ left' = <<>> /\ (Whole' <=> Whole) /\ PacketSize' = PacketSize
        BY <1>1, <1>4, <2>1 DEF Reporting, Whole, PacketSize
    <2>3. Whole => UNCHANGED <<buffer, mark>>
        BY <1>1, <1>2, <1>4, <2>1 DEF Reporting
    <2>4. Whole => Aligned'
        BY <1>1, <2>1, <2>2, <2>3 DEF Reporting, Aligned
    <2> QED BY <2>2, <2>4 DEF Reporting
<1>6. InStep'
    BY <1>1, <1>4, <1>5 DEF InStep
<1> QED BY <1>3, <1>6 DEF Sync

---------------------------------------------------------------------------
LEMMA SyncAtFirst == ASSUME PacketAssemblyAssumption, Init PROVE Sync
<1>1. /\ pad \in Pads /\ pad.size \in {3, 4, 6}
      /\ dev \in Device /\ dev.next = 1 /\ buffer = <<>> /\ left = <<>> /\ calls = <<>> /\ mark = FALSE /\ torn = FALSE
    BY DEF Init, PacketAssemblyAssumption, Device
<1>2. /\ buffer \in Seq(Nat) /\ Len(buffer) = 0 /\ calls \in Seq(Call) /\ Len(calls) = 0
    BY <1>1
<1>3. mark \in BOOLEAN /\ torn \in BOOLEAN
    BY <1>1
<1>4. StreamShapes
    BY <1>1, <1>2, <1>3 DEF StreamShapes
<1>5. 0 % 3 = 0 /\ 0 % 4 = 0 /\ 0 % 6 = 0 OBVIOUS
<1>6. Aligned
    BY <1>1, <1>2, <1>4, <1>5, PacketSizes DEF Aligned
<1> QED BY <1>1, <1>2, <1>4, <1>6 DEF Sync, InStep, Reporting

LEMMA SyncStays == ASSUME PacketAssemblyAssumption, Sync, [Next]_vars PROVE Sync'
<1>1. CASE UNCHANGED vars
    BY <1>1 DEF vars, Sync, StreamShapes, InStep, Reporting, Silenced, Whole, Aligned, PacketSize
<1> QED BY <1>1, SendingKeepsStep, AnnouncingKeepsStep, LosingKeepsStep, ResettingKeepsStep,
           PowerKeepsStep, OtherKeepsStep, StoppingKeepsStep, ClearingKeepsStep,
           ReconnectedKeepsStep, FailingKeepsStep DEF Next

LEMMA SyncSuffices == ASSUME Sync PROVE PacketsInStep
BY DEF Sync, StreamShapes, InStep, Reporting, Whole, Aligned, PacketsInStep, BufferHolds

\* Unless a byte was lost, the device reset itself in the middle, or one
\* reconnection ran inside another, the buffer holds what the device has sent of
\* its packet, for every pad, any number of resets, power changes and nested or
\* failing reconnections; and it never fills up.
THEOREM DriverStaysInStep == Spec => []PacketsInStep
<1>1. Init => Sync
    BY SyncAtFirst, PacketAssemblyAssumption
<1>2. Sync /\ [Next]_vars => Sync'
    BY SyncStays, PacketAssemblyAssumption
<1>3. Sync => PacketsInStep
    BY SyncSuffices
<1> QED BY <1>1, <1>2, <1>3, PTL DEF Spec

==============================================================================
