------------------------ MODULE PS2DataPort_proofs ------------------------
(* Theorems about PS2DataPort, for every queue size, time limit, set of    *)
(* byte values and number of bytes sent.                                   *)
EXTENDS PS2DataPort, SequenceTheorems, FiniteSetTheorems, TLAPS

---------------------------------------------------------------------------
(* Type correctness. *)

\* What is read off the front of the software queue, and what is left.
LEMMA HeadTail ==
    ASSUME NEW S, NEW s \in Seq(S), s # <<>>
    PROVE  Head(s) \in S /\ Tail(s) \in Seq(S) /\ Len(Tail(s)) = Len(s) - 1
  OBVIOUS

\* What appending keeps.
LEMMA AppendOne ==
    ASSUME NEW S, NEW s \in Seq(S), NEW e \in S
    PROVE  Append(s, e) \in Seq(S) /\ Len(Append(s, e)) = Len(s) + 1
  OBVIOUS

\* A byte handed to a driver.
LEMMA DeliverOne ==
    ASSUME delivered \in [Device -> Seq(Byte)], NEW d \in Device, NEW b \in Byte,
           DispatchDriverInterrupt(d, b)
    PROVE  delivered' \in [Device -> Seq(Byte)]
<1>1. Append(delivered[d], b) \in Seq(Byte)
  BY AppendOne
<1> QED
  BY <1>1 DEF DispatchDriverInterrupt

\* The bytes held and the bytes delivered stay sequences of bytes whatever
\* readDataPort decides about a byte.
LEMMA AcceptType ==
    ASSUME TypeOK, NEW b \in Byte, Accept(b)
    PROVE  /\ pc' \in Control
           /\ call' \in Call /\ Len(call'.held) <= HeldSlots
           /\ result' \in Byte \cup {NoByte}
           /\ delivered' \in [Device -> Seq(Byte)]
           /\ returned' \subseteq Byte
           /\ gaveUp' \in Nat
<1> USE DEF TypeOK, Control, HeldSlots
<1>0. b # NoByte
  BY SentinelAssumption
<1>1. CASE AcceptMatch(b)
  BY <1>0, <1>1 DEF AcceptMatch, Return, Call, Device
<1>2. CASE AcceptHold(b)
  <2>1. /\ Append(call.held, b) \in Seq(Byte)
        /\ Len(Append(call.held, b)) = Len(call.held) + 1
    BY AppendOne DEF Call
  <2>2. call' = [dev |-> call.dev, expected |-> call.expected,
                 held |-> Append(call.held, b),
                 timeoutCounter |-> call.timeoutCounter]
    BY <1>2 DEF AcceptHold, Call
  <2>3. call' \in Call /\ Len(call'.held) <= HeldSlots
    <3>1. Len(call.held) \in Nat /\ Len(call.held) < HeldSlots
      BY <1>2 DEF AcceptHold, Call
    <3> QED
      BY <2>1, <2>2, <3>1 DEF Call
  <2> QED
    BY <1>2, <2>3 DEF AcceptHold
<1>3. CASE AcceptFourthMismatch(b)
  <2>1. Head(call.held) \in Byte
    BY <1>3 DEF AcceptFourthMismatch, Call
  <2>2. delivered' \in [Device -> Seq(Byte)]
    <3>1. call.dev \in Device
      BY DEF Call
    <3> QED
      BY <1>3, <3>1, DeliverOne DEF AcceptFourthMismatch
  <2>3. Head(call.held) # NoByte
    BY <2>1, SentinelAssumption
  <2>4. result' \in Byte \cup {NoByte} /\ returned' \subseteq Byte
    BY <1>3, <2>1, <2>3 DEF AcceptFourthMismatch, Return
  <2>5. pc' \in Control /\ call' = call /\ gaveUp' \in Nat
    BY <1>3 DEF AcceptFourthMismatch, Return
  <2> QED
    BY <2>2, <2>4, <2>5
<1> QED
  BY <1>1, <1>2, <1>3 DEF Accept

\* The software queue never outgrows its storage.
LEMMA EnqueueType ==
    ASSUME TypeOK, NEW b \in Byte, EnqueueKeyboardData(b)
    PROVE  /\ keyboardQueue' \in Seq(Byte) /\ Len(keyboardQueue') <= QueueSize
           /\ dropped' \subseteq Byte
<1>1. CASE Len(keyboardQueue) < QueueSize
  <2>1. keyboardQueue' = Append(keyboardQueue, b) /\ dropped' = dropped
    BY <1>1 DEF EnqueueKeyboardData
  <2> QED
    BY <1>1, <2>1, AppendOne, DataPortAssumption DEF TypeOK
<1>2. CASE ~(Len(keyboardQueue) < QueueSize)
  BY <1>2 DEF EnqueueKeyboardData, TypeOK
<1> QED
  BY <1>1, <1>2

\* Initially, and after every step, every variable is in its domain.
THEOREM TypeCorrect == Spec => []TypeOK
<1>1. Init => TypeOK
  BY DataPortAssumption DEF Init, TypeOK, Control, Call, HeldSlots, Device
<1>2. TypeOK /\ [Next]_vars => TypeOK'
  <2> SUFFICES ASSUME TypeOK, [Next]_vars
               PROVE  TypeOK'
    OBVIOUS
  <2> USE DEF hardware, history
  <2>1. CASE \E d \in Device, v \in Value : DeviceSends(d, v)
    <3> PICK d \in Device, v \in Value : DeviceSends(d, v)
      BY <2>1
    <3>1. sent[d] + 1 \in Nat
      BY DEF TypeOK
    <3>2. port' \in Byte
      BY <3>1 DEF DeviceSends, Byte
    <3>3. sent' \in [Device -> Nat]
      BY <3>1 DEF TypeOK, DeviceSends
    <3> QED
      BY <3>2, <3>3 DEF TypeOK, DeviceSends
  <2>2. CASE InterruptHandlerMouse
    BY <2>2 DEF TypeOK, InterruptHandlerMouse, Device
  <2>3. CASE InterruptHandlerKeyboard
    <3> USE DEF Device
    <3>1. CASE HandlerParksByte
      <4>1. port \in Byte
        BY <3>1 DEF TypeOK, HandlerParksByte, KeyboardReady
      <4> QED
        BY <2>3, <3>1, <4>1, EnqueueType
        DEF TypeOK, InterruptHandlerKeyboard, HandlerParksByte
    <3>2. CASE HandlerFindsMouseByte
      BY <2>3, <3>2 DEF TypeOK, InterruptHandlerKeyboard, HandlerFindsMouseByte
    <3>3. CASE HandlerFindsNothing
      BY <2>3, <3>3 DEF TypeOK, InterruptHandlerKeyboard, HandlerFindsNothing
    <3> QED
      BY <2>3, <3>1, <3>2, <3>3 DEF InterruptHandlerKeyboard
  <2>4. CASE InterruptOccurred
    BY <2>4 DEF TypeOK, InterruptOccurred, Control
  <2>5. CASE DispatchQueued
    <3>1. Head(keyboardQueue) \in Byte /\ Tail(keyboardQueue) \in Seq(Byte)
          /\ Len(Tail(keyboardQueue)) <= QueueSize
      BY <2>5, HeadTail, DataPortAssumption DEF TypeOK, DispatchQueued
    <3>2. delivered' \in [Device -> Seq(Byte)]
      BY <2>5, <3>1, DeliverOne DEF TypeOK, DispatchQueued, Device
    <3> QED
      BY <2>5, <3>1, <3>2 DEF TypeOK, DispatchQueued
  <2>6. CASE SeeMouseByte
    BY <2>6 DEF TypeOK, SeeMouseByte, Control
  <2>7. CASE DispatchMouseByte
    <3>1. port \in Byte /\ "Mouse" \in Device
      BY <2>7 DEF TypeOK, DispatchMouseByte, Device
    <3>2. delivered' \in [Device -> Seq(Byte)]
      BY <2>7, <3>1, DeliverOne DEF TypeOK, DispatchMouseByte
    <3> QED
      BY <2>7, <3>2 DEF TypeOK, DispatchMouseByte, Control
  <2>8. CASE LeaveInterrupt
    BY <2>8 DEF TypeOK, LeaveInterrupt, Control
  <2>9. CASE \E d \in Device, e \in Value \cup {AnyByte} : ReadDataPort(d, e)
    BY <2>9, DataPortAssumption DEF TypeOK, ReadDataPort, Control, Call, HeldSlots
  <2>10. CASE ReadFromQueue
    <3>1. Head(keyboardQueue) \in Byte /\ Tail(keyboardQueue) \in Seq(Byte)
          /\ Len(Tail(keyboardQueue)) <= QueueSize
      BY <2>10, HeadTail, DataPortAssumption DEF TypeOK, ReadFromQueue
    <3> QED
      BY <2>10, <3>1, AcceptType DEF TypeOK, ReadFromQueue
  <2>11. CASE StartPolling
    BY <2>11 DEF TypeOK, StartPolling, Control
  <2>12. CASE PollEmpty
    <3>1. call' = [dev |-> call.dev, expected |-> call.expected,
                   held |-> call.held,
                   timeoutCounter |-> call.timeoutCounter - 1]
      BY <2>12 DEF TypeOK, PollEmpty, Call
    <3>2. call' \in Call /\ Len(call'.held) <= HeldSlots
      <4>1. call.timeoutCounter - 1 \in Nat
        BY <2>12 DEF TypeOK, PollEmpty, Call
      <4> QED
        BY <3>1, <4>1 DEF TypeOK, Call
    <3> QED
      BY <2>12, <3>2 DEF TypeOK, PollEmpty
  <2>13. CASE PollReads
    <3>1. port \in Byte
      BY <2>13 DEF TypeOK, PollReads
    <3> QED
      BY <2>13, <3>1, AcceptType DEF TypeOK, PollReads
  <2>14. CASE PollDispatchesOther
    <3>1. port \in Byte /\ Other(call.dev) \in Device
      BY <2>14 DEF TypeOK, PollDispatchesOther, Other, Device
    <3>2. delivered' \in [Device -> Seq(Byte)]
      BY <2>14, <3>1, DeliverOne DEF TypeOK, PollDispatchesOther, Byte
    <3> QED
      BY <2>14, <3>2 DEF TypeOK, PollDispatchesOther, Control
  <2>15. CASE PollTimesOut
    <3>1. call.held # <<>> => Head(call.held) \in Byte
      BY DEF TypeOK, Call
    <3> QED
      BY <2>15, <3>1 DEF TypeOK, PollTimesOut, Return, Control
  <2>16. CASE UNCHANGED vars
    BY <2>16 DEF TypeOK, vars
  <2> QED
    BY <2>1, <2>2, <2>3, <2>4, <2>5, <2>6, <2>7, <2>8, <2>9, <2>10, <2>11,
       <2>12, <2>13, <2>14, <2>15, <2>16
    DEF Next, InterruptTime, ServeInterrupt, ContinueRead
<1> QED
  BY <1>1, <1>2, PTL DEF Spec

---------------------------------------------------------------------------
(* Bytes reach the driver of the device that sent them.                    *)
(*                                                                         *)
(* The property is not inductive: it needs that the software queue holds   *)
(* keyboard bytes only, that a read puts aside only bytes of the stream it *)
(* reads, and that the byte interruptOccurred saw before it dropped the    *)
(* lock is still in the port when it reads it.                             *)

BytesOf(d) == {b \in Byte : b.dev = d}

Reading == {"read", "poll"}

Sorted ==
    /\ keyboardQueue \in Seq(BytesOf("Keyboard"))
    /\ pc = "mouseReady" => MouseReady
    /\ pc \in Reading => call.held \in Seq(BytesOf(call.dev))
    /\ \A d \in Device : delivered[d] \in Seq(BytesOf(d))

\* A byte of its stream appended to what a driver got.
LEMMA DeliverSorted ==
    ASSUME TypeOK, Sorted, NEW d \in Device, NEW s \in Seq(BytesOf(d)),
           delivered' = [delivered EXCEPT ![d] = @ \o s]
    PROVE  \A e \in Device : delivered'[e] \in Seq(BytesOf(e))
<1>1. delivered[d] \o s \in Seq(BytesOf(d))
  BY DEF Sorted
<1> QED
  BY <1>1 DEF Sorted, TypeOK

LEMMA DeliverOneSorted ==
    ASSUME TypeOK, Sorted, NEW d \in Device, NEW b \in BytesOf(d),
           DispatchDriverInterrupt(d, b)
    PROVE  \A e \in Device : delivered'[e] \in Seq(BytesOf(e))
<1>1. Append(delivered[d], b) \in Seq(BytesOf(d))
  BY AppendOne DEF Sorted
<1> QED
  BY <1>1 DEF Sorted, TypeOK, DispatchDriverInterrupt

\* Whatever readDataPort decides about a byte of the stream it reads, what it
\* holds and what it dispatches stays sorted.
LEMMA AcceptSorted ==
    ASSUME TypeOK, Sorted, pc \in Reading, NEW b \in BytesOf(call.dev), Accept(b)
    PROVE  /\ pc' # "mouseReady"
           /\ pc' \in Reading => call'.held \in Seq(BytesOf(call'.dev))
           /\ \A d \in Device : delivered'[d] \in Seq(BytesOf(d))
<1> USE DEF Reading
<1>0. call.dev \in Device /\ call.held \in Seq(BytesOf(call.dev))
  BY DEF TypeOK, Call, Sorted
<1>1. CASE AcceptMatch(b)
  BY <1>0, <1>1, DeliverSorted DEF AcceptMatch, Return
<1>2. CASE AcceptHold(b)
  <2>1. call'.dev = call.dev /\ call'.held = Append(call.held, b)
    BY <1>2 DEF AcceptHold, TypeOK, Call
  <2>2. Append(call.held, b) \in Seq(BytesOf(call.dev))
    BY <1>0, AppendOne
  <2> QED
    BY <1>2, <2>1, <2>2 DEF AcceptHold, Sorted
<1>3. CASE AcceptFourthMismatch(b)
  BY <1>0, <1>3, DeliverOneSorted DEF AcceptFourthMismatch, Return
<1> QED
  BY <1>1, <1>2, <1>3 DEF Accept

\* Every step keeps the bytes sorted.
LEMMA SortedStep == TypeOK /\ TypeOK' /\ Sorted /\ [Next]_vars => Sorted'
<1> SUFFICES ASSUME TypeOK, TypeOK', Sorted, [Next]_vars
             PROVE  Sorted'
  OBVIOUS
<1> USE DEF hardware, history
<1>1. CASE \E d \in Device, v \in Value : DeviceSends(d, v)
  BY <1>1, SentinelAssumption DEF Sorted, DeviceSends, MouseReady
<1>2. CASE InterruptHandlerMouse
  BY <1>2 DEF Sorted, InterruptHandlerMouse, MouseReady
<1>3. CASE InterruptHandlerKeyboard
  <2>1. CASE HandlerParksByte
    <3>1. port \in BytesOf("Keyboard") /\ pc # "mouseReady"
      BY <2>1 DEF HandlerParksByte, KeyboardReady, MouseReady, Sorted, TypeOK, BytesOf
    <3>2. keyboardQueue' \in Seq(BytesOf("Keyboard"))
      <4>1. keyboardQueue' = Append(keyboardQueue, port) \/ keyboardQueue' = keyboardQueue
        BY <2>1 DEF HandlerParksByte, EnqueueKeyboardData
      <4> QED
        BY <3>1, <4>1, AppendOne DEF Sorted
    <3> QED
      BY <1>3, <2>1, <3>1, <3>2 DEF InterruptHandlerKeyboard, Sorted
  <2>2. CASE HandlerFindsMouseByte
    BY <1>3, <2>2 DEF InterruptHandlerKeyboard, HandlerFindsMouseByte, Sorted, MouseReady
  <2>3. CASE HandlerFindsNothing
    BY <1>3, <2>3 DEF InterruptHandlerKeyboard, HandlerFindsNothing, Sorted, MouseReady
  <2> QED
    BY <1>3, <2>1, <2>2, <2>3 DEF InterruptHandlerKeyboard
<1>4. CASE InterruptOccurred
  BY <1>4 DEF InterruptOccurred, Sorted, Reading
<1>5. CASE DispatchQueued
  <2>1. /\ Head(keyboardQueue) \in BytesOf("Keyboard")
        /\ Tail(keyboardQueue) \in Seq(BytesOf("Keyboard"))
    BY <1>5, HeadTail DEF DispatchQueued, Sorted
  <2>2. \A d \in Device : delivered'[d] \in Seq(BytesOf(d))
    <3>1. Head(keyboardQueue).dev = "Keyboard" /\ "Keyboard" \in Device
      BY <2>1 DEF BytesOf, Device
    <3> QED
      BY <1>5, <2>1, <3>1, DeliverOneSorted DEF DispatchQueued
  <2> QED
    BY <1>5, <2>1, <2>2 DEF DispatchQueued, Sorted, Reading
<1>6. CASE SeeMouseByte
  BY <1>6 DEF SeeMouseByte, Sorted, MouseReady, Reading
<1>7. CASE DispatchMouseByte
  <2>1. port \in BytesOf("Mouse") /\ "Mouse" \in Device
    BY <1>7 DEF DispatchMouseByte, Sorted, MouseReady, TypeOK, BytesOf, Device
  <2>2. \A d \in Device : delivered'[d] \in Seq(BytesOf(d))
    BY <1>7, <2>1, DeliverOneSorted DEF DispatchMouseByte
  <2> QED
    BY <1>7, <2>2 DEF DispatchMouseByte, Sorted, Reading
<1>8. CASE LeaveInterrupt
  BY <1>8 DEF LeaveInterrupt, Sorted, Reading
<1>9. CASE \E d \in Device, e \in Value \cup {AnyByte} : ReadDataPort(d, e)
  BY <1>9 DEF ReadDataPort, Sorted
<1>10. CASE ReadFromQueue
  <2>1. /\ Head(keyboardQueue) \in BytesOf(call.dev)
        /\ Tail(keyboardQueue) \in Seq(BytesOf("Keyboard"))
    BY <1>10, HeadTail DEF ReadFromQueue, Sorted
  <2> QED
    BY <1>10, <2>1, AcceptSorted DEF ReadFromQueue, Sorted, Reading
<1>11. CASE StartPolling
  BY <1>11 DEF StartPolling, Sorted, Reading
<1>12. CASE PollEmpty
  <2>1. call'.dev = call.dev /\ call'.held = call.held
    BY <1>12 DEF PollEmpty, TypeOK, Call
  <2> QED
    BY <1>12, <2>1 DEF PollEmpty, Sorted, Reading
<1>13. CASE PollReads
  <2>1. port \in BytesOf(call.dev)
    BY <1>13 DEF PollReads, TypeOK, BytesOf
  <2> QED
    BY <1>13, <2>1, AcceptSorted DEF PollReads, Sorted, Reading
<1>14. CASE PollDispatchesOther
  <2>1. Other(call.dev) \in Device /\ port \in BytesOf(Other(call.dev))
    <3>1. port \in Byte /\ port.dev \in Device /\ call.dev \in Device
      BY <1>14 DEF PollDispatchesOther, TypeOK, Byte, Call
    <3>2. port.dev = Other(call.dev)
      BY <1>14, <3>1 DEF PollDispatchesOther, Other, Device
    <3> QED
      BY <3>1, <3>2 DEF BytesOf
  <2>2. \A d \in Device : delivered'[d] \in Seq(BytesOf(d))
    BY <1>14, <2>1, DeliverOneSorted DEF PollDispatchesOther
  <2> QED
    BY <1>14, <2>2 DEF PollDispatchesOther, Sorted, Reading
<1>15. CASE PollTimesOut
  BY <1>15 DEF PollTimesOut, Return, Sorted, Reading
<1>16. CASE UNCHANGED vars
  BY <1>16 DEF vars, Sorted, MouseReady
<1> QED
  BY <1>1, <1>2, <1>3, <1>4, <1>5, <1>6, <1>7, <1>8, <1>9, <1>10, <1>11,
     <1>12, <1>13, <1>14, <1>15, <1>16
  DEF Next, InterruptTime, ServeInterrupt, ContinueRead

\* No driver ever gets a byte of the other device.
THEOREM BytesReachTheirDriver == Spec => []RightDriver
<1>1. Init => Sorted
  BY DEF Init, Sorted, Reading
<1>2. Sorted => RightDriver
  <2> SUFFICES ASSUME Sorted, NEW d \in Device, NEW i \in 1..Len(delivered[d])
               PROVE  delivered[d][i].dev = d
    BY DEF RightDriver
  <2>1. delivered[d] \in Seq(BytesOf(d))
    BY DEF Sorted
  <2>2. delivered[d][i] \in BytesOf(d)
    BY <2>1
  <2> QED
    BY <2>2 DEF BytesOf
<1> QED
  BY <1>1, <1>2, SortedStep, TypeCorrect, PTL DEF Spec

---------------------------------------------------------------------------
(* No wake-up is lost.                                                     *)
(*                                                                         *)
(* Outside the idle states the obligation to notice a byte lies with the   *)
(* drain in progress, which only leaves when it has seen the queue and the *)
(* port; a latched keyboard line always stands behind a keyboard byte.     *)

Draining == {"interrupt", "mouseReady"}

Noticed ==
    /\ keyboardQueue # <<>> => "Keyboard" \in signalled \/ pc \in Draining
    /\ MouseReady => "Mouse" \in irq \cup signalled \/ pc \in Draining
    /\ KeyboardReady => "Keyboard" \in irq

\* Whatever readDataPort decides about a byte, it does not start a drain.
LEMMA AcceptLeaves ==
    ASSUME NEW b, Accept(b)
    PROVE  pc' \in {"read", "idle"}
  BY DEF Accept, AcceptMatch, AcceptHold, AcceptFourthMismatch, Return

LEMMA NoticedStep == TypeOK /\ Noticed /\ [Next]_vars => Noticed'
<1> SUFFICES ASSUME TypeOK, Noticed, [Next]_vars
             PROVE  Noticed'
  OBVIOUS
<1> USE DEF hardware, history, Noticed, MouseReady, KeyboardReady, Draining
<1>1. CASE \E d \in Device, v \in Value : DeviceSends(d, v)
  BY <1>1 DEF DeviceSends
<1>2. CASE InterruptHandlerMouse
  BY <1>2 DEF InterruptHandlerMouse
<1>3. CASE InterruptHandlerKeyboard
  BY <1>3 DEF InterruptHandlerKeyboard, HandlerParksByte, HandlerFindsMouseByte,
              HandlerFindsNothing, TypeOK, Byte, Device
<1>4. CASE InterruptOccurred
  BY <1>4 DEF InterruptOccurred
<1>5. CASE DispatchQueued
  BY <1>5 DEF DispatchQueued
<1>6. CASE SeeMouseByte
  BY <1>6 DEF SeeMouseByte
<1>7. CASE DispatchMouseByte
  BY <1>7 DEF DispatchMouseByte
<1>8. CASE LeaveInterrupt
  BY <1>8 DEF LeaveInterrupt
<1>9. CASE \E d \in Device, e \in Value \cup {AnyByte} : ReadDataPort(d, e)
  BY <1>9 DEF ReadDataPort
<1>10. CASE ReadFromQueue
  <2>1. keyboardQueue # <<>> /\ pc \notin Draining
    BY <1>10 DEF ReadFromQueue
  <2> QED
    BY <1>10, <2>1, AcceptLeaves DEF ReadFromQueue
<1>11. CASE StartPolling
  BY <1>11 DEF StartPolling
<1>12. CASE PollEmpty
  BY <1>12 DEF PollEmpty
<1>13. CASE PollReads
  BY <1>13, AcceptLeaves DEF PollReads
<1>14. CASE PollDispatchesOther
  BY <1>14 DEF PollDispatchesOther
<1>15. CASE PollTimesOut
  BY <1>15 DEF PollTimesOut, Return
<1>16. CASE UNCHANGED vars
  BY <1>16 DEF vars
<1> QED
  BY <1>1, <1>2, <1>3, <1>4, <1>5, <1>6, <1>7, <1>8, <1>9, <1>10, <1>11,
     <1>12, <1>13, <1>14, <1>15, <1>16
  DEF Next, InterruptTime, ServeInterrupt, ContinueRead

\* An idle work loop always has a signal, or a latched interrupt, for every
\* byte that waits for it.
THEOREM WakeupsAreKept == Spec => []NoLostWakeup
<1>1. Init => Noticed
  BY DEF Init, Noticed, MouseReady, KeyboardReady
<1>2. Noticed => NoLostWakeup
  BY DEF Noticed, NoLostWakeup, Draining
<1> QED
  BY <1>1, <1>2, NoticedStep, TypeCorrect, PTL DEF Spec

---------------------------------------------------------------------------
(* The mouse driver gets its bytes in order.                               *)
(*                                                                         *)
(* A read that puts mouse bytes aside dispatches them later: they come     *)
(* after all that was delivered, in their order, and before the byte in    *)
(* the port, which is always the last one sent.                            *)

HeldBack == IF pc \in Reading /\ call.dev = "Mouse" THEN call.held ELSE <<>>

Stream == delivered["Mouse"] \o HeldBack

InOrderUpTo(s, n) == InOrder(s) /\ \A i \in 1..Len(s) : s[i].id <= n

PassedOn == IF MouseReady THEN sent["Mouse"] - 1 ELSE sent["Mouse"]

MouseLine ==
    /\ InOrderUpTo(Stream, PassedOn)
    /\ MouseReady => port.id = sent["Mouse"]

\* A later byte at the end of a stream keeps it in order.
LEMMA OrderAppend ==
    ASSUME NEW s \in Seq(Byte), NEW n \in Int, InOrderUpTo(s, n),
           NEW b \in Byte, b.id > n, NEW m \in Int, b.id <= m
    PROVE  InOrderUpTo(Append(s, b), m)
<1> DEFINE t == Append(s, b)
<1>0. /\ Len(s) \in Nat /\ Len(t) = Len(s) + 1
      /\ \A i \in 1..Len(s) : t[i] = s[i]
      /\ t[Len(s) + 1] = b
  BY AppendProperties
<1> HIDE DEF t
<1>1. \A i \in 1..Len(t) : i \in 1..Len(s) \/ i = Len(s) + 1
  BY <1>0
<1>2. \A i \in 1..Len(s) : s[i].id \in Nat /\ s[i].id <= n
  <2>1. \A i \in 1..Len(s) : s[i] \in Byte
    BY ElementOfSeq
  <2> QED
    BY <2>1 DEF InOrderUpTo, Byte
<1>3. b.id \in Nat
  BY DEF Byte
<1>4. ASSUME NEW i \in 1..Len(t), NEW j \in 1..Len(t), i < j
      PROVE  t[i].id < t[j].id
  <2>1. i \in 1..Len(s)
    BY <1>0, <1>4
  <2>2. CASE j \in 1..Len(s)
    BY <1>0, <1>4, <2>1, <2>2 DEF InOrderUpTo, InOrder
  <2>3. CASE j = Len(s) + 1
    BY <1>0, <1>2, <1>3, <2>1, <2>3
  <2> QED
    BY <1>1, <2>2, <2>3
<1>5. ASSUME NEW i \in 1..Len(t)
      PROVE  t[i].id <= m
  BY <1>0, <1>1, <1>2, <1>3
<1> QED
  BY <1>4, <1>5 DEF InOrderUpTo, InOrder, t

\* What comes first in a stream in order is in order.
LEMMA OrderPrefix ==
    ASSUME NEW p \in Seq(Byte), NEW q \in Seq(Byte), NEW n, InOrderUpTo(p \o q, n)
    PROVE  InOrderUpTo(p, n)
<1>1. /\ Len(p) \in Nat /\ Len(q) \in Nat /\ Len(p \o q) = Len(p) + Len(q)
      /\ \A i \in 1..Len(p) : (p \o q)[i] = p[i]
  OBVIOUS
<1>2. \A i \in 1..Len(p) : i \in 1..Len(p \o q)
  BY <1>1
<1> QED
  BY <1>1, <1>2 DEF InOrderUpTo, InOrder

\* Appending to the second of two streams appends to both together.
LEMMA AppendAfter ==
    ASSUME NEW p \in Seq(Byte), NEW q \in Seq(Byte), NEW b \in Byte
    PROVE  p \o Append(q, b) = Append(p \o q, b)
<1>1. Append(q, b) = q \o <<b>>
  BY AppendIsConcat
<1>2. Append(p \o q, b) = (p \o q) \o <<b>>
  BY AppendIsConcat
<1>3. <<b>> \in Seq(Byte)
  OBVIOUS
<1> QED
  BY <1>1, <1>2, <1>3, ConcatAssociative

\* A larger bound is a bound.
LEMMA OrderWeaken ==
    ASSUME NEW s \in Seq(Byte), NEW n \in Int, NEW m \in Int, n <= m,
           InOrderUpTo(s, n)
    PROVE  InOrderUpTo(s, m)
<1>1. \A i \in 1..Len(s) : s[i].id \in Nat
  <2>1. \A i \in 1..Len(s) : s[i] \in Byte
    BY ElementOfSeq
  <2> QED
    BY <2>1 DEF Byte
<1>2. \A i \in 1..Len(s) : s[i].id <= m
  BY <1>1 DEF InOrderUpTo
<1> QED
  BY <1>2 DEF InOrderUpTo

\* The types of the streams.
LEMMA StreamTyped ==
    ASSUME TypeOK
    PROVE  /\ delivered["Mouse"] \in Seq(Byte) /\ HeldBack \in Seq(Byte)
           /\ Stream \in Seq(Byte)
           /\ sent["Mouse"] \in Nat /\ PassedOn \in Int
<1>1. delivered["Mouse"] \in Seq(Byte) /\ sent["Mouse"] \in Nat
  BY DEF TypeOK, Device
<1>2. HeldBack \in Seq(Byte)
  BY DEF TypeOK, Call, HeldBack
<1> QED
  BY <1>1, <1>2 DEF Stream, PassedOn

\* Nothing changes for the mouse driver.
LEMMA SameStream ==
    ASSUME TypeOK, MouseLine,
           Stream' = Stream \/ Stream' = delivered["Mouse"],
           sent'["Mouse"] = sent["Mouse"],
           MouseReady' => MouseReady /\ port' = port
    PROVE  MouseLine'
<1>0. /\ delivered["Mouse"] \in Seq(Byte) /\ HeldBack \in Seq(Byte)
      /\ Stream \in Seq(Byte) /\ sent["Mouse"] \in Nat /\ PassedOn \in Int
  BY StreamTyped
<1>1. InOrderUpTo(Stream, PassedOn) /\ InOrderUpTo(delivered["Mouse"], PassedOn)
  BY <1>0, OrderPrefix DEF MouseLine, Stream
<1>2. PassedOn' \in Int /\ PassedOn <= PassedOn'
  BY <1>0 DEF PassedOn
<1>3. InOrderUpTo(Stream', PassedOn')
  BY <1>0, <1>1, <1>2, OrderWeaken
<1>4. MouseReady' => port'.id = sent'["Mouse"]
  BY DEF MouseLine
<1> QED
  BY <1>3, <1>4 DEF MouseLine

\* The mouse byte in the port goes to the end of the stream, or of what was
\* delivered.
LEMMA PortToStream ==
    ASSUME TypeOK, MouseLine, MouseReady, port' = NoByte, sent' = sent,
           \/ Stream' = Append(Stream, port)
           \/ Stream' = Append(delivered["Mouse"], port)
    PROVE  MouseLine'
<1>0. /\ delivered["Mouse"] \in Seq(Byte) /\ HeldBack \in Seq(Byte)
      /\ Stream \in Seq(Byte) /\ sent["Mouse"] \in Nat
  BY StreamTyped
<1>1. PassedOn = sent["Mouse"] - 1 /\ PassedOn' = sent["Mouse"] /\ ~MouseReady'
  BY DEF PassedOn, MouseReady
<1>2. port \in Byte /\ port.id = sent["Mouse"]
  BY DEF TypeOK, MouseReady, MouseLine
<1>3. InOrderUpTo(Stream, PassedOn) /\ InOrderUpTo(delivered["Mouse"], PassedOn)
  BY <1>0, OrderPrefix DEF MouseLine, Stream
<1>4. InOrderUpTo(Stream', PassedOn')
  <2>1. sent["Mouse"] - 1 \in Int /\ port.id > sent["Mouse"] - 1 /\ port.id <= sent["Mouse"]
    BY <1>0, <1>2
  <2>2. ASSUME NEW s \in Seq(Byte), InOrderUpTo(s, sent["Mouse"] - 1)
        PROVE  InOrderUpTo(Append(s, port), sent["Mouse"])
    BY <1>0, <1>2, <2>1, <2>2, OrderAppend
  <2>3. /\ InOrderUpTo(Append(Stream, port), sent["Mouse"])
        /\ InOrderUpTo(Append(delivered["Mouse"], port), sent["Mouse"])
    BY <1>0, <1>1, <1>3, <2>2
  <2> QED
    BY <1>1, <2>3
<1> QED
  BY <1>1, <1>4 DEF MouseLine

\* A read of the keyboard leaves the mouse driver's stream alone.
LEMMA AcceptForKeyboard ==
    ASSUME TypeOK, MouseLine, call.dev = "Keyboard", NEW b, Accept(b)
    PROVE  Stream' = Stream
<1>1. HeldBack = <<>> /\ HeldBack' = <<>>
  <2>1. call'.dev = "Keyboard"
    BY DEF Accept, AcceptMatch, AcceptHold, AcceptFourthMismatch, TypeOK, Call
  <2> QED
    BY <2>1 DEF HeldBack
<1>2. delivered'["Mouse"] = delivered["Mouse"]
  BY DEF Accept, AcceptMatch, AcceptHold, AcceptFourthMismatch,
     DispatchDriverInterrupt, TypeOK, Device
<1> QED
  BY <1>1, <1>2 DEF Stream

\* A read of the mouse keeps the order whatever it does with the byte.
LEMMA AcceptForMouse ==
    ASSUME TypeOK, MouseLine, pc \in Reading, call.dev = "Mouse",
           port # NoByte, port.dev = "Mouse", port' = NoByte, sent' = sent,
           Accept(port)
    PROVE  MouseLine'
<1>0. /\ delivered["Mouse"] \in Seq(Byte) /\ call.held \in Seq(Byte)
      /\ HeldBack = call.held /\ port \in Byte
  BY StreamTyped DEF TypeOK, Call, HeldBack
<1>m. MouseReady /\ ~MouseReady'
  BY DEF MouseReady
<1>1. CASE AcceptMatch(port)
  <2>1. HeldBack' = <<>>
    BY <1>1 DEF AcceptMatch, Return, HeldBack, Reading
  <2>2. delivered'["Mouse"] = delivered["Mouse"] \o call.held
    BY <1>1 DEF AcceptMatch, TypeOK, Device
  <2>3. Stream' = Stream
    <3>1. Stream' = (delivered["Mouse"] \o call.held) \o <<>>
      BY <2>1, <2>2 DEF Stream
    <3>2. Stream = delivered["Mouse"] \o call.held
      BY <1>0 DEF Stream
    <3> QED
      BY <3>1, <3>2, <1>0, ConcatEmptySeq
  <2> QED
    BY <1>m, <2>3, SameStream
<1>2. CASE AcceptHold(port)
  <2>1. /\ call'.dev = "Mouse" /\ call'.held = Append(call.held, port)
        /\ pc' = "read" /\ delivered' = delivered
    BY <1>2 DEF AcceptHold, TypeOK, Call
  <2>2. HeldBack' = Append(call.held, port)
    BY <2>1 DEF HeldBack, Reading
  <2>3. Stream' = Append(Stream, port)
    <3>1. delivered["Mouse"] \o Append(call.held, port)
              = Append(delivered["Mouse"] \o call.held, port)
      BY <1>0, AppendAfter
    <3> QED
      BY <1>0, <2>1, <2>2, <3>1 DEF Stream
  <2> QED
    BY <1>m, <2>3, PortToStream
<1>3. CASE AcceptFourthMismatch(port)
  <2>1. HeldBack' = <<>>
    BY <1>3 DEF AcceptFourthMismatch, Return, HeldBack, Reading
  <2>2. delivered'["Mouse"] = Append(delivered["Mouse"], port)
    BY <1>3 DEF AcceptFourthMismatch, DispatchDriverInterrupt, TypeOK, Device
  <2>3. Stream' = Append(delivered["Mouse"], port)
    <3>1. Append(delivered["Mouse"], port) \in Seq(Byte)
      BY <1>0
    <3> QED
      BY <2>1, <2>2, <3>1, ConcatEmptySeq DEF Stream
  <2> QED
    BY <1>m, <2>3, PortToStream
<1> QED
  BY <1>1, <1>2, <1>3 DEF Accept

LEMMA MouseLineStep == TypeOK /\ Sorted /\ MouseLine /\ [Next]_vars => MouseLine'
<1> SUFFICES ASSUME TypeOK, Sorted, MouseLine, [Next]_vars
             PROVE  MouseLine'
  OBVIOUS
<1> USE DEF hardware, history
<1>0. /\ delivered["Mouse"] \in Seq(Byte) /\ HeldBack \in Seq(Byte)
      /\ Stream \in Seq(Byte) /\ sent["Mouse"] \in Nat /\ PassedOn \in Int
  BY StreamTyped
<1>1. CASE \E d \in Device, v \in Value : DeviceSends(d, v)
  <2> PICK d \in Device, v \in Value : DeviceSends(d, v)
    BY <1>1
  <2>1. ~MouseReady /\ Stream' = Stream
    BY DEF DeviceSends, MouseReady, Stream, HeldBack
  <2>2. PassedOn' = sent["Mouse"] /\ (MouseReady' => port'.id = sent'["Mouse"])
    <3>1. CASE d = "Mouse"
      <4>1. sent'["Mouse"] = sent["Mouse"] + 1 /\ port'.id = sent["Mouse"] + 1
        BY <3>1 DEF DeviceSends, TypeOK
      <4>2. port'.dev = "Mouse" /\ port' # NoByte
        <5>1. port' \in Byte
          BY <1>0, <3>1 DEF DeviceSends, Byte
        <5> QED
          BY <3>1, <5>1, SentinelAssumption DEF DeviceSends
      <4>3. MouseReady'
        BY <4>2 DEF MouseReady
      <4> QED
        BY <1>0, <4>1, <4>3 DEF PassedOn
    <3>2. CASE d # "Mouse"
      <4>1. sent'["Mouse"] = sent["Mouse"] /\ ~MouseReady'
        BY <3>2 DEF DeviceSends, TypeOK, MouseReady
      <4> QED
        BY <4>1 DEF PassedOn
    <3> QED
      BY <3>1, <3>2
  <2>3. PassedOn = sent["Mouse"]
    BY <2>1 DEF PassedOn
  <2> QED
    BY <2>1, <2>2, <2>3 DEF MouseLine
<1>2. CASE InterruptHandlerMouse \/ InterruptOccurred \/ SeeMouseByte \/ LeaveInterrupt
           \/ UNCHANGED vars
  <2>1. UNCHANGED <<port, sent, delivered, call>> /\ (pc \in Reading <=> pc' \in Reading)
    BY <1>2 DEF InterruptHandlerMouse, InterruptOccurred, SeeMouseByte, LeaveInterrupt,
       vars, Reading
  <2>2. HeldBack' = HeldBack
    BY <2>1 DEF HeldBack
  <2>3. Stream' = Stream
    BY <2>1, <2>2 DEF Stream
  <2>4. MouseReady' <=> MouseReady
    BY <2>1 DEF MouseReady
  <2> QED
    BY <2>1, <2>3, <2>4, SameStream
<1>3. CASE InterruptHandlerKeyboard
  <2>1. UNCHANGED <<sent, delivered, call, pc>> /\ (port' = port \/ port' = NoByte)
    BY <1>3 DEF InterruptHandlerKeyboard, HandlerParksByte, HandlerFindsMouseByte,
       HandlerFindsNothing
  <2>2. Stream' = Stream
    BY <2>1 DEF Stream, HeldBack
  <2>3. MouseReady' => MouseReady /\ port' = port
    BY <2>1 DEF MouseReady
  <2> QED
    BY <2>1, <2>2, <2>3, SameStream
<1>4. CASE DispatchQueued
  <2>1. UNCHANGED <<port, sent, call, pc>> /\ delivered'["Mouse"] = delivered["Mouse"]
    BY <1>4 DEF DispatchQueued, DispatchDriverInterrupt, TypeOK, Device
  <2>2. Stream' = Stream
    BY <2>1 DEF Stream, HeldBack
  <2>3. MouseReady' <=> MouseReady
    BY <2>1 DEF MouseReady
  <2> QED
    BY <2>1, <2>2, <2>3, SameStream
\* A byte handed straight to the mouse driver while nothing is held back.
<1>5. ASSUME MouseReady, port' = NoByte, sent' = sent, HeldBack = <<>>, HeldBack' = <<>>,
             DispatchDriverInterrupt("Mouse", port)
      PROVE  MouseLine'
  <2>1. delivered'["Mouse"] = Append(delivered["Mouse"], port)
    BY <1>5 DEF DispatchDriverInterrupt, TypeOK, Device
  <2>2. Append(delivered["Mouse"], port) \in Seq(Byte)
    BY <1>0, <1>5 DEF TypeOK, MouseReady
  <2>3. Stream' = Append(delivered["Mouse"], port)
    BY <1>5, <2>1, <2>2, ConcatEmptySeq DEF Stream
  <2> QED
    BY <1>5, <2>3, PortToStream
<1>6. CASE DispatchMouseByte
  <2>1. MouseReady /\ HeldBack = <<>> /\ HeldBack' = <<>>
    BY <1>6 DEF DispatchMouseByte, Sorted, HeldBack, Reading
  <2> QED
    BY <1>5, <1>6, <2>1 DEF DispatchMouseByte
<1>7. CASE \E d \in Device, e \in Value \cup {AnyByte} : ReadDataPort(d, e)
  <2>1. UNCHANGED <<port, sent, delivered>> /\ HeldBack = <<>> /\ HeldBack' = <<>>
    BY <1>7 DEF ReadDataPort, HeldBack, Reading
  <2>2. Stream' = Stream
    BY <2>1 DEF Stream
  <2>3. MouseReady' <=> MouseReady
    BY <2>1 DEF MouseReady
  <2> QED
    BY <2>1, <2>2, <2>3, SameStream
<1>8. CASE ReadFromQueue
  <2>1. UNCHANGED <<port, sent>> /\ call.dev = "Keyboard" /\ Accept(Head(keyboardQueue))
    BY <1>8 DEF ReadFromQueue
  <2>2. Stream' = Stream
    BY <2>1, AcceptForKeyboard
  <2>3. MouseReady' <=> MouseReady
    BY <2>1 DEF MouseReady
  <2> QED
    BY <2>1, <2>2, <2>3, SameStream
<1>9. CASE StartPolling \/ PollEmpty
  <2>1. /\ UNCHANGED <<port, sent, delivered>>
        /\ call'.dev = call.dev /\ call'.held = call.held
        /\ pc \in Reading /\ pc' \in Reading
    BY <1>9 DEF StartPolling, PollEmpty, Reading, TypeOK, Call
  <2>2. Stream' = Stream
    BY <2>1 DEF Stream, HeldBack
  <2>3. MouseReady' <=> MouseReady
    BY <2>1 DEF MouseReady
  <2> QED
    BY <2>1, <2>2, <2>3, SameStream
<1>10. CASE PollReads
  <2>1. /\ port' = NoByte /\ sent' = sent /\ Accept(port) /\ pc \in Reading
        /\ port # NoByte /\ port.dev = call.dev
    BY <1>10 DEF PollReads, Reading
  <2>2. CASE call.dev = "Mouse"
    BY <2>1, <2>2, AcceptForMouse
  <2>3. CASE call.dev # "Mouse"
    <3>1. call.dev = "Keyboard"
      BY <2>3 DEF TypeOK, Call, Device
    <3>2. Stream' = Stream /\ ~MouseReady'
      BY <2>1, <3>1, AcceptForKeyboard DEF MouseReady
    <3> QED
      BY <2>1, <3>2, SameStream
  <2> QED
    BY <2>2, <2>3
<1>11. CASE PollDispatchesOther
  <2>1. /\ port' = NoByte /\ sent' = sent /\ port # NoByte /\ port.dev # call.dev
        /\ DispatchDriverInterrupt(Other(call.dev), port)
        /\ call' = call /\ pc \in Reading /\ pc' \in Reading
        /\ call.dev \in Device /\ port.dev \in Device
    BY <1>11 DEF PollDispatchesOther, Reading, TypeOK, Call, Byte
  <2>2. CASE call.dev = "Keyboard"
    <3>1. MouseReady /\ HeldBack = <<>> /\ HeldBack' = <<>>
      BY <2>1, <2>2 DEF MouseReady, HeldBack, Device
    <3>2. DispatchDriverInterrupt("Mouse", port)
      BY <2>1, <2>2 DEF Other
    <3> QED
      BY <1>5, <2>1, <3>1, <3>2
  <2>3. CASE call.dev # "Keyboard"
    <3>1. DispatchDriverInterrupt("Keyboard", port)
      BY <2>1, <2>3 DEF Other, Device
    <3>2. delivered'["Mouse"] = delivered["Mouse"]
      BY <3>1 DEF DispatchDriverInterrupt, TypeOK, Device
    <3>3. HeldBack' = HeldBack
      BY <2>1 DEF HeldBack
    <3>4. Stream' = Stream /\ ~MouseReady'
      BY <2>1, <3>2, <3>3 DEF Stream, MouseReady
    <3> QED
      BY <2>1, <3>4, SameStream
  <2> QED
    BY <2>2, <2>3
<1>12. CASE PollTimesOut
  <2>1. UNCHANGED <<port, sent, delivered>> /\ HeldBack' = <<>>
    BY <1>12 DEF PollTimesOut, Return, HeldBack, Reading
  <2>2. Stream' = delivered["Mouse"]
    BY <1>0, <2>1, ConcatEmptySeq DEF Stream
  <2>3. MouseReady' <=> MouseReady
    BY <2>1 DEF MouseReady
  <2> QED
    BY <2>1, <2>2, <2>3, SameStream
<1> QED
  BY <1>1, <1>2, <1>3, <1>4, <1>6, <1>7, <1>8, <1>9, <1>10, <1>11, <1>12
  DEF Next, InterruptTime, ServeInterrupt, ContinueRead

\* The mouse driver gets its bytes in the order the device sent them, also
\* across reads that put bytes aside, match late, mismatch a fourth time or
\* give up.
THEOREM MouseBytesInOrder == Spec => []MouseInOrder
<1>1. Init => Sorted /\ MouseLine
  <2> SUFFICES ASSUME Init
               PROVE  Sorted /\ MouseLine
    OBVIOUS
  <2>1. Sorted
    BY DEF Init, Sorted, Reading
  <2>2. delivered["Mouse"] = <<>> /\ HeldBack = <<>> /\ ~MouseReady /\ Len(Stream) = 0
    BY DEF Init, HeldBack, Reading, Device, MouseReady, Stream
  <2> QED
    BY <2>1, <2>2 DEF MouseLine, InOrderUpTo, InOrder
<1>2. TypeOK /\ MouseLine => MouseInOrder
  BY StreamTyped, OrderPrefix DEF MouseLine, Stream, MouseInOrder, InOrderUpTo
<1> QED
  BY <1>1, <1>2, SortedStep, MouseLineStep, TypeCorrect, PTL DEF Spec

---------------------------------------------------------------------------
(* Sequences without repetition and the sets of their elements.            *)

Distinct(s) == \A i, j \in 1..Len(s) : i # j => s[i] # s[j]

LEMMA ToSetOf ==
    ASSUME NEW S, NEW s \in Seq(S)
    PROVE  /\ ToSet(s) = {s[i] : i \in 1..Len(s)}
           /\ ToSet(s) \subseteq S
<1>1. DOMAIN s = 1..Len(s)
  OBVIOUS
<1>2. ToSet(s) = {s[i] : i \in 1..Len(s)}
  BY <1>1 DEF ToSet
<1>3. \A i \in 1..Len(s) : s[i] \in S
  BY ElementOfSeq
<1> QED
  BY <1>2, <1>3

LEMMA ToSetEmpty == ToSet(<<>>) = {} /\ Distinct(<<>>)
  BY DEF ToSet, Distinct

LEMMA ToSetAppend ==
    ASSUME NEW S, NEW s \in Seq(S), NEW e \in S
    PROVE  /\ ToSet(Append(s, e)) = ToSet(s) \cup {e}
           /\ Distinct(s) /\ e \notin ToSet(s) => Distinct(Append(s, e))
<1> DEFINE t == Append(s, e)
<1>0. /\ t \in Seq(S) /\ Len(s) \in Nat /\ Len(t) = Len(s) + 1
      /\ \A i \in 1..Len(s) : t[i] = s[i]
      /\ t[Len(s) + 1] = e
  BY AppendProperties
<1>1. ToSet(s) = {s[i] : i \in 1..Len(s)} /\ ToSet(t) = {t[i] : i \in 1..Len(t)}
  BY <1>0, ToSetOf
<1> HIDE DEF t
<1>2. \A i \in 1..Len(t) : i \in 1..Len(s) \/ i = Len(s) + 1
  BY <1>0
<1>3. 1..Len(s) \subseteq 1..Len(t) /\ Len(s) + 1 \in 1..Len(t)
  BY <1>0
<1>4. ToSet(t) = ToSet(s) \cup {e}
  <2>1. ToSet(t) \subseteq ToSet(s) \cup {e}
    BY <1>0, <1>1, <1>2
  <2>2. ToSet(s) \subseteq ToSet(t)
    BY <1>0, <1>1, <1>3
  <2>3. e \in ToSet(t)
    BY <1>0, <1>1, <1>3
  <2> QED
    BY <2>1, <2>2, <2>3
<1>5. ASSUME Distinct(s), e \notin ToSet(s)
      PROVE  Distinct(t)
  <2>1. \A i \in 1..Len(s) : s[i] # e
    BY <1>1, <1>5
  <2> QED
    BY <1>0, <1>2, <1>5, <2>1 DEF Distinct
<1> QED
  BY <1>4, <1>5 DEF t

LEMMA ToSetConcat ==
    ASSUME NEW S, NEW s \in Seq(S), NEW t \in Seq(S)
    PROVE  /\ ToSet(s \o t) = ToSet(s) \cup ToSet(t)
           /\ Distinct(s) /\ Distinct(t) /\ ToSet(s) \cap ToSet(t) = {}
                => Distinct(s \o t)
<1> DEFINE u == s \o t
<1>0. /\ u \in Seq(S) /\ Len(s) \in Nat /\ Len(t) \in Nat
      /\ Len(u) = Len(s) + Len(t)
      /\ \A i \in 1..Len(s) + Len(t) :
             u[i] = IF i <= Len(s) THEN s[i] ELSE t[i - Len(s)]
  BY ConcatProperties
<1>1. /\ ToSet(s) = {s[i] : i \in 1..Len(s)} /\ ToSet(t) = {t[i] : i \in 1..Len(t)}
      /\ ToSet(u) = {u[i] : i \in 1..Len(u)}
  BY <1>0, ToSetOf
<1> HIDE DEF u
<1>2. ASSUME NEW i \in 1..Len(u)
      PROVE  \/ i \in 1..Len(s) /\ u[i] = s[i]
             \/ i - Len(s) \in 1..Len(t) /\ u[i] = t[i - Len(s)]
  <2>1. CASE i <= Len(s)
    BY <1>0, <2>1
  <2>2. CASE ~(i <= Len(s))
    <3>1. i - Len(s) \in 1..Len(t)
      BY <1>0, <2>2
    <3>2. u[i] = t[i - Len(s)]
      BY <1>0, <2>2
    <3> QED
      BY <3>1, <3>2
  <2> QED
    BY <2>1, <2>2
<1>3. \A i \in 1..Len(s) : i \in 1..Len(u) /\ u[i] = s[i]
  BY <1>0
<1>4. ASSUME NEW i \in 1..Len(t)
      PROVE  i + Len(s) \in 1..Len(u) /\ u[i + Len(s)] = t[i]
  <2>1. i + Len(s) \in 1..Len(s) + Len(t) /\ ~(i + Len(s) <= Len(s))
        /\ (i + Len(s)) - Len(s) = i
    BY <1>0
  <2> QED
    BY <1>0, <2>1
<1>5. ToSet(u) = ToSet(s) \cup ToSet(t)
  <2>1. ToSet(u) \subseteq ToSet(s) \cup ToSet(t)
    BY <1>1, <1>2
  <2>2. ToSet(s) \subseteq ToSet(u)
    BY <1>1, <1>3
  <2>3. ToSet(t) \subseteq ToSet(u)
    BY <1>1, <1>4
  <2> QED
    BY <2>1, <2>2, <2>3
<1>6. ASSUME Distinct(s), Distinct(t), ToSet(s) \cap ToSet(t) = {}
      PROVE  Distinct(u)
  <2> SUFFICES ASSUME NEW i \in 1..Len(u), NEW j \in 1..Len(u), i # j
               PROVE  u[i] # u[j]
    BY DEF Distinct
  <2>0. \A a \in 1..Len(s), b \in 1..Len(t) : s[a] # t[b]
    BY <1>1, <1>6
  <2>1. CASE i \in 1..Len(s) /\ u[i] = s[i]
    <3>1. CASE j \in 1..Len(s) /\ u[j] = s[j]
      BY <1>6, <2>1, <3>1 DEF Distinct
    <3>2. CASE j - Len(s) \in 1..Len(t) /\ u[j] = t[j - Len(s)]
      BY <2>0, <2>1, <3>2
    <3> QED
      BY <1>2, <3>1, <3>2
  <2>2. CASE i - Len(s) \in 1..Len(t) /\ u[i] = t[i - Len(s)]
    <3>1. CASE j \in 1..Len(s) /\ u[j] = s[j]
      BY <2>0, <2>2, <3>1
    <3>2. CASE j - Len(s) \in 1..Len(t) /\ u[j] = t[j - Len(s)]
      <4>1. i - Len(s) # j - Len(s)
        BY <1>0
      <4> QED
        BY <1>6, <2>2, <3>2, <4>1 DEF Distinct
    <3> QED
      BY <1>2, <3>1, <3>2
  <2> QED
    BY <1>2, <2>1, <2>2
<1> QED
  BY <1>5, <1>6 DEF u

\* A sequence that is not empty is its head before its tail.
LEMMA ToSetTail ==
    ASSUME NEW S, NEW s \in Seq(S), s # <<>>, Distinct(s)
    PROVE  /\ Head(s) \in ToSet(s) /\ Distinct(Tail(s))
           /\ ToSet(Tail(s)) = ToSet(s) \ {Head(s)}
<1> DEFINE t == Tail(s)
<1>0. /\ t \in Seq(S) /\ Len(t) = Len(s) - 1 /\ Len(s) \in Nat \ {0}
      /\ \A i \in 1..Len(t) : t[i] = s[i + 1]
      /\ Head(s) = s[1]
  BY HeadTailProperties
<1>1. ToSet(s) = {s[i] : i \in 1..Len(s)} /\ ToSet(t) = {t[i] : i \in 1..Len(t)}
  BY <1>0, ToSetOf
<1> HIDE DEF t
<1>2. 1 \in 1..Len(s) /\ \A i \in 1..Len(t) : i + 1 \in 1..Len(s) /\ i + 1 # 1
  BY <1>0
<1>3. \A i \in 1..Len(s) : i = 1 \/ (i - 1 \in 1..Len(t) /\ (i - 1) + 1 = i)
  BY <1>0
<1>4. Distinct(t)
  <2> SUFFICES ASSUME NEW i \in 1..Len(t), NEW j \in 1..Len(t), i # j
               PROVE  t[i] # t[j]
    BY DEF Distinct
  <2>1. i + 1 # j + 1
    OBVIOUS
  <2> QED
    BY <1>0, <1>2, <2>1 DEF Distinct
<1>5. ToSet(t) \subseteq ToSet(s) \ {Head(s)}
  <2> SUFFICES ASSUME NEW i \in 1..Len(t)
               PROVE  t[i] \in ToSet(s) /\ t[i] # Head(s)
    BY <1>1
  <2> QED
    BY <1>0, <1>1, <1>2 DEF Distinct
<1>6. ToSet(s) \ {Head(s)} \subseteq ToSet(t)
  <2> SUFFICES ASSUME NEW i \in 1..Len(s), s[i] # Head(s)
               PROVE  s[i] \in ToSet(t)
    BY <1>1
  <2>1. i - 1 \in 1..Len(t) /\ t[i - 1] = s[i]
    BY <1>0, <1>3
  <2> QED
    BY <1>1, <2>1
<1> QED
  BY <1>0, <1>1, <1>2, <1>4, <1>5, <1>6 DEF t

\* As many elements as places.
LEMMA CountSeq ==
    ASSUME NEW S, NEW s \in Seq(S)
    PROVE  /\ IsFiniteSet(ToSet(s))
           /\ Distinct(s) => Cardinality(ToSet(s)) = Len(s)
<1>1. Len(s) \in Nat /\ ToSet(s) = {s[i] : i \in 1..Len(s)} /\ s \in [1..Len(s) -> ToSet(s)]
  <2>1. Len(s) \in Nat /\ s \in [1..Len(s) -> S]
    BY LenProperties
  <2>2. ToSet(s) = {s[i] : i \in 1..Len(s)}
    BY ToSetOf
  <2> QED
    BY <2>1, <2>2
<1>2. s \in Surjection(1..Len(s), ToSet(s))
  BY <1>1 DEF Surjection
<1>3. IsFiniteSet(ToSet(s))
  BY <1>1, <1>2, FS_NatSurjection DEF ExistsSurjection
<1>4. ASSUME Distinct(s)
      PROVE  Cardinality(ToSet(s)) = Len(s)
  <2>1. s \in Injection(1..Len(s), ToSet(s))
    BY <1>1, <1>4 DEF Injection, IsInjective, Distinct
  <2>2. ExistsBijection(1..Len(s), ToSet(s))
    BY <1>2, <2>1 DEF ExistsBijection, Bijection
  <2> QED
    BY <1>1, <2>2, FS_CountingElements
<1> QED
  BY <1>3, <1>4

\* Two sets with nothing in common.
LEMMA CountDisjoint ==
    ASSUME NEW S, NEW T, IsFiniteSet(S), IsFiniteSet(T), S \cap T = {}
    PROVE  /\ IsFiniteSet(S \cup T)
           /\ Cardinality(S \cup T) = Cardinality(S) + Cardinality(T)
<1>1. /\ IsFiniteSet(S \cup T)
      /\ Cardinality(S \cup T) = Cardinality(S) + Cardinality(T) - Cardinality(S \cap T)
  BY FS_Union
<1>2. Cardinality(S \cap T) = 0 /\ Cardinality(S) \in Nat /\ Cardinality(T) \in Nat
  BY FS_EmptySet, FS_CardinalityType
<1> QED
  BY <1>1, <1>2

---------------------------------------------------------------------------
(* Where the bytes are.  Every byte sent is in one of seven places, or was *)
(* forgotten by a read that gave up; a step moves a set of bytes from one  *)
(* place to another, or two such sets.                                     *)

Place == {"port", "queue", "held", "Keyboard", "Mouse", "returned", "dropped"}

Where == [p \in Place |->
    CASE p = "port"     -> Waiting
      [] p = "queue"    -> ToSet(keyboardQueue)
      [] p = "held"     -> ToSet(Held)
      [] p = "returned" -> returned
      [] p = "dropped"  -> dropped
      [] OTHER          -> ToSet(delivered[p])]

LEMMA WhereIs ==
    /\ Where = [p \in Place |-> Where[p]]
    /\ Where["port"] = Waiting
    /\ Where["queue"] = ToSet(keyboardQueue)
    /\ Where["held"] = ToSet(Held)
    /\ Where["returned"] = returned
    /\ Where["dropped"] = dropped
    /\ Where["Keyboard"] = ToSet(delivered["Keyboard"])
    /\ Where["Mouse"] = ToSet(delivered["Mouse"])
  BY DEF Where, Place

LEMMA WhereIsAfter ==
    /\ Where' = [p \in Place |-> Where'[p]]
    /\ Where'["port"] = Waiting'
    /\ Where'["queue"] = ToSet(keyboardQueue')
    /\ Where'["held"] = ToSet(Held')
    /\ Where'["returned"] = returned'
    /\ Where'["dropped"] = dropped'
    /\ Where'["Keyboard"] = ToSet(delivered'["Keyboard"])
    /\ Where'["Mouse"] = ToSet(delivered'["Mouse"])
  BY DEF Where, Place

All(A)   == UNION {A[p] : p \in Place}
Apart(A) == \A p, q \in Place : p # q => A[p] \cap A[q] = {}

\* The bytes S leave f for t; the bytes S arrive at t; f is emptied.
Moved(A, f, S, t) ==
    [p \in Place |-> IF p = f THEN A[p] \ S ELSE IF p = t THEN A[p] \cup S ELSE A[p]]
Added(A, t, S)  == [p \in Place |-> IF p = t THEN A[p] \cup S ELSE A[p]]
Emptied(A, f)   == [p \in Place |-> IF p = f THEN {} ELSE A[p]]

LEMMA AllPresent == All(Where) = Present
<1>1. All(Where) \subseteq Present
  BY WhereIs DEF All, Present, Place
<1>2. Present \subseteq All(Where)
  BY WhereIs DEF All, Present, Place
<1> QED
  BY <1>1, <1>2

\* A move neither loses bytes nor shows one twice.
LEMMA MoveKeeps ==
    ASSUME NEW A, NEW f \in Place, NEW t \in Place, f # t, NEW S, S \subseteq A[f]
    PROVE  /\ All(Moved(A, f, S, t)) = All(A)
           /\ Apart(A) => Apart(Moved(A, f, S, t))
<1> DEFINE B == Moved(A, f, S, t)
<1>0. /\ B[f] = A[f] \ S /\ B[t] = A[t] \cup S
      /\ \A p \in Place : p # f /\ p # t => B[p] = A[p]
  BY DEF Moved
<1> HIDE DEF B
<1>1. All(B) \subseteq All(A)
  <2> SUFFICES ASSUME NEW p \in Place, NEW x \in B[p]
               PROVE  \E q \in Place : x \in A[q]
    BY DEF All
  <2> QED
    BY <1>0
<1>2. All(A) \subseteq All(B)
  <2> SUFFICES ASSUME NEW p \in Place, NEW x \in A[p]
               PROVE  \E q \in Place : x \in B[q]
    BY DEF All
  <2>1. CASE p = f /\ x \in S
    BY <1>0, <2>1
  <2>2. CASE ~(p = f /\ x \in S)
    BY <1>0, <2>2
  <2> QED
    BY <2>1, <2>2
<1>3. ASSUME Apart(A)
      PROVE  Apart(B)
  <2> SUFFICES ASSUME NEW p \in Place, NEW q \in Place, p # q, NEW x, x \in B[p], x \in B[q]
               PROVE  FALSE
    BY DEF Apart
  <2>1. \A a, b \in Place : x \in A[a] /\ x \in A[b] => a = b
    BY <1>3 DEF Apart
  <2>2. CASE x \in S
    <3>1. \A a \in Place : x \in A[a] <=> a = f
      BY <2>1, <2>2
    <3>2. \A a \in Place : x \in B[a] => a = t
      BY <1>0, <2>2, <3>1
    <3> QED
      BY <3>2
  <2>3. CASE x \notin S
    <3>1. \A a \in Place : x \in B[a] => x \in A[a]
      BY <1>0, <2>3
    <3> QED
      BY <2>1, <3>1
  <2> QED
    BY <2>2, <2>3
<1> QED
  BY <1>1, <1>2, <1>3 DEF B

LEMMA AddKeeps ==
    ASSUME NEW A, NEW t \in Place, NEW S, S \cap All(A) = {}
    PROVE  /\ All(Added(A, t, S)) = All(A) \cup S
           /\ Apart(A) => Apart(Added(A, t, S))
<1> DEFINE B == Added(A, t, S)
<1>0. B[t] = A[t] \cup S /\ \A p \in Place : p # t => B[p] = A[p]
  BY DEF Added
<1> HIDE DEF B
<1>1. All(B) = All(A) \cup S
  <2>1. All(B) \subseteq All(A) \cup S
    BY <1>0 DEF All
  <2>2. All(A) \subseteq All(B)
    BY <1>0 DEF All
  <2>3. S \subseteq All(B)
    BY <1>0 DEF All
  <2> QED
    BY <2>1, <2>2, <2>3
<1>2. ASSUME Apart(A)
      PROVE  Apart(B)
  <2> SUFFICES ASSUME NEW p \in Place, NEW q \in Place, p # q, NEW x, x \in B[p], x \in B[q]
               PROVE  FALSE
    BY DEF Apart
  <2>1. \A a, b \in Place : x \in A[a] /\ x \in A[b] => a = b
    BY <1>2 DEF Apart
  <2>2. x \in S => \A a \in Place : x \notin A[a]
    BY DEF All
  <2> QED
    BY <1>0, <2>1, <2>2
<1> QED
  BY <1>1, <1>2 DEF B

LEMMA EmptyKeeps ==
    ASSUME NEW A, NEW f \in Place
    PROVE  /\ All(A) \subseteq All(Emptied(A, f)) \cup A[f]
           /\ All(Emptied(A, f)) \subseteq All(A)
           /\ Apart(A) => Apart(Emptied(A, f))
<1> DEFINE B == Emptied(A, f)
<1>0. B[f] = {} /\ \A p \in Place : p # f => B[p] = A[p]
  BY DEF Emptied
<1> HIDE DEF B
<1>1. All(A) \subseteq All(B) \cup A[f]
  BY <1>0 DEF All
<1>2. All(B) \subseteq All(A)
  BY <1>0 DEF All
<1>3. Apart(A) => Apart(B)
  BY <1>0 DEF Apart
<1> QED
  BY <1>1, <1>2, <1>3 DEF B

\* No byte is in two places, nor twice in one, and no byte is there before it
\* was sent.
Once ==
    /\ Apart(Where)
    /\ Distinct(keyboardQueue) /\ Distinct(Held)
    /\ \A d \in Device : Distinct(delivered[d])
    /\ IsFiniteSet(returned) /\ IsFiniteSet(dropped)
    /\ \A b \in All(Where) : b.id <= sent[b.dev]

\* A step that shows the bytes where the moves say they went.
LEMMA SameWhere ==
    ASSUME NEW A, A = [p \in Place |-> A[p]],
           \A p \in Place : Where'[p] = A[p]
    PROVE  Where' = A
<1>1. Where' = [p \in Place |-> Where'[p]]
  BY WhereIsAfter
<1>2. [p \in Place |-> Where'[p]] = [p \in Place |-> A[p]]
  OBVIOUS
<1> QED
  BY <1>1, <1>2

\* Bytes handed to a driver that it did not have.
LEMMA DeliverDistinct ==
    ASSUME TypeOK, Once, NEW d \in Device, NEW s \in Seq(Byte), Distinct(s),
           ToSet(s) \cap ToSet(delivered[d]) = {},
           delivered' = [delivered EXCEPT ![d] = @ \o s]
    PROVE  /\ \A e \in Device : Distinct(delivered'[e])
           /\ ToSet(delivered'[d]) = ToSet(delivered[d]) \cup ToSet(s)
           /\ \A e \in Device : e # d => delivered'[e] = delivered[e]
<1>1. delivered[d] \in Seq(Byte) /\ delivered'[d] = delivered[d] \o s
      /\ \A e \in Device : e # d => delivered'[e] = delivered[e]
  BY DEF TypeOK
<1>2. Distinct(delivered[d])
  BY DEF Once
<1>3. /\ ToSet(delivered[d] \o s) = ToSet(delivered[d]) \cup ToSet(s)
      /\ Distinct(delivered[d] \o s)
  BY <1>1, <1>2, ToSetConcat
<1>4. \A e \in Device : Distinct(delivered'[e])
  BY <1>1, <1>3 DEF Once
<1> QED
  BY <1>1, <1>3, <1>4

LEMMA DeliverOneDistinct ==
    ASSUME TypeOK, Once, NEW d \in Device, NEW b \in Byte, b \notin ToSet(delivered[d]),
           DispatchDriverInterrupt(d, b)
    PROVE  /\ \A e \in Device : Distinct(delivered'[e])
           /\ ToSet(delivered'[d]) = ToSet(delivered[d]) \cup {b}
           /\ \A e \in Device : e # d => delivered'[e] = delivered[e]
<1>1. delivered[d] \in Seq(Byte) /\ delivered'[d] = Append(delivered[d], b)
      /\ \A e \in Device : e # d => delivered'[e] = delivered[e]
  BY DEF TypeOK, DispatchDriverInterrupt
<1>2. Distinct(delivered[d])
  BY DEF Once
<1>3. /\ ToSet(Append(delivered[d], b)) = ToSet(delivered[d]) \cup {b}
      /\ Distinct(Append(delivered[d], b))
  BY <1>1, <1>2, ToSetAppend
<1>4. \A e \in Device : Distinct(delivered'[e])
  BY <1>1, <1>3 DEF Once
<1> QED
  BY <1>1, <1>3, <1>4

\* What a step does to the bytes that are somewhere: it forgets none, or it
\* gives up a read and forgets two at most.
Forgets ==
    \/ gaveUp' = gaveUp /\ All(Where) \subseteq All(Where')
    \/ gaveUp' = gaveUp + 1 /\ \E x, y : All(Where) \subseteq All(Where') \cup {x, y}

\* What a step that sends no byte keeps.
Kept ==
    /\ Apart(Where')
    /\ Distinct(keyboardQueue') /\ Distinct(Held')
    /\ \A d \in Device : Distinct(delivered'[d])
    /\ IsFiniteSet(returned') /\ IsFiniteSet(dropped')
    /\ All(Where') \subseteq All(Where)
    /\ Forgets

\* The first of three bytes put aside, and the two after it.
LEMMA ThreeHeld ==
    ASSUME NEW s \in Seq(Byte), s # <<>>, Len(s) <= HeldSlots
    PROVE  \E x, y : ToSet(s) \subseteq {Head(s), x, y}
<1>1. ToSet(s) = {s[i] : i \in 1..Len(s)} /\ Head(s) = s[1]
  BY ToSetOf
<1>2. \A i \in 1..Len(s) : i = 1 \/ i = 2 \/ i = 3
  BY DEF HeldSlots
<1>3. ToSet(s) \subseteq {Head(s), s[2], s[3]}
  BY <1>1, <1>2
<1> QED
  BY <1>3

\* Whatever readDataPort decides about a byte it took from the queue or the
\* port, the byte and the bytes put aside go to one place each.
LEMMA AcceptKeeps ==
    ASSUME TypeOK, Once, pc \in Reading, NEW src \in {"port", "queue"},
           NEW b \in Byte, b \in Where[src], Accept(b),
           Where'[src] = Where[src] \ {b},
           \A p \in {"port", "queue", "dropped"} : p # src => Where'[p] = Where[p],
           Distinct(keyboardQueue'), IsFiniteSet(dropped')
    PROVE  Kept
<1>0. /\ call.dev \in {"Keyboard", "Mouse"} /\ call.dev \in Device /\ Held = call.held
      /\ call.held \in Seq(Byte) /\ Len(call.held) <= HeldSlots /\ b # NoByte
      /\ src \in Place /\ call.dev \in Place /\ "returned" \in Place /\ "held" \in Place
      /\ Device = {"Keyboard", "Mouse"}
      /\ Place = {src, "held", "returned"} \cup {"port", "queue", "dropped"} \cup Device
  BY SentinelAssumption DEF TypeOK, Call, Held, Reading, Device, Place
<1>P. Place = {src, "held", "returned"} \cup {"port", "queue", "dropped"} \cup Device
  BY <1>0
<1>A. Apart(Where) /\ Distinct(call.held) /\ ToSet(call.held) = Where["held"]
  BY <1>0, WhereIs DEF Once
<1>D. \A d \in Device : Where[d] = ToSet(delivered[d]) /\ Where'[d] = ToSet(delivered'[d])
  BY <1>0, WhereIs, WhereIsAfter
<1>1. CASE AcceptMatch(b)
  <2> DEFINE M1 == Moved(Where, src, {b}, "returned")
             M2 == Moved(M1, "held", ToSet(call.held), call.dev)
  <2>1. /\ delivered' = [delivered EXCEPT ![call.dev] = @ \o call.held]
        /\ pc' = "idle" /\ returned' = returned \cup {b} /\ gaveUp' = gaveUp
    BY <1>0, <1>1 DEF AcceptMatch, Return
  <2>2. Held' = <<>> /\ ToSet(Held') = {} /\ Distinct(Held')
    BY <2>1, ToSetEmpty DEF Held
  <2>3. ToSet(call.held) \cap ToSet(delivered[call.dev]) = {}
    BY <1>0, <1>A, <1>D DEF Apart
  <2>4. /\ \A e \in Device : Distinct(delivered'[e])
        /\ ToSet(delivered'[call.dev]) = ToSet(delivered[call.dev]) \cup ToSet(call.held)
        /\ \A e \in Device : e # call.dev => delivered'[e] = delivered[e]
    BY <1>0, <1>A, <2>1, <2>3, DeliverDistinct
  <2>5. All(M1) = All(Where) /\ Apart(M1)
    BY <1>0, <1>A, MoveKeeps
  <2>6. ToSet(call.held) \subseteq M1["held"]
    BY <1>0, <1>A DEF Moved
  <2>7. All(M2) = All(Where) /\ Apart(M2)
    <3>1. call.dev # "held"
      BY <1>0
    <3> HIDE DEF M1
    <3> QED
      BY <1>0, <2>5, <2>6, <3>1, MoveKeeps
  <2>8. Where' = M2
    <3>1. Where'["returned"] = M2["returned"]
      BY <1>0, <2>1, WhereIs, WhereIsAfter DEF Moved
    <3>2. Where'["held"] = M2["held"]
      BY <1>0, <1>A, <2>2, WhereIsAfter DEF Moved
    <3>3. Where'[src] = M2[src]
      BY <1>0 DEF Moved
    <3>4. \A p \in {"port", "queue", "dropped"} : p # src => Where'[p] = M2[p]
      BY <1>0 DEF Moved
    <3>5. ASSUME NEW d \in Device
          PROVE  Where'[d] = M2[d]
      <4>1. d # src /\ d # "held" /\ d # "returned" /\ d \in Place
        BY <1>0
      <4>2. M1[d] = Where[d]
        BY <4>1 DEF Moved
      <4> HIDE DEF M1
      <4>3. M2[d] = IF d = call.dev THEN M1[d] \cup ToSet(call.held) ELSE M1[d]
        BY <4>1 DEF Moved
      <4> HIDE DEF M2
      <4> QED
        BY <1>D, <2>4, <4>2, <4>3
    <3>6. \A p \in Place : Where'[p] = M2[p]
      <4> HIDE DEF M2
      <4> QED
        BY <1>P, <3>1, <3>2, <3>3, <3>4, <3>5
    <3>7. M2 = [p \in Place |-> M2[p]]
      BY DEF Moved
    <3> HIDE DEF M2
    <3> QED
      BY <3>6, <3>7, SameWhere
  <2>9. IsFiniteSet(returned')
    BY <2>1, FS_AddElement DEF Once
  <2> QED
    BY <2>1, <2>2, <2>4, <2>7, <2>8, <2>9 DEF Kept, Forgets
<1>2. CASE AcceptHold(b)
  <2> DEFINE M1 == Moved(Where, src, {b}, "held")
  <2>1. UNCHANGED <<delivered, returned, gaveUp>> /\ pc' = "read"
        /\ call'.held = Append(call.held, b)
    BY <1>2 DEF AcceptHold, TypeOK, Call
  <2>2. Held' = Append(call.held, b)
    BY <2>1 DEF Held
  <2>3. b \notin ToSet(call.held)
    BY <1>0, <1>A DEF Apart
  <2>4. ToSet(Held') = ToSet(call.held) \cup {b} /\ Distinct(Held')
    BY <1>0, <1>A, <2>2, <2>3, ToSetAppend
  <2>5. All(M1) = All(Where) /\ Apart(M1)
    BY <1>0, <1>A, MoveKeeps
  <2>6. Where' = M1
    <3>1. Where'["returned"] = M1["returned"]
      BY <1>0, <2>1, WhereIs, WhereIsAfter DEF Moved
    <3>2. Where'["held"] = M1["held"]
      BY <1>0, <1>A, <2>4, WhereIsAfter DEF Moved
    <3>3. Where'[src] = M1[src]
      BY <1>0 DEF Moved
    <3>4. \A p \in {"port", "queue", "dropped"} : p # src => Where'[p] = M1[p]
      BY <1>0 DEF Moved
    <3>5. \A d \in Device : Where'[d] = M1[d]
      BY <1>0, <1>D, <2>1 DEF Moved
    <3>6. \A p \in Place : Where'[p] = M1[p]
      <4> HIDE DEF M1
      <4> QED
        BY <1>P, <3>1, <3>2, <3>3, <3>4, <3>5
    <3>7. M1 = [p \in Place |-> M1[p]]
      BY DEF Moved
    <3> HIDE DEF M1
    <3> QED
      BY <3>6, <3>7, SameWhere
  <2> QED
    BY <2>1, <2>4, <2>5, <2>6 DEF Kept, Forgets, Once
<1>3. CASE AcceptFourthMismatch(b)
  <2> DEFINE M1 == Moved(Where, "held", {Head(call.held)}, "returned")
             M2 == Moved(M1, src, {b}, call.dev)
             M3 == Emptied(M2, "held")
  <2>0. call.held # <<>>
    BY <1>3 DEF AcceptFourthMismatch, HeldSlots
  <2>1. /\ Head(call.held) \in Byte /\ Head(call.held) # NoByte
        /\ Head(call.held) \in ToSet(call.held)
    BY <1>0, <1>A, <2>0, ToSetTail, HeadTail, SentinelAssumption
  <2>2. /\ DispatchDriverInterrupt(call.dev, b) /\ pc' = "idle"
        /\ returned' = returned \cup {Head(call.held)} /\ gaveUp' = gaveUp + 1
    BY <1>3, <2>1 DEF AcceptFourthMismatch, Return
  <2>3. Held' = <<>> /\ ToSet(Held') = {} /\ Distinct(Held')
    BY <2>2, ToSetEmpty DEF Held
  <2>4. b \notin ToSet(delivered[call.dev])
    BY <1>0, <1>A, <1>D DEF Apart
  <2>5. /\ \A e \in Device : Distinct(delivered'[e])
        /\ ToSet(delivered'[call.dev]) = ToSet(delivered[call.dev]) \cup {b}
        /\ \A e \in Device : e # call.dev => delivered'[e] = delivered[e]
    BY <1>0, <2>2, <2>4, DeliverOneDistinct
  <2>6. All(M1) = All(Where) /\ Apart(M1)
    BY <1>0, <1>A, <2>1, MoveKeeps
  <2>7. All(M2) = All(Where) /\ Apart(M2)
    <3>1. {b} \subseteq M1[src] /\ call.dev # src
      BY <1>0 DEF Moved
    <3> HIDE DEF M1
    <3> QED
      BY <1>0, <2>6, <3>1, MoveKeeps
  <2>8. M2["held"] = ToSet(call.held) \ {Head(call.held)}
    BY <1>0, <1>A DEF Moved
  <2>9. /\ All(Where) \subseteq All(M3) \cup M2["held"] /\ All(M3) \subseteq All(Where)
        /\ Apart(M3)
    <3> HIDE DEF M2
    <3> QED
      BY <1>0, <2>7, EmptyKeeps
  <2>10. Where' = M3
    <3>1. Where'["returned"] = M3["returned"]
      BY <1>0, <2>2, WhereIs, WhereIsAfter DEF Moved, Emptied
    <3>2. Where'["held"] = M3["held"]
      BY <1>0, <2>3, WhereIsAfter DEF Emptied
    <3>3. Where'[src] = M3[src]
      BY <1>0 DEF Moved, Emptied
    <3>4. \A p \in {"port", "queue", "dropped"} : p # src => Where'[p] = M3[p]
      BY <1>0 DEF Moved, Emptied
    <3>5. ASSUME NEW d \in Device
          PROVE  Where'[d] = M3[d]
      <4>1. d # src /\ d # "held" /\ d # "returned" /\ d \in Place
        BY <1>0
      <4>2. M1[d] = Where[d]
        BY <4>1 DEF Moved
      <4> HIDE DEF M1
      <4>3. M2[d] = IF d = call.dev THEN M1[d] \cup {b} ELSE M1[d]
        BY <4>1 DEF Moved
      <4> HIDE DEF M2
      <4>4. M3[d] = M2[d]
        BY <4>1 DEF Emptied
      <4> HIDE DEF M3
      <4> QED
        BY <1>D, <2>5, <4>2, <4>3, <4>4
    <3>6. \A p \in Place : Where'[p] = M3[p]
      <4> HIDE DEF M3
      <4> QED
        BY <1>P, <3>1, <3>2, <3>3, <3>4, <3>5
    <3>7. M3 = [p \in Place |-> M3[p]]
      BY DEF Emptied
    <3> HIDE DEF M3
    <3> QED
      BY <3>6, <3>7, SameWhere
  <2>11. IsFiniteSet(returned')
    BY <2>2, FS_AddElement DEF Once
  <2>12. \E x, y : All(Where) \subseteq All(Where') \cup {x, y}
    <3>1. PICK x, y : ToSet(call.held) \subseteq {Head(call.held), x, y}
      BY <1>0, <2>0, ThreeHeld
    <3>2. M2["held"] \subseteq {x, y}
      BY <2>8, <3>1
    <3> HIDE DEF M2, M3
    <3>3. All(Where) \subseteq All(Where') \cup {x, y}
      BY <2>9, <2>10, <3>2
    <3> QED
      BY <3>3
  <2> QED
    BY <2>2, <2>3, <2>5, <2>9, <2>10, <2>11, <2>12 DEF Kept, Forgets
<1> QED
  BY <1>1, <1>2, <1>3 DEF Accept

\* A step that moves no byte.
LEMMA StillKept ==
    ASSUME Once,
           UNCHANGED <<port, keyboardQueue, delivered, returned, dropped, gaveUp>>,
           Held' = Held
    PROVE  Kept
<1>1. Waiting' = Waiting
  BY DEF Waiting
<1>2. \A p \in Place : Where'[p] = Where[p]
  BY <1>1, WhereIs, WhereIsAfter DEF Place
<1>3. Where' = Where
  BY <1>2, WhereIs, SameWhere
<1> QED
  BY <1>3 DEF Kept, Forgets, Once

\* A step that moves one byte from the port or the queue to a place other
\* than these two and the bytes put aside.
LEMMA OneMoves ==
    ASSUME Once, NEW f \in {"port", "queue"},
           NEW t \in {"queue", "Keyboard", "Mouse", "dropped"}, f # t,
           NEW b, b \in Where[f],
           Where'[f] = Where[f] \ {b}, Where'[t] = Where[t] \cup {b},
           \A p \in Place : p # f /\ p # t => Where'[p] = Where[p],
           gaveUp' = gaveUp, Held' = Held, returned' = returned,
           Distinct(keyboardQueue'), \A d \in Device : Distinct(delivered'[d]),
           IsFiniteSet(dropped')
    PROVE  Kept
<1> DEFINE M == Moved(Where, f, {b}, t)
<1>1. f \in Place /\ t \in Place /\ Apart(Where)
  BY DEF Place, Once
<1>2. All(M) = All(Where) /\ Apart(M)
  BY <1>1, MoveKeeps
<1>3. \A p \in Place : Where'[p] = M[p]
  BY <1>1 DEF Moved
<1>4. M = [p \in Place |-> M[p]]
  BY DEF Moved
<1> HIDE DEF M
<1>5. Where' = M
  BY <1>3, <1>4, SameWhere
<1> QED
  BY <1>2, <1>5 DEF Kept, Forgets, Once

\* The front of the software queue, and what is left of it.
LEMMA QueueFront ==
    ASSUME TypeOK, Once, keyboardQueue # <<>>, keyboardQueue' = Tail(keyboardQueue)
    PROVE  /\ Head(keyboardQueue) \in Byte /\ Head(keyboardQueue) \in Where["queue"]
           /\ Where'["queue"] = Where["queue"] \ {Head(keyboardQueue)}
           /\ Distinct(keyboardQueue')
<1>1. /\ Head(keyboardQueue) \in ToSet(keyboardQueue)
      /\ Distinct(Tail(keyboardQueue))
      /\ ToSet(Tail(keyboardQueue)) = ToSet(keyboardQueue) \ {Head(keyboardQueue)}
  BY ToSetTail DEF TypeOK, Once
<1>2. Head(keyboardQueue) \in Byte
  BY HeadTail DEF TypeOK
<1> QED
  BY <1>1, <1>2, WhereIs, WhereIsAfter

\* The port, read.
LEMMA PortRead ==
    ASSUME TypeOK, port # NoByte, port' = NoByte
    PROVE  port \in Byte /\ port \in Where["port"] /\ Where'["port"] = Where["port"] \ {port}
<1>1. port \in Byte /\ Waiting = {port} /\ Waiting' = {}
  BY DEF TypeOK, Waiting
<1> QED
  BY <1>1, WhereIs, WhereIsAfter

\* Every step that sends no byte keeps every byte in one place, and forgets
\* none but two when a read gives up.
LEMMA KeepStep ==
    ASSUME TypeOK, Once, [Next]_vars,
           ~ \E d \in Device, v \in Value : DeviceSends(d, v)
    PROVE  Kept /\ sent' = sent
<1> USE DEF hardware, history
<1>0. Apart(Where) /\ "Keyboard" \in Device /\ "Mouse" \in Device
      /\ Device = {"Keyboard", "Mouse"}
  BY DEF Once, Device
<1>1. CASE InterruptHandlerMouse \/ InterruptOccurred \/ SeeMouseByte \/ LeaveInterrupt
           \/ StartPolling \/ UNCHANGED vars
  <2>1. /\ UNCHANGED <<port, keyboardQueue, delivered, returned, dropped, gaveUp, call, sent>>
        /\ pc \in Reading <=> pc' \in Reading
    BY <1>1 DEF InterruptHandlerMouse, InterruptOccurred, SeeMouseByte, LeaveInterrupt,
       StartPolling, vars, Reading
  <2>2. Held' = Held
    BY <2>1 DEF Held, Reading
  <2> QED
    BY <2>1, <2>2, StillKept
<1>2. CASE InterruptHandlerKeyboard
  <2>1. UNCHANGED <<sent, pc, call, delivered, returned, gaveUp>> /\ Held' = Held
    BY <1>2 DEF InterruptHandlerKeyboard, Held
  <2>2. CASE HandlerFindsMouseByte \/ HandlerFindsNothing
    BY <2>1, <2>2, StillKept DEF HandlerFindsMouseByte, HandlerFindsNothing
  <2>3. CASE HandlerParksByte
    <3>1. /\ port \in Byte /\ port \in Where["port"]
          /\ Where'["port"] = Where["port"] \ {port}
      BY <2>3, PortRead DEF HandlerParksByte, KeyboardReady
    <3>2. \A p \in {"held", "returned", "Keyboard", "Mouse"} : Where'[p] = Where[p]
      BY <2>1, WhereIs, WhereIsAfter
    <3>3. CASE Len(keyboardQueue) < QueueSize
      <4>1. keyboardQueue' = Append(keyboardQueue, port) /\ dropped' = dropped
        BY <2>3, <3>3 DEF HandlerParksByte, EnqueueKeyboardData
      <4>2. port \notin ToSet(keyboardQueue)
        BY <1>0, <3>1, WhereIs DEF Apart, Place
      <4>3. /\ ToSet(keyboardQueue') = ToSet(keyboardQueue) \cup {port}
            /\ Distinct(keyboardQueue')
        BY <3>1, <4>1, <4>2, ToSetAppend DEF TypeOK, Once
      <4>4. Where'["queue"] = Where["queue"] \cup {port} /\ Where'["dropped"] = Where["dropped"]
        BY <4>1, <4>3, WhereIs, WhereIsAfter
      <4>5. \A p \in Place : p # "port" /\ p # "queue" => Where'[p] = Where[p]
        BY <3>2, <4>4 DEF Place
      <4>6. /\ \A d \in Device : Distinct(delivered'[d])
            /\ IsFiniteSet(dropped')
        BY <2>1, <4>1 DEF Once
      <4> QED
        BY <2>1, <3>1, <4>3, <4>4, <4>5, <4>6, OneMoves
    <3>4. CASE ~(Len(keyboardQueue) < QueueSize)
      <4>1. keyboardQueue' = keyboardQueue /\ dropped' = dropped \cup {port}
        BY <2>3, <3>4 DEF HandlerParksByte, EnqueueKeyboardData
      <4>2. Where'["dropped"] = Where["dropped"] \cup {port} /\ Where'["queue"] = Where["queue"]
        BY <4>1, WhereIs, WhereIsAfter
      <4>3. \A p \in Place : p # "port" /\ p # "dropped" => Where'[p] = Where[p]
        BY <3>2, <4>2 DEF Place
      <4>4. /\ Distinct(keyboardQueue') /\ \A d \in Device : Distinct(delivered'[d])
            /\ IsFiniteSet(dropped')
        BY <2>1, <4>1, FS_AddElement DEF Once
      <4> QED
        BY <2>1, <3>1, <4>2, <4>3, <4>4, OneMoves
    <3> QED
      BY <2>1, <3>3, <3>4
  <2> QED
    BY <1>2, <2>2, <2>3, <2>1 DEF InterruptHandlerKeyboard
<1>3. CASE DispatchQueued
  <2> DEFINE b == Head(keyboardQueue)
  <2>1. /\ UNCHANGED <<port, sent, pc, call, returned, dropped, gaveUp>> /\ Held' = Held
        /\ Waiting' = Waiting /\ DispatchDriverInterrupt("Keyboard", b)
    BY <1>3 DEF DispatchQueued, Held, Waiting
  <2>2. /\ b \in Byte /\ b \in Where["queue"] /\ Where'["queue"] = Where["queue"] \ {b}
        /\ Distinct(keyboardQueue')
    BY <1>3, QueueFront DEF DispatchQueued
  <2> HIDE DEF b
  <2>3. b \notin ToSet(delivered["Keyboard"])
    BY <1>0, <2>2, WhereIs DEF Apart, Place
  <2>4. /\ \A d \in Device : Distinct(delivered'[d])
        /\ ToSet(delivered'["Keyboard"]) = ToSet(delivered["Keyboard"]) \cup {b}
        /\ delivered'["Mouse"] = delivered["Mouse"]
    BY <1>0, <2>1, <2>2, <2>3, DeliverOneDistinct
  <2>5. /\ Where'["Keyboard"] = Where["Keyboard"] \cup {b}
        /\ \A p \in Place : p # "queue" /\ p # "Keyboard" => Where'[p] = Where[p]
    BY <2>1, <2>4, WhereIs, WhereIsAfter DEF Place
  <2>6. IsFiniteSet(dropped')
    BY <2>1 DEF Once
  <2> QED
    BY <2>1, <2>2, <2>4, <2>5, <2>6, OneMoves
\* The byte in the port handed straight to a driver.
<1>4. ASSUME NEW d \in Device, port # NoByte, port' = NoByte, Held' = Held,
             DispatchDriverInterrupt(d, port),
             UNCHANGED <<keyboardQueue, returned, dropped, gaveUp>>
      PROVE  Kept
  <2>1. port \in Byte /\ port \in Where["port"] /\ Where'["port"] = Where["port"] \ {port}
    BY <1>4, PortRead
  <2>2. Where[d] = ToSet(delivered[d]) /\ Where'[d] = ToSet(delivered'[d])
        /\ d \in {"Keyboard", "Mouse"}
    BY <1>0, WhereIs, WhereIsAfter
  <2>3. port \notin ToSet(delivered[d])
    BY <1>0, <2>1, <2>2 DEF Apart, Place
  <2>4. /\ \A e \in Device : Distinct(delivered'[e])
        /\ ToSet(delivered'[d]) = ToSet(delivered[d]) \cup {port}
        /\ \A e \in Device : e # d => delivered'[e] = delivered[e]
    BY <1>4, <2>1, <2>3, DeliverOneDistinct
  <2>5. /\ Where'[d] = Where[d] \cup {port}
        /\ \A p \in Place : p # "port" /\ p # d => Where'[p] = Where[p]
    BY <1>0, <1>4, <2>2, <2>4, WhereIs, WhereIsAfter DEF Place
  <2>6. Distinct(keyboardQueue') /\ IsFiniteSet(dropped')
    BY <1>4 DEF Once
  <2> QED
    BY <1>4, <2>1, <2>2, <2>4, <2>5, <2>6, OneMoves
<1>5. CASE DispatchMouseByte
  <2>1. Held' = Held
    BY <1>5 DEF DispatchMouseByte, Held
  <2> QED
    BY <1>0, <1>4, <1>5, <2>1 DEF DispatchMouseByte
<1>6. CASE \E d \in Device, e \in Value \cup {AnyByte} : ReadDataPort(d, e)
  <2>1. UNCHANGED <<port, keyboardQueue, delivered, returned, dropped, gaveUp, sent>>
        /\ Held' = Held
    BY <1>6 DEF ReadDataPort, Held
  <2> QED
    BY <2>1, StillKept
<1>7. CASE ReadFromQueue
  <2>1. /\ pc \in Reading /\ keyboardQueue # <<>> /\ keyboardQueue' = Tail(keyboardQueue)
        /\ Accept(Head(keyboardQueue)) /\ UNCHANGED <<port, sent, dropped>>
    BY <1>7 DEF ReadFromQueue, Reading
  <2>2. /\ Head(keyboardQueue) \in Byte /\ Head(keyboardQueue) \in Where["queue"]
        /\ Where'["queue"] = Where["queue"] \ {Head(keyboardQueue)}
        /\ Distinct(keyboardQueue')
    BY <2>1, QueueFront
  <2>3. Where'["port"] = Where["port"] /\ Where'["dropped"] = Where["dropped"]
    BY <2>1, WhereIs, WhereIsAfter DEF Waiting
  <2>4. IsFiniteSet(dropped')
    BY <2>1 DEF Once
  <2>5. \A p \in {"port", "queue", "dropped"} : p # "queue" => Where'[p] = Where[p]
    BY <2>3
  <2> QED
    BY <2>1, <2>2, <2>4, <2>5, AcceptKeeps
<1>8. CASE PollEmpty
  <2>1. UNCHANGED <<port, keyboardQueue, delivered, returned, dropped, gaveUp, sent, pc>>
        /\ call'.held = call.held
    BY <1>8 DEF PollEmpty, TypeOK, Call
  <2>2. Held' = Held
    BY <2>1 DEF Held
  <2> QED
    BY <2>1, <2>2, StillKept
<1>9. CASE PollReads
  <2>1. /\ pc \in Reading /\ port # NoByte /\ port' = NoByte
        /\ Accept(port) /\ UNCHANGED <<keyboardQueue, sent, dropped>>
    BY <1>9 DEF PollReads, Reading
  <2>2. port \in Byte /\ port \in Where["port"] /\ Where'["port"] = Where["port"] \ {port}
    BY <2>1, PortRead
  <2>3. Where'["queue"] = Where["queue"] /\ Where'["dropped"] = Where["dropped"]
    BY <2>1, WhereIs, WhereIsAfter
  <2>4. IsFiniteSet(dropped') /\ Distinct(keyboardQueue')
    BY <2>1 DEF Once
  <2>5. \A p \in {"port", "queue", "dropped"} : p # "port" => Where'[p] = Where[p]
    BY <2>3
  <2> QED
    BY <2>1, <2>2, <2>4, <2>5, AcceptKeeps
<1>10. CASE PollDispatchesOther
  <2>1. Held' = Held /\ Other(call.dev) \in Device
    BY <1>10 DEF PollDispatchesOther, Held, Other, Device
  <2> QED
    BY <1>4, <1>10, <2>1 DEF PollDispatchesOther
<1>11. CASE PollTimesOut
  <2>0. /\ Held = call.held /\ call.held \in Seq(Byte) /\ Len(call.held) <= HeldSlots
        /\ Distinct(call.held) /\ ToSet(call.held) = Where["held"]
    BY <1>11, WhereIs DEF PollTimesOut, Held, TypeOK, Call, Once
  <2>1. /\ UNCHANGED <<port, sent, keyboardQueue, delivered, dropped>>
        /\ pc' = "idle" /\ gaveUp' = gaveUp + 1
    BY <1>11 DEF PollTimesOut, Return
  <2>2. Held' = <<>> /\ ToSet(Held') = {} /\ Distinct(Held') /\ Waiting' = Waiting
    BY <2>1, ToSetEmpty DEF Held, Waiting
  <2>3. CASE call.held = <<>>
    <3>1. returned' = returned
      BY <1>11, <2>3 DEF PollTimesOut, Return
    <3>2. \A p \in Place : Where'[p] = Where[p]
      <4>1. Where'["held"] = Where["held"]
        BY <2>0, <2>2, <2>3, ToSetEmpty, WhereIsAfter
      <4> QED
        BY <2>1, <2>2, <3>1, <4>1, WhereIs, WhereIsAfter DEF Place
    <3>3. Where' = Where
      BY <3>2, WhereIs, SameWhere
    <3> QED
      BY <2>1, <2>2, <3>1, <3>3 DEF Kept, Forgets, Once
  <2>4. CASE call.held # <<>>
    <3> DEFINE M1 == Moved(Where, "held", {Head(call.held)}, "returned")
               M2 == Emptied(M1, "held")
    <3>1. /\ Head(call.held) \in Byte /\ Head(call.held) # NoByte
          /\ Head(call.held) \in ToSet(call.held)
      BY <2>0, <2>4, ToSetTail, HeadTail, SentinelAssumption
    <3>2. returned' = returned \cup {Head(call.held)}
      BY <1>11, <2>4, <3>1 DEF PollTimesOut, Return
    <3>3. "held" \in Place /\ "returned" \in Place
      BY DEF Place
    <3>4. All(M1) = All(Where) /\ Apart(M1)
      BY <1>0, <2>0, <3>1, <3>3, MoveKeeps
    <3>5. M1["held"] = ToSet(call.held) \ {Head(call.held)}
      BY <2>0, <3>3 DEF Moved
    <3>6. /\ All(Where) \subseteq All(M2) \cup M1["held"] /\ All(M2) \subseteq All(Where)
          /\ Apart(M2)
      <4> HIDE DEF M1
      <4> QED
        BY <3>3, <3>4, EmptyKeeps
    <3>7. Where' = M2
      <4>1. Where'["returned"] = M2["returned"]
        BY <3>2, <3>3, WhereIs, WhereIsAfter DEF Moved, Emptied
      <4>2. Where'["held"] = M2["held"]
        BY <2>2, <3>3, WhereIsAfter DEF Emptied
      <4>3. \A p \in Place : p # "returned" /\ p # "held" => Where'[p] = M2[p]
        <5>1. \A p \in Place : p # "returned" /\ p # "held" => Where'[p] = Where[p]
          BY <2>1, <2>2, WhereIs, WhereIsAfter DEF Place
        <5> QED
          BY <5>1 DEF Moved, Emptied
      <4>4. \A p \in Place : Where'[p] = M2[p]
        BY <4>1, <4>2, <4>3
      <4>5. M2 = [p \in Place |-> M2[p]]
        BY DEF Emptied
      <4> HIDE DEF M2
      <4> QED
        BY <4>4, <4>5, SameWhere
    <3>8. \E x, y : All(Where) \subseteq All(Where') \cup {x, y}
      <4>1. PICK x, y : ToSet(call.held) \subseteq {Head(call.held), x, y}
        BY <2>0, <2>4, ThreeHeld
      <4>2. M1["held"] \subseteq {x, y}
        BY <3>5, <4>1
      <4> HIDE DEF M1, M2
      <4>3. All(Where) \subseteq All(Where') \cup {x, y}
        BY <3>6, <3>7, <4>2
      <4> QED
        BY <4>3
    <3>9. /\ Distinct(keyboardQueue') /\ IsFiniteSet(dropped') /\ IsFiniteSet(returned')
          /\ \A d \in Device : Distinct(delivered'[d])
      BY <2>1, <3>2, FS_AddElement DEF Once
    <3> QED
      BY <2>1, <2>2, <3>6, <3>7, <3>8, <3>9 DEF Kept, Forgets
  <2> QED
    BY <2>1, <2>3, <2>4
<1>12. CASE ReadFromQueue \/ PollReads
  <2>1. sent' = sent
    BY <1>12 DEF ReadFromQueue, PollReads
  <2> QED
    BY <1>7, <1>9, <1>12, <2>1
<1>13. CASE DispatchMouseByte \/ PollDispatchesOther
  <2>1. sent' = sent
    BY <1>13 DEF DispatchMouseByte, PollDispatchesOther
  <2> QED
    BY <1>5, <1>10, <1>13, <2>1
<1> QED
  BY <1>1, <1>2, <1>3, <1>6, <1>8, <1>11, <1>12, <1>13
  DEF Next, InterruptTime, ServeInterrupt, ContinueRead

LEMMA AllBytes == TypeOK => All(Where) \subseteq Byte
<1> SUFFICES ASSUME TypeOK, NEW p \in Place
             PROVE  Where[p] \subseteq Byte
  BY DEF All
<1>1. /\ ToSet(keyboardQueue) \subseteq Byte
      /\ \A d \in Device : ToSet(delivered[d]) \subseteq Byte
  BY ToSetOf DEF TypeOK
<1>2. ToSet(Held) \subseteq Byte /\ Waiting \subseteq Byte
  BY ToSetOf, ToSetEmpty DEF Held, TypeOK, Call, Waiting
<1>3. returned \subseteq Byte /\ dropped \subseteq Byte
  BY DEF TypeOK
<1> QED
  BY <1>1, <1>2, <1>3, WhereIs DEF Place, Device

\* A byte is sent into the empty port, and it is a new one.
LEMMA SendStep ==
    ASSUME TypeOK, Once, NEW d \in Device, NEW v \in Value, DeviceSends(d, v)
    PROVE  /\ Once'
           /\ port' \notin All(Where) /\ All(Where') = All(Where) \cup {port'}
           /\ sent'[d] = sent[d] + 1 /\ sent[d] \in Nat
           /\ \A e \in Device : e # d => sent'[e] = sent[e]
           /\ gaveUp' = gaveUp
<1> USE DEF hardware, history
<1>1. /\ port = NoByte /\ sent[d] \in Nat
      /\ port' = [dev |-> d, id |-> sent[d] + 1, val |-> v]
      /\ sent'[d] = sent[d] + 1 /\ \A e \in Device : e # d => sent'[e] = sent[e]
      /\ UNCHANGED <<keyboardQueue, pc, call, delivered, returned, dropped, gaveUp>>
  BY DEF DeviceSends, TypeOK
<1>2. port' \in Byte /\ port'.dev = d /\ port'.id = sent[d] + 1
  BY <1>1 DEF Byte
<1>3. port' \notin All(Where)
  <2>1. ~ (sent[d] + 1 <= sent[d])
    BY <1>1
  <2> QED
    BY <1>2, <2>1 DEF Once
<1>4. Waiting = {} /\ Waiting' = {port'} /\ Held' = Held
  BY <1>1, <1>2, SentinelAssumption DEF Waiting, Held
<1> DEFINE A == Added(Where, "port", {port'})
<1>5. "port" \in Place /\ Apart(Where)
  BY DEF Place, Once
<1>6. All(A) = All(Where) \cup {port'} /\ Apart(A)
  BY <1>3, <1>5, AddKeeps
<1>7. Where' = A
  <2>1. \A p \in Place : p # "port" => Where'[p] = Where[p]
    BY <1>1, <1>4, WhereIs, WhereIsAfter DEF Place
  <2>2. Where'["port"] = Where["port"] \cup {port'}
    BY <1>4, WhereIs, WhereIsAfter
  <2>3. \A p \in Place : Where'[p] = A[p]
    BY <1>5, <2>1, <2>2 DEF Added
  <2>4. A = [p \in Place |-> A[p]]
    BY DEF Added
  <2> HIDE DEF A
  <2> QED
    BY <2>3, <2>4, SameWhere
<1> HIDE DEF A
<1>8. \A b \in All(Where') : b.id <= sent'[b.dev]
  <2> SUFFICES ASSUME NEW b \in All(Where')
               PROVE  b.id <= sent'[b.dev]
    OBVIOUS
  <2>1. CASE b = port'
    BY <1>1, <1>2, <2>1
  <2>2. CASE b # port'
    <3>1. b \in All(Where) /\ b \in Byte
      BY <1>6, <1>7, <2>2, AllBytes
    <3>2. b.id \in Nat /\ b.dev \in Device /\ b.id <= sent[b.dev] /\ sent[b.dev] \in Nat
      BY <3>1 DEF Once, Byte, TypeOK
    <3> QED
      BY <1>1, <3>2
  <2> QED
    BY <2>1, <2>2
<1>9. Once'
  <2>1. Apart(Where')
    BY <1>6, <1>7
  <2>2. /\ Distinct(keyboardQueue') /\ Distinct(Held')
        /\ \A e \in Device : Distinct(delivered'[e])
        /\ IsFiniteSet(returned') /\ IsFiniteSet(dropped')
    BY <1>1, <1>4 DEF Once
  <2> QED
    BY <1>8, <2>1, <2>2 DEF Once
<1> QED
  BY <1>1, <1>3, <1>6, <1>7, <1>9

LEMMA OnceInit == Init => Once
<1> SUFFICES ASSUME Init
             PROVE  Once
  OBVIOUS
<1>1. /\ Waiting = {} /\ keyboardQueue = <<>> /\ Held = <<>> /\ returned = {} /\ dropped = {}
      /\ \A d \in Device : delivered[d] = <<>>
  BY DEF Init, Waiting, Held
<1>2. \A p \in Place : Where[p] = {}
  BY <1>1, WhereIs, ToSetEmpty DEF Place, Device
<1>3. Apart(Where) /\ All(Where) = {}
  BY <1>2 DEF Apart, All
<1> QED
  BY <1>1, <1>3, ToSetEmpty, FS_EmptySet DEF Once

LEMMA OnceStep == TypeOK /\ Once /\ [Next]_vars => Once'
<1> SUFFICES ASSUME TypeOK, Once, [Next]_vars
             PROVE  Once'
  OBVIOUS
<1>1. CASE \E d \in Device, v \in Value : DeviceSends(d, v)
  BY <1>1, SendStep
<1>2. CASE ~ \E d \in Device, v \in Value : DeviceSends(d, v)
  <2>1. Kept /\ sent' = sent
    BY <1>2, KeepStep
  <2>2. \A b \in All(Where') : b.id <= sent'[b.dev]
    BY <2>1 DEF Kept, Once
  <2> QED
    BY <2>1, <2>2 DEF Kept, Once
<1> QED
  BY <1>1, <1>2

\* The places one after the other: each adds as many bytes as it holds.
LEMMA OnceCounts == TypeOK /\ Once => ExactlyOnce /\ IsFiniteSet(Present)
<1> SUFFICES ASSUME TypeOK, Once
             PROVE  ExactlyOnce /\ IsFiniteSet(Present)
  OBVIOUS
<1> DEFINE P == Where["port"]
           Q == Where["queue"]
           H == Where["held"]
           K == Where["Keyboard"]
           M == Where["Mouse"]
           R == Where["returned"]
           D == Where["dropped"]
<1>1. /\ IsFiniteSet(P) /\ P = Waiting
  <2>1. Waiting = {} \/ Waiting = {port}
    BY DEF Waiting
  <2>2. IsFiniteSet(Waiting)
    BY <2>1, FS_EmptySet, FS_Singleton
  <2> QED
    BY <2>2, WhereIs
<1>2. IsFiniteSet(Q) /\ Cardinality(Q) = Len(keyboardQueue)
  BY WhereIs, CountSeq DEF TypeOK, Once
<1>3. IsFiniteSet(H) /\ Cardinality(H) = Len(Held)
  <2>1. Held \in Seq(Byte)
    BY DEF Held, TypeOK, Call
  <2> QED
    BY <2>1, WhereIs, CountSeq DEF Once
<1>4. IsFiniteSet(K) /\ Cardinality(K) = Len(delivered["Keyboard"])
  BY WhereIs, CountSeq DEF TypeOK, Once, Device
<1>5. IsFiniteSet(M) /\ Cardinality(M) = Len(delivered["Mouse"])
  BY WhereIs, CountSeq DEF TypeOK, Once, Device
<1>6. IsFiniteSet(R) /\ R = returned /\ IsFiniteSet(D) /\ D = dropped
  BY WhereIs DEF Once
<1>7. /\ P \cap Q = {}
      /\ (P \cup Q) \cap H = {}
      /\ (P \cup Q \cup H) \cap K = {}
      /\ (P \cup Q \cup H \cup K) \cap M = {}
      /\ (P \cup Q \cup H \cup K \cup M) \cap R = {}
      /\ (P \cup Q \cup H \cup K \cup M \cup R) \cap D = {}
  <2>1. \A p, q \in Place : p # q => Where[p] \cap Where[q] = {}
    BY DEF Once, Apart
  <2>2. /\ P \cap Q = {} /\ P \cap H = {} /\ P \cap K = {} /\ P \cap M = {} /\ P \cap R = {}
        /\ P \cap D = {}
    BY <2>1 DEF Place
  <2>3. /\ Q \cap H = {} /\ Q \cap K = {} /\ Q \cap M = {} /\ Q \cap R = {} /\ Q \cap D = {}
        /\ H \cap K = {} /\ H \cap M = {} /\ H \cap R = {} /\ H \cap D = {}
    BY <2>1 DEF Place
  <2>4. /\ K \cap M = {} /\ K \cap R = {} /\ K \cap D = {}
        /\ M \cap R = {} /\ M \cap D = {} /\ R \cap D = {}
    BY <2>1 DEF Place
  <2> HIDE DEF P, Q, H, K, M, R, D
  <2> QED
    BY <2>2, <2>3, <2>4
<1>8. Present = P \cup Q \cup H \cup K \cup M \cup R \cup D
  BY WhereIs DEF Present
<1> HIDE DEF P, Q, H, K, M, R, D
<1>9. /\ IsFiniteSet(P \cup Q)
      /\ Cardinality(P \cup Q) = Cardinality(P) + Cardinality(Q)
  BY <1>1, <1>2, <1>7, CountDisjoint
<1>10. /\ IsFiniteSet(P \cup Q \cup H)
       /\ Cardinality(P \cup Q \cup H) = Cardinality(P \cup Q) + Cardinality(H)
  BY <1>3, <1>7, <1>9, CountDisjoint
<1>11. /\ IsFiniteSet(P \cup Q \cup H \cup K)
       /\ Cardinality(P \cup Q \cup H \cup K) = Cardinality(P \cup Q \cup H) + Cardinality(K)
  BY <1>4, <1>7, <1>10, CountDisjoint
<1>12. /\ IsFiniteSet(P \cup Q \cup H \cup K \cup M)
       /\ Cardinality(P \cup Q \cup H \cup K \cup M)
            = Cardinality(P \cup Q \cup H \cup K) + Cardinality(M)
  BY <1>5, <1>7, <1>11, CountDisjoint
<1>13. /\ IsFiniteSet(P \cup Q \cup H \cup K \cup M \cup R)
       /\ Cardinality(P \cup Q \cup H \cup K \cup M \cup R)
            = Cardinality(P \cup Q \cup H \cup K \cup M) + Cardinality(R)
  BY <1>6, <1>7, <1>12, CountDisjoint
<1>14. /\ IsFiniteSet(P \cup Q \cup H \cup K \cup M \cup R \cup D)
       /\ Cardinality(P \cup Q \cup H \cup K \cup M \cup R \cup D)
            = Cardinality(P \cup Q \cup H \cup K \cup M \cup R) + Cardinality(D)
  BY <1>6, <1>7, <1>13, CountDisjoint
<1> QED
  BY <1>1, <1>2, <1>3, <1>4, <1>5, <1>6, <1>8, <1>9, <1>10, <1>11, <1>12, <1>13, <1>14
  DEF ExactlyOnce

\* No byte is served twice, whatever the handlers, the work loop and the
\* reads take from under each other.
THEOREM BytesServedOnce == Spec => []ExactlyOnce
<1> QED
  BY OnceInit, OnceStep, OnceCounts, TypeCorrect, PTL DEF Spec

\* A step forgets as many bytes as its read's giving up allows.
LEMMA LossStep == TypeOK /\ TypeOK' /\ Once /\ LossBounded /\ [Next]_vars => LossBounded'
<1> SUFFICES ASSUME TypeOK, TypeOK', Once, LossBounded, [Next]_vars
             PROVE  LossBounded'
  OBVIOUS
<1> DEFINE A == All(Where)
           B == All(Where')
<1>1. A = Present /\ B = Present'
  <2>1. B \subseteq Present'
    BY WhereIsAfter DEF All, Present, Place
  <2>2. Present' \subseteq B
    BY WhereIsAfter DEF All, Present, Place
  <2> QED
    BY <2>1, <2>2, AllPresent
<1>2. IsFiniteSet(A) /\ IsFiniteSet(B)
  <2>1. Once'
    BY OnceStep
  <2>2. (TypeOK /\ Once => ExactlyOnce /\ IsFiniteSet(Present))'
    BY OnceCounts, PTL
  <2> HIDE DEF A, B
  <2> QED
    BY <1>1, <2>1, <2>2, OnceCounts
<1>3. /\ gaveUp \in Nat /\ sent["Keyboard"] \in Nat /\ sent["Mouse"] \in Nat
      /\ sent["Keyboard"] + sent["Mouse"] <= Cardinality(A) + 2 * gaveUp
      /\ Cardinality(A) \in Nat /\ Cardinality(B) \in Nat
  BY <1>1, <1>2, FS_CardinalityType DEF TypeOK, Device, LossBounded
<1>4. CASE \E d \in Device, v \in Value : DeviceSends(d, v)
  <2> PICK d \in Device, v \in Value : DeviceSends(d, v)
    BY <1>4
  <2>1. /\ port' \notin A /\ B = A \cup {port'} /\ gaveUp' = gaveUp
        /\ sent'[d] = sent[d] + 1 /\ \A e \in Device : e # d => sent'[e] = sent[e]
    BY SendStep
  <2> HIDE DEF A, B
  <2>2. Cardinality(B) = Cardinality(A) + 1
    BY <1>2, <2>1, FS_AddElement
  <2>3. sent'["Keyboard"] + sent'["Mouse"] = sent["Keyboard"] + sent["Mouse"] + 1
    BY <1>3, <2>1 DEF Device
  <2>4. sent'["Keyboard"] + sent'["Mouse"] <= Cardinality(B) + 2 * gaveUp'
    BY <1>3, <2>1, <2>2, <2>3
  <2> QED
    BY <1>1, <2>4 DEF LossBounded
<1>5. CASE ~ \E d \in Device, v \in Value : DeviceSends(d, v)
  <2>1. sent' = sent /\ Forgets
    BY <1>5, KeepStep DEF Kept
  <2>2. CASE gaveUp' = gaveUp /\ A \subseteq B
    <3> HIDE DEF A, B
    <3>1. Cardinality(A) <= Cardinality(B)
      BY <1>2, <2>2, FS_Subset
    <3>2. sent'["Keyboard"] + sent'["Mouse"] <= Cardinality(B) + 2 * gaveUp'
      BY <1>3, <2>1, <2>2, <3>1
    <3> QED
      BY <1>1, <3>2 DEF LossBounded
  <2>3. CASE gaveUp' = gaveUp + 1 /\ \E x, y : A \subseteq B \cup {x, y}
    <3> PICK x, y : A \subseteq B \cup {x, y}
      BY <2>3
    <3> HIDE DEF A, B
    <3>1. /\ IsFiniteSet(B \cup {x})
          /\ Cardinality(B \cup {x}) \in {Cardinality(B), Cardinality(B) + 1}
      BY <1>2, FS_AddElement
    <3>2. /\ IsFiniteSet((B \cup {x}) \cup {y})
          /\ Cardinality((B \cup {x}) \cup {y})
               \in {Cardinality(B \cup {x}), Cardinality(B \cup {x}) + 1}
      BY <3>1, FS_AddElement
    <3>3. A \subseteq (B \cup {x}) \cup {y}
      OBVIOUS
    <3>4. Cardinality(A) <= Cardinality((B \cup {x}) \cup {y})
      BY <3>2, <3>3, FS_Subset
    <3>5. Cardinality(A) <= Cardinality(B) + 2
      BY <1>3, <3>1, <3>2, <3>4
    <3>6. sent'["Keyboard"] + sent'["Mouse"] <= Cardinality(B) + 2 * gaveUp'
      BY <1>3, <2>1, <2>3, <3>5
    <3> QED
      BY <1>1, <3>6 DEF LossBounded
  <2> QED
    BY <2>1, <2>2, <2>3 DEF Forgets
<1> QED
  BY <1>4, <1>5

\* Only a read that gives up forgets bytes, and two at most each time.
THEOREM LossOnlyByGivingUp == Spec => []LossBounded
<1>1. Init => LossBounded
  <2> SUFFICES ASSUME Init
               PROVE  LossBounded
    OBVIOUS
  <2>1. TypeOK /\ Once
    <3>1. TypeOK
      BY DataPortAssumption DEF Init, TypeOK, Control, Call, HeldSlots, Device
    <3> QED
      BY <3>1, OnceInit
  <2>2. Cardinality(Present) \in Nat
    BY <2>1, OnceCounts, FS_CardinalityType
  <2>3. sent["Keyboard"] = 0 /\ sent["Mouse"] = 0 /\ gaveUp = 0
    BY DEF Init, Device
  <2> QED
    BY <2>2, <2>3 DEF LossBounded
<1> QED
  BY <1>1, OnceInit, OnceStep, LossStep, TypeCorrect, PTL DEF Spec
=============================================================================
