------------------------ MODULE RequestHelpers_proofs ------------------------
(***************************************************************************)
(* Proofs about the helpers that the drivers send requests with: the loop  *)
(* that changes the command byte, and who frees a request's memory.        *)
(***************************************************************************)
EXTENDS CommandByte, RequestLifetime, FiniteSetTheorems, TLAPS

---------------------------------------------------------------------------
(* The command byte's test-and-set loop is right for any number of drivers *)
(* as long as nothing but answers was on the keyboard's stream; for two    *)
(* drivers it is right with a few scan codes in between as well, while the *)
(* request engine is awake.                                                *)

\* The controller answers.
Answers == ~Silent

Counted == strays \in [StrayBytes -> Nat]

\* Between requests the stream is empty, and so each read gets the answer to
\* its own command.
Inv ==
    /\ stream = <<>>
    /\ pc \in [Driver -> {"read", "test", "done"}]
    /\ commandByte \in [Driver -> SUBSET Bit]
    /\ controllerByte \subseteq Bit
    /\ AppliedAtomically

\* The only byte on the stream is the answer; it is taken off again.
LEMMA OneAnswer ==
  ASSUME NEW b, NEW expected
  PROVE  /\ Matches(<<b>>, expected) = {i \in {1} : b = expected}
         /\ ReadExpecting(<<b>>, expected) = b
         /\ AfterExpecting(<<b>>, expected) = <<>>
<1>1. Matches(<<b>>, expected) = {i \in {1} : b = expected}
  <2>1. 1..Len(<<b>>) = {1} OBVIOUS
  <2> QED BY <2>1 DEF Matches
<1>2. b = expected => Matches(<<b>>, expected) = {1}
  BY <1>1
<1>3. b # expected => Matches(<<b>>, expected) = {}
  BY <1>1
<1>4. Min({1}) = 1
  BY DEF Min
<1>5. SubSeq(<<b>>, 2, Len(<<b>>)) = <<>> /\ SubSeq(<<b>>, 5, Len(<<b>>)) = <<>>
  OBVIOUS
<1>6. ReadExpecting(<<b>>, expected) = b
  BY <1>2, <1>3 DEF ReadExpecting, Read
<1>7. AfterExpecting(<<b>>, expected) = <<>>
  BY <1>2, <1>3, <1>4, <1>5 DEF AfterExpecting
<1> QED BY <1>1, <1>6, <1>7

LEMMA AnswerAlone ==
  ASSUME Answers, stream = <<>>
  PROVE  Answered = {<<controllerByte>>}
<1>1. Append(<<>>, controllerByte) = <<controllerByte>> OBVIOUS
<1> QED BY <1>1 DEF Answered, Answers

\* A driver that is done adds its own change to what the others did: their
\* bits are not its bits.
LEMMA AddsItsChange ==
  ASSUME NEW d \in Driver, NEW D, D \subseteq Driver, d \notin D,
         CommandByteAssumption
  PROVE  (Changed(D) \cup SetBits[d]) \ ClearBits[d] = Changed(D \cup {d})
<1>1. UNION {SetBits[e] : e \in D \cup {d}} = (UNION {SetBits[e] : e \in D}) \cup SetBits[d]
  OBVIOUS
<1>2. UNION {ClearBits[e] : e \in D \cup {d}} = (UNION {ClearBits[e] : e \in D}) \cup ClearBits[d]
  OBVIOUS
<1>3. SetBits[d] \cap UNION {ClearBits[e] : e \in D} = {}
  <2>1. \A e \in D : SetBits[d] \cap ClearBits[e] = {}
    BY DEF CommandByteAssumption
  <2> QED BY <2>1
<1>4. \A I, S, C, s, c :
          s \cap C = {} => ((((I \cup S) \ C) \cup s) \ c) = (I \cup (S \cup s)) \ (C \cup c)
  OBVIOUS
<1> QED BY <1>1, <1>2, <1>3, <1>4 DEF Changed

LEMMA InvInit == Answers /\ Init => Inv
<1> SUFFICES ASSUME Init PROVE Inv OBVIOUS
<1>1. Done = {} BY DEF Init, Done
<1>2. AppliedAtomically
  BY <1>1 DEF Init, AppliedAtomically, Changed
<1> QED BY <1>2, CommandByteAssumption DEF Init, Inv, Zero, CommandByteAssumption

\* Every step but the arrival of a scan code keeps the invariant.
Undisturbed == \A b \in StrayBytes : ~StrayArrives(b)

LEMMA InvNext == Answers /\ Inv /\ Undisturbed /\ [Next]_vars => Inv'
<1> SUFFICES ASSUME Answers, Inv, Undisturbed, [Next]_vars PROVE Inv' OBVIOUS
<1> USE CommandByteAssumption DEF CommandByteAssumption
<1>a. ASSUME UNCHANGED <<controllerByte, pc>> PROVE AppliedAtomically'
  BY <1>a DEF Inv, AppliedAtomically, Done
<1>1. ASSUME NEW d \in Driver, ReadCommandByte(d) PROVE Inv'
  <2>1. Done' = Done
    BY <1>1 DEF ReadCommandByte, Done, Inv
  <2>2. AppliedAtomically'
    BY <1>1, <2>1 DEF ReadCommandByte, AppliedAtomically, Inv
  <2>3. CASE hardwareOffline
    BY <1>1, <2>2, <2>3 DEF ReadCommandByte, Inv, Zero
  <2>4. CASE ~hardwareOffline
    <3>1. /\ commandByte' = [commandByte EXCEPT ![d] = Read(<<controllerByte>>)]
          /\ stream' = AfterRead(<<controllerByte>>)
      BY <1>1, <2>4, AnswerAlone DEF ReadCommandByte, Inv
    <3>2. Read(<<controllerByte>>) = controllerByte /\ AfterRead(<<controllerByte>>) = <<>>
      BY DEF Read, AfterRead
    <3> QED BY <1>1, <2>2, <3>1, <3>2 DEF ReadCommandByte, Inv
  <2> QED BY <2>3, <2>4
<1>2. ASSUME NEW d \in Driver, TestAndSet(d) PROVE Inv'
  <2>1. CASE hardwareOffline
    <3>1. pc' = Retry(d) /\ UNCHANGED <<controllerByte, stream, commandByte>>
      BY <1>2, <2>1 DEF TestAndSet
    <3>2. Done' = Done
      BY <1>2, <3>1 DEF TestAndSet, Retry, Done, Inv
    <3> QED BY <3>1, <3>2 DEF Retry, Inv, AppliedAtomically
  <2>2. CASE ~hardwareOffline
    <3>1. stream' = AfterExpecting(<<controllerByte>>, commandByte[d])
      BY <1>2, <2>2, AnswerAlone DEF TestAndSet, Inv
    <3>2. stream' = <<>>
      BY <3>1, OneAnswer
    <3>3. Succeeds(<<controllerByte>>, commandByte[d]) <=> commandByte[d] = controllerByte
      BY OneAnswer DEF Succeeds
    <3>4. CASE commandByte[d] = controllerByte
      <4>1. /\ controllerByte' = (controllerByte \cup SetBits[d]) \ ClearBits[d]
            /\ pc' = [pc EXCEPT ![d] = "done"] /\ commandByte' = commandByte
        BY <1>2, <2>2, <3>3, <3>4, AnswerAlone DEF TestAndSet, Inv
      <4>2. d \notin Done /\ Done \subseteq Driver /\ Done' = Done \cup {d}
        BY <1>2, <4>1 DEF TestAndSet, Done, Inv
      <4>3. controllerByte = Changed(Done)
        BY DEF Inv, AppliedAtomically
      <4>4. AppliedAtomically'
        BY <4>1, <4>2, <4>3, AddsItsChange DEF AppliedAtomically
      <4>5. controllerByte' \subseteq Bit
        BY <4>1 DEF Inv
      <4> QED BY <3>2, <4>1, <4>4, <4>5 DEF Inv
    <3>5. CASE commandByte[d] # controllerByte
      <4>1. pc' = Retry(d) /\ UNCHANGED <<controllerByte, commandByte>>
        BY <1>2, <2>2, <3>3, <3>5, AnswerAlone DEF TestAndSet, Inv
      <4>2. Done' = Done
        BY <1>2, <4>1 DEF TestAndSet, Retry, Done, Inv
      <4> QED BY <3>2, <4>1, <4>2 DEF Retry, Inv, AppliedAtomically
    <3> QED BY <3>4, <3>5
  <2> QED BY <2>1, <2>2
<1>3. ASSUME NEW b \in StrayBytes, StrayArrives(b) PROVE Inv'
  BY <1>3 DEF Undisturbed
<1>4. CASE Dispatch
  BY <1>4 DEF Dispatch, Inv
<1>5. CASE Freeze \/ Thaw \/ UNCHANGED vars
  <2>1. UNCHANGED <<controllerByte, stream, pc, commandByte>>
    BY <1>5 DEF Freeze, Thaw, vars
  <2> QED BY <2>1, <1>a DEF Inv
<1> QED BY <1>1, <1>2, <1>3, <1>4, <1>5 DEF Next

\* What was counted never goes down, and a scan code that comes is counted.
LEMMA CountedNext ==
  ASSUME Counted, [Next]_vars
  PROVE  Counted' /\ (Alone' => Alone /\ Undisturbed)
<1>1. ASSUME NEW b \in StrayBytes, StrayArrives(b) PROVE Counted' /\ ~Alone'
  <2>1. strays' = [strays EXCEPT ![b] = strays[b] + 1] BY <1>1 DEF StrayArrives
  <2>2. Counted' /\ strays'[b] = strays[b] + 1 /\ strays[b] \in Nat BY <2>1 DEF Counted
  <2> QED BY <2>2 DEF Alone
<1>2. CASE Undisturbed
  <2>1. UNCHANGED strays
    BY <1>2 DEF Undisturbed, Next, ReadCommandByte, TestAndSet, Dispatch, Freeze, Thaw, vars
  <2> QED BY <1>2, <2>1 DEF Counted, Alone
<1> QED BY <1>1, <1>2 DEF Undisturbed

\* With a controller that answers, the read and compare loop of setCommandByte
\* is as good as an atomic update until the first scan code comes in between,
\* for any number of drivers that change different bits and however often the
\* request engine is frozen in the middle.
THEOREM UpdatesAreNotLost == Answers => (Spec => []AppliedWhenAlone)
<1> SUFFICES ASSUME Answers PROVE Spec => []AppliedWhenAlone OBVIOUS
<1> DEFINE IInv == Counted /\ (Alone => Inv)
<1>1. Init => IInv
  <2>1. Init => Counted BY DEF Init, Counted
  <2> QED BY <2>1, InvInit
<1>2. IInv /\ [Next]_vars => IInv' BY InvNext, CountedNext
<1>3. IInv => AppliedWhenAlone BY DEF Inv, AppliedWhenAlone
<1> HIDE DEF IInv
<1> QED BY <1>1, <1>2, <1>3, PTL DEF Spec

---------------------------------------------------------------------------
(* Scan codes in between. *)

\* How a read with an expected byte ends, when there are no more bytes than it
\* looks at: with the first byte that is the expected one, or with none left.
Found(s, v, m) ==
    /\ m \in 1..Len(s) /\ s[m] = v /\ \A i \in 1..(m - 1) : s[i] # v
    /\ Succeeds(s, v)
    /\ AfterExpecting(s, v) = SubSeq(s, m + 1, Len(s))

LEMMA Looking ==
  ASSUME NEW T, NEW s \in Seq(T), Len(s) >= 1, Len(s) <= 4, NEW v
  PROVE  \/ \E m \in 1..Len(s) : Found(s, v, m)
         \/ /\ \A i \in 1..Len(s) : s[i] # v
            /\ ~Succeeds(s, v) /\ AfterExpecting(s, v) = <<>>
<1>1. Matches(s, v) = {i \in 1..Len(s) : s[i] = v}
  <2>1. \A i \in 1..Len(s) : i <= 4 OBVIOUS
  <2> QED BY <2>1 DEF Matches
<1>2. CASE \E i \in 1..Len(s) : s[i] = v
  <2>1. Len(s) \in Nat /\ \A i \in 1..Len(s) : i \in {1, 2, 3, 4} OBVIOUS
  <2>2. \E m \in 1..Len(s) : s[m] = v /\ \A i \in 1..(m - 1) : s[i] # v
    <3>1. CASE s[1] = v BY <3>1
    <3>2. CASE s[1] # v /\ 2 \in 1..Len(s) /\ s[2] = v
      <4>1. \A i \in 1..(2 - 1) : i = 1 OBVIOUS
      <4> QED BY <3>2, <4>1
    <3>3. CASE s[1] # v /\ s[2] # v /\ 3 \in 1..Len(s) /\ s[3] = v
      <4>1. \A i \in 1..(3 - 1) : i \in {1, 2} OBVIOUS
      <4> QED BY <3>3, <4>1
    <3>4. CASE s[1] # v /\ s[2] # v /\ s[3] # v /\ 4 \in 1..Len(s) /\ s[4] = v
      <4>1. \A i \in 1..(4 - 1) : i \in {1, 2, 3} OBVIOUS
      <4> QED BY <3>4, <4>1
    <3>5. PICK i \in 1..Len(s) : s[i] = v BY <1>2
    <3>6. i \in {1, 2, 3, 4} BY <2>1
    <3>7. \A n \in 1..4 : i >= n => n \in 1..Len(s) BY <2>1
    <3> QED BY <3>1, <3>2, <3>3, <3>4, <3>5, <3>6, <3>7
  <2>3. PICK m \in 1..Len(s) : s[m] = v /\ \A i \in 1..(m - 1) : s[i] # v BY <2>2
  <2>4. m \in Matches(s, v) /\ \A i \in Matches(s, v) : m <= i
    <3>1. ASSUME NEW i \in 1..Len(s), s[i] = v, i < m PROVE FALSE
      <4>1. i \in 1..(m - 1) BY <3>1
      <4> QED BY <2>3, <3>1, <4>1
    <3> QED BY <1>1, <2>3, <3>1
  <2>5. Min(Matches(s, v)) = m
    <3>1. \A i \in Matches(s, v) : i \in Nat BY <1>1
    <3>2. \A x \in Matches(s, v) : (\A y \in Matches(s, v) : x <= y) => x = m BY <2>4, <3>1
    <3> QED BY <2>4, <3>2 DEF Min
  <2>6. Matches(s, v) # {} BY <2>4
  <2>7. Succeeds(s, v) BY <2>6 DEF Succeeds, ReadExpecting
  <2>8. AfterExpecting(s, v) = SubSeq(s, m + 1, Len(s)) BY <2>5, <2>6 DEF AfterExpecting
  <2> QED BY <2>3, <2>7, <2>8 DEF Found
<1>3. CASE \A i \in 1..Len(s) : s[i] # v
  <2>1. Matches(s, v) = {} BY <1>1, <1>3
  <2>2. s # <<>> /\ Head(s) = s[1] /\ 1 \in 1..Len(s) OBVIOUS
  <2>3. Read(s) = s[1] BY <2>2 DEF Read
  <2>4. ~Succeeds(s, v) BY <1>3, <2>1, <2>2, <2>3 DEF Succeeds, ReadExpecting
  <2>5. SubSeq(s, 5, Len(s)) = <<>> OBVIOUS
  <2>6. AfterExpecting(s, v) = <<>> BY <2>1, <2>5 DEF AfterExpecting
  <2> QED BY <1>3, <2>4, <2>6
<1> QED BY <1>2, <1>3

\* The command bytes that may have been read before: the first one only, until
\* a driver is done.
Seen == IF Done = {} THEN {Changed({})} ELSE {Changed(S) : S \in SUBSET Driver}

\* The driver holds a scan code that it read for the command byte.
Misled(d) == pc[d] = "test" /\ commandByte[d] \in Came

Typed ==
    /\ strays \in [StrayBytes -> Nat] /\ IsFiniteSet(Came)
    /\ stream \in Seq(SUBSET Bit)
    /\ pc \in [Driver -> {"read", "test", "done"}]
    /\ commandByte \in [Driver -> SUBSET Bit]
    /\ controllerByte \subseteq Bit
    /\ hardwareOffline \in BOOLEAN /\ sleeps \in Nat
    /\ sleeps = 0 => ~hardwareOffline

\* The stream holds no more bytes than scan codes came, each of them once, and
\* none that a driver took for the command byte; its other bytes, and what the
\* drivers read, are command bytes; and an old answer is there only while a
\* driver is misled by the scan code it came after.
OnStream ==
    /\ Len(stream) <= Cardinality(Came)
    /\ \A i \in 1..Len(stream) : stream[i] \in Came \cup Seen
    /\ \A i, j \in 1..Len(stream) : stream[i] \in Came /\ stream[i] = stream[j] => i = j
    /\ \A i \in 1..Len(stream) : \A d \in Driver : Misled(d) => stream[i] # commandByte[d]
    /\ (\A d \in Driver : ~Misled(d)) => \A i \in 1..Len(stream) : stream[i] \in Came

ReadBefore == \A d \in Driver : pc[d] = "test" => commandByte[d] \in Came \cup Seen

Orderly == AppliedAtomically /\ OnStream /\ ReadBefore

LEMMA ByteSeen ==
  ASSUME AppliedAtomically, Awake
  PROVE  controllerByte \in Seen /\ controllerByte \notin Came
<1>1. Done \in SUBSET Driver BY DEF Done
<1> QED BY <1>1 DEF Seen, AppliedAtomically, Awake

LEMMA TypedInit == Init => Typed /\ Orderly
<1> SUFFICES ASSUME Init PROVE Typed /\ Orderly OBVIOUS
<1>1. Came = {} /\ Done = {} BY DEF Init, Came, Done
<1>2. AppliedAtomically BY <1>1 DEF Init, AppliedAtomically, Changed
<1>3. Typed
  <2>1. IsFiniteSet(Came) BY <1>1, FS_EmptySet
  <2>2. /\ stream \in Seq(SUBSET Bit) /\ pc \in [Driver -> {"read", "test", "done"}]
        /\ commandByte \in [Driver -> SUBSET Bit]
    BY DEF Init, Zero
  <2>3. /\ strays \in [StrayBytes -> Nat] /\ controllerByte \subseteq Bit
        /\ hardwareOffline = FALSE /\ sleeps = 0
    BY CommandByteAssumption DEF Init, CommandByteAssumption
  <2> QED BY <2>1, <2>2, <2>3 DEF Typed
<1>4. OnStream BY <1>1, FS_EmptySet DEF Init, OnStream
<1>5. ReadBefore BY DEF Init, ReadBefore
<1> QED BY <1>2, <1>3, <1>4, <1>5 DEF Orderly

\* The answer comes after what waits on the stream.
LEMMA AnswerLast ==
  ASSUME Answers, Typed
  PROVE  LET s == Append(stream, controllerByte)
         IN  /\ Answered = {s} /\ s \in Seq(SUBSET Bit) /\ Len(s) = Len(stream) + 1
             /\ s[Len(s)] = controllerByte /\ \A i \in 1..Len(stream) : s[i] = stream[i]
<1>1. stream \in Seq(SUBSET Bit) /\ controllerByte \in SUBSET Bit BY DEF Typed
<1>2. Answered = {Append(stream, controllerByte)} BY DEF Answered, Answers
<1> QED BY <1>1, <1>2

---------------------------------------------------------------------------
(* The steps keep Typed. *)

LEMMA SeqParts ==
  ASSUME NEW T, NEW s \in Seq(T), NEW m \in Nat
  PROVE  /\ SubSeq(s, m + 1, Len(s)) \in Seq(T)
         /\ s # <<>> => Head(s) \in T /\ Tail(s) \in Seq(T)
  OBVIOUS

LEMMA AfterIsStream ==
  ASSUME NEW T, NEW s \in Seq(T), NEW v
  PROVE  AfterExpecting(s, v) \in Seq(T)
<1>1. CASE Matches(s, v) = {} BY <1>1, SeqParts DEF AfterExpecting
<1>2. CASE Matches(s, v) # {}
  <2>1. Matches(s, v) \subseteq {1, 2, 3, 4} BY DEF Matches
  <2>2. \E m \in Matches(s, v) : \A y \in Matches(s, v) : m <= y
    <3>1. CASE 1 \in Matches(s, v) BY <2>1, <3>1
    <3>2. CASE 1 \notin Matches(s, v) /\ 2 \in Matches(s, v) BY <2>1, <3>2
    <3>3. CASE 1 \notin Matches(s, v) /\ 2 \notin Matches(s, v) /\ 3 \in Matches(s, v) BY <2>1, <3>3
    <3>4. CASE Matches(s, v) = {4} BY <3>4
    <3> QED BY <1>2, <2>1, <3>1, <3>2, <3>3, <3>4
  <2>3. Min(Matches(s, v)) \in Matches(s, v) BY <2>2 DEF Min
  <2>4. Min(Matches(s, v)) \in Nat BY <2>1, <2>3
  <2> QED BY <1>2, <2>4, SeqParts DEF AfterExpecting
<1> QED BY <1>1, <1>2

LEMMA TypedNext == Answers /\ Typed /\ [Next]_vars => Typed'
<1> SUFFICES ASSUME Answers, Typed, [Next]_vars PROVE Typed' OBVIOUS
<1> USE CommandByteAssumption DEF CommandByteAssumption
<1>c. ASSUME UNCHANGED strays PROVE Came' = Came BY <1>c DEF Came
<1>1. ASSUME NEW d \in Driver, ReadCommandByte(d) PROVE Typed'
  <2>1. PICK s \in Seq(SUBSET Bit) :
            /\ commandByte' \in {[commandByte EXCEPT ![d] = Zero], [commandByte EXCEPT ![d] = Read(s)]}
            /\ stream' \in {stream, AfterRead(s)}
    <3>1. CASE hardwareOffline BY <1>1, <3>1 DEF ReadCommandByte, Typed
    <3>2. CASE ~hardwareOffline BY <1>1, <3>2, AnswerLast DEF ReadCommandByte, Typed
    <3> QED BY <3>1, <3>2
  <2>2. Read(s) \in SUBSET Bit /\ AfterRead(s) \in Seq(SUBSET Bit)
    BY SeqParts DEF Read, AfterRead, Zero
  <2>3. commandByte' \in [Driver -> SUBSET Bit] /\ stream' \in Seq(SUBSET Bit)
    BY <2>1, <2>2 DEF Typed, Zero
  <2>4. pc' \in [Driver -> {"read", "test", "done"}] /\ UNCHANGED <<controllerByte, hardwareOffline, strays, sleeps>>
    BY <1>1 DEF ReadCommandByte, Typed
  <2> QED BY <1>c, <2>3, <2>4 DEF Typed
<1>2. ASSUME NEW d \in Driver, TestAndSet(d) PROVE Typed'
  <2>1. UNCHANGED <<commandByte, hardwareOffline, strays, sleeps>> BY <1>2 DEF TestAndSet
  <2>2. pc' \in [Driver -> {"read", "test", "done"}]
    BY <1>2 DEF TestAndSet, Retry, Typed
  <2>3. controllerByte' \subseteq Bit BY <1>2 DEF TestAndSet, Typed
  <2>4. stream' \in Seq(SUBSET Bit)
    <3>1. CASE hardwareOffline BY <1>2, <3>1 DEF TestAndSet, Typed
    <3>2. CASE ~hardwareOffline
      <4>1. PICK s \in Answered : stream' = AfterExpecting(s, commandByte[d])
        BY <1>2, <3>2 DEF TestAndSet
      <4>2. s \in Seq(SUBSET Bit) BY AnswerLast
      <4> QED BY <4>1, <4>2, AfterIsStream
    <3> QED BY <3>1, <3>2
  <2> QED BY <1>c, <2>1, <2>2, <2>3, <2>4 DEF Typed
<1>3. ASSUME NEW b \in StrayBytes, StrayArrives(b) PROVE Typed'
  <2>1. strays' = [strays EXCEPT ![b] = strays[b] + 1] BY <1>3 DEF StrayArrives
  <2>2. strays' \in [StrayBytes -> Nat] /\ Came' = Came \cup {b}
    BY <2>1 DEF Typed, Came
  <2>3. IsFiniteSet(Came') BY <2>2, FS_AddElement DEF Typed
  <2>4. b \in SUBSET Bit OBVIOUS
  <2>5. stream' \in Seq(SUBSET Bit) BY <1>3, <2>4 DEF StrayArrives, Typed
  <2> QED BY <1>3, <2>2, <2>3, <2>5 DEF StrayArrives, Typed
<1>4. CASE Dispatch
  <2>1. stream' \in Seq(SUBSET Bit) BY <1>4, SeqParts DEF Dispatch, Typed
  <2> QED BY <1>4, <1>c, <2>1 DEF Dispatch, Typed
<1>5. CASE Freeze \/ Thaw \/ UNCHANGED vars
  <2>1. UNCHANGED <<controllerByte, stream, pc, commandByte, strays>>
    BY <1>5 DEF Freeze, Thaw, vars
  <2>2. /\ hardwareOffline' \in BOOLEAN /\ sleeps' \in Nat
        /\ sleeps' = 0 => ~hardwareOffline'
    <3>1. CASE Freeze BY <3>1 DEF Freeze, Typed
    <3>2. CASE Thaw BY <3>2 DEF Thaw, Typed
    <3>3. CASE UNCHANGED vars BY <3>3 DEF vars, Typed
    <3> QED BY <1>5, <3>1, <3>2, <3>3
  <2> QED BY <1>c, <2>1, <2>2 DEF Typed
<1> QED BY <1>1, <1>2, <1>3, <1>4, <1>5 DEF Next

---------------------------------------------------------------------------
(* The steps keep Orderly. *)

\* A scan code that comes is a new one, and no command byte.
LEMMA ArrivalKeeps ==
  ASSUME Typed, Awake', Orderly, NEW b \in StrayBytes, StrayArrives(b)
  PROVE  Orderly'
<1>1. /\ strays' = [strays EXCEPT ![b] = strays[b] + 1] /\ stream' = Append(stream, b)
      /\ UNCHANGED <<controllerByte, pc, commandByte>>
  BY DEF StrayArrives
<1>2. strays'[b] = strays[b] + 1 /\ strays[b] \in Nat BY <1>1 DEF Typed
<1>3. Came' = Came \cup {b}
  BY <1>1, <1>2 DEF Typed, Came
<1>4. b \notin Came
  <2>1. strays'[b] = 1 BY <1>3 DEF Awake
  <2> QED BY <1>2, <2>1 DEF Came
<1>5. Cardinality(Came') = Cardinality(Came) + 1 /\ Cardinality(Came) \in Nat
  BY <1>3, <1>4, FS_AddElement, FS_CardinalityType DEF Typed
<1>6. Done' = Done /\ Seen' = Seen
  BY <1>1 DEF Done, Seen, Changed
<1>7. b \notin Seen
  <2>1. \A S \in SUBSET Driver : Changed(S)' \notin Came' BY DEF Awake
  <2>2. \A S \in SUBSET Driver : Changed(S)' = Changed(S) BY DEF Changed
  <2>3. {} \in SUBSET Driver OBVIOUS
  <2> QED BY <1>3, <2>1, <2>2, <2>3 DEF Seen
<1>8. b \in SUBSET Bit BY CommandByteAssumption DEF CommandByteAssumption
<1>9. /\ Len(stream') = Len(stream) + 1 /\ Len(stream) \in Nat
      /\ stream'[Len(stream')] = b /\ \A i \in 1..Len(stream) : stream'[i] = stream[i]
  BY <1>1, <1>8 DEF Typed
<1>10. \A i \in 1..Len(stream') : i = Len(stream') \/ i \in 1..Len(stream)
  BY <1>9
<1>11. \A d \in Driver : (pc[d] = "test" => commandByte[d] # b) /\ (Misled(d)' <=> Misled(d))
  <2>1. \A d \in Driver : pc[d] = "test" => commandByte[d] # b
    BY <1>4, <1>7 DEF Orderly, ReadBefore
  <2> QED BY <1>1, <1>3, <2>1 DEF Misled
<1>12. \A i \in 1..Len(stream) : stream[i] # b
  BY <1>4, <1>7 DEF Orderly, OnStream
<1>13. OnStream'
  <2>1. Len(stream') <= Cardinality(Came')
    BY <1>5, <1>9 DEF Orderly, OnStream
  <2>2. \A i \in 1..Len(stream') : stream'[i] \in Came' \cup Seen'
    BY <1>3, <1>6, <1>9, <1>10 DEF Orderly, OnStream
  <2>3. \A i, j \in 1..Len(stream') : stream'[i] \in Came' /\ stream'[i] = stream'[j] => i = j
    BY <1>3, <1>9, <1>10, <1>12 DEF Orderly, OnStream
  <2>4. \A i \in 1..Len(stream') : \A d \in Driver : Misled(d)' => stream'[i] # commandByte'[d]
    <3>1. \A d \in Driver : Misled(d) => commandByte[d] # b BY <1>11 DEF Misled
    <3> QED BY <1>1, <1>9, <1>10, <1>11, <3>1 DEF Orderly, OnStream
  <2>5. (\A d \in Driver : ~Misled(d)') => \A i \in 1..Len(stream') : stream'[i] \in Came'
    BY <1>3, <1>9, <1>10, <1>11 DEF Orderly, OnStream
  <2> QED BY <2>1, <2>2, <2>3, <2>4, <2>5 DEF OnStream
<1>14. ReadBefore' BY <1>1, <1>3, <1>6 DEF Orderly, ReadBefore
<1>15. AppliedAtomically' BY <1>1, <1>6 DEF Orderly, AppliedAtomically
<1> QED BY <1>13, <1>14, <1>15 DEF Orderly

\* What is left of a stream when its first bytes are taken.
LEMMA SuffixKeeps ==
  ASSUME Orderly, Typed, NEW m \in Nat, stream' = SubSeq(stream, m + 1, Len(stream)), m <= Len(stream),
         UNCHANGED <<controllerByte, pc, commandByte, strays>>
  PROVE  Orderly'
<1>1. /\ Len(stream') = Len(stream) - m /\ Len(stream) \in Nat
      /\ \A i \in 1..Len(stream') : i + m \in 1..Len(stream) /\ stream'[i] = stream[i + m]
  BY DEF Typed
<1>2. Came' = Came /\ Done' = Done /\ Seen' = Seen /\ \A d \in Driver : Misled(d)' <=> Misled(d)
  BY DEF Came, Done, Seen, Changed, Misled
<1>3. OnStream'
  <2>1. Len(stream') <= Cardinality(Came')
    <3>1. Cardinality(Came) \in Nat BY FS_CardinalityType DEF Typed
    <3> QED BY <1>1, <1>2, <3>1 DEF Orderly, OnStream
  <2>2. \A i \in 1..Len(stream') : stream'[i] \in Came' \cup Seen'
    BY <1>1, <1>2 DEF Orderly, OnStream
  <2>3. ASSUME NEW i \in 1..Len(stream'), NEW j \in 1..Len(stream'),
               stream'[i] \in Came', stream'[i] = stream'[j]
        PROVE  i = j
    <3>1. i + m = j + m BY <1>1, <1>2, <2>3 DEF Orderly, OnStream
    <3> QED BY <3>1
  <2>4. \A i \in 1..Len(stream') : \A d \in Driver : Misled(d)' => stream'[i] # commandByte'[d]
    BY <1>1, <1>2 DEF Orderly, OnStream
  <2>5. (\A d \in Driver : ~Misled(d)') => \A i \in 1..Len(stream') : stream'[i] \in Came'
    BY <1>1, <1>2 DEF Orderly, OnStream
  <2> QED BY <2>1, <2>2, <2>3, <2>4, <2>5 DEF OnStream
<1>4. ReadBefore' BY <1>2 DEF Orderly, ReadBefore
<1>5. AppliedAtomically' BY <1>2 DEF Orderly, AppliedAtomically
<1> QED BY <1>3, <1>4, <1>5 DEF Orderly

\* Nothing waits: nothing can be out of order.
LEMMA NothingWaits ==
  ASSUME Typed', stream' = <<>> PROVE OnStream'
<1>1. Cardinality(Came') \in Nat BY FS_CardinalityType DEF Typed
<1> QED BY <1>1 DEF OnStream

\* The first request takes the answer, or a scan code and leaves the answer.
LEMMA ReadKeeps ==
  ASSUME Answers, Typed, Typed', Awake, Orderly, NEW d \in Driver, ReadCommandByte(d)
  PROVE  Orderly'
<1>1. ~hardwareOffline BY DEF Typed, Awake
<1> DEFINE s == Append(stream, controllerByte)
<1>2. /\ pc[d] = "read" /\ pc' = [pc EXCEPT ![d] = "test"]
      /\ commandByte' = [commandByte EXCEPT ![d] = Read(s)] /\ stream' = AfterRead(s)
      /\ UNCHANGED <<controllerByte, strays>>
  BY <1>1, AnswerLast DEF ReadCommandByte
<1>3. /\ s \in Seq(SUBSET Bit) /\ Len(s) = Len(stream) + 1 /\ Len(stream) \in Nat
      /\ s[Len(s)] = controllerByte /\ \A i \in 1..Len(stream) : s[i] = stream[i]
  BY AnswerLast DEF Typed
<1> HIDE DEF s
<1>4. /\ Read(s) = s[1] /\ Len(stream') = Len(stream)
      /\ \A i \in 1..Len(stream') : stream'[i] = s[i + 1]
  BY <1>2, <1>3 DEF Read, AfterRead
<1>5. Came' = Came /\ Done' = Done /\ Seen' = Seen
  BY <1>2 DEF Came, Done, Seen, Changed, Typed
<1>6. controllerByte \in Seen /\ controllerByte \notin Came BY ByteSeen DEF Orderly
<1>7. commandByte'[d] = s[1] /\ pc'[d] = "test" /\ \A e \in Driver : e # d => pc'[e] = pc[e] /\ commandByte'[e] = commandByte[e]
  BY <1>2, <1>4 DEF Typed
<1>8. ~Misled(d) /\ \A e \in Driver : e # d => (Misled(e)' <=> Misled(e))
  BY <1>2, <1>5, <1>7 DEF Misled
<1>9. Misled(d)' <=> s[1] \in Came BY <1>5, <1>7 DEF Misled
<1>10. \A i \in 1..Len(s) : i = Len(s) \/ i \in 1..Len(stream) BY <1>3
<1>11. \A i \in 1..Len(s) : s[i] \in Came \cup Seen
  BY <1>3, <1>6, <1>10 DEF Orderly, OnStream
<1>12. \A i, j \in 1..Len(s) : s[i] \in Came /\ s[i] = s[j] => i = j
  BY <1>3, <1>6, <1>10 DEF Orderly, OnStream
<1>13. \A i \in 1..Len(s) : \A e \in Driver : Misled(e) => s[i] # commandByte[e]
  <2>1. \A e \in Driver : Misled(e) => controllerByte # commandByte[e] BY <1>6 DEF Misled
  <2> QED BY <1>3, <1>10, <2>1 DEF Orderly, OnStream
<1>14. \A i \in 1..Len(stream') : i + 1 \in 1..Len(s) /\ i + 1 # 1 BY <1>3, <1>4
<1>15. 1 \in 1..Len(s) BY <1>3
<1>16. OnStream'
  <2>1. Len(stream') <= Cardinality(Came') BY <1>4, <1>5 DEF Orderly, OnStream
  <2>2. \A i \in 1..Len(stream') : stream'[i] \in Came' \cup Seen' BY <1>4, <1>5, <1>11, <1>14
  <2>3. ASSUME NEW i \in 1..Len(stream'), NEW j \in 1..Len(stream'),
               stream'[i] \in Came', stream'[i] = stream'[j]
        PROVE  i = j
    <3>1. i + 1 = j + 1 BY <1>4, <1>5, <1>12, <1>14, <2>3
    <3> QED BY <3>1
  <2>4. ASSUME NEW i \in 1..Len(stream'), NEW e \in Driver, Misled(e)'
        PROVE  stream'[i] # commandByte'[e]
    <3>1. CASE e = d BY <1>4, <1>7, <1>9, <1>12, <1>14, <1>15, <2>4, <3>1
    <3>2. CASE e # d BY <1>4, <1>7, <1>8, <1>13, <1>14, <2>4, <3>2
    <3> QED BY <3>1, <3>2
  <2>5. ASSUME \A e \in Driver : ~Misled(e)', NEW i \in 1..Len(stream') PROVE stream'[i] \in Came'
    <3>1. \A e \in Driver : ~Misled(e) BY <1>8, <2>5
    <3>2. \A j \in 1..Len(stream) : stream[j] \in Came BY <3>1 DEF Orderly, OnStream
    <3>3. 1 \in 1..Len(stream) BY <1>3, <1>4
    <3>4. s[1] \in Came BY <1>3, <3>2, <3>3
    <3> QED BY <1>9, <2>5, <3>4
  <2> QED BY <2>1, <2>2, <2>3, <2>4, <2>5 DEF OnStream
<1>17. ReadBefore'
  <2>1. ASSUME NEW e \in Driver, pc'[e] = "test" PROVE commandByte'[e] \in Came' \cup Seen'
    <3>1. CASE e = d BY <1>5, <1>7, <1>11, <1>15, <3>1
    <3>2. CASE e # d BY <1>5, <1>7, <2>1, <3>2 DEF Orderly, ReadBefore
    <3> QED BY <3>1, <3>2
  <2> QED BY <2>1 DEF ReadBefore
<1>18. AppliedAtomically' BY <1>2, <1>5 DEF Orderly, AppliedAtomically
<1> QED BY <1>16, <1>17, <1>18 DEF Orderly

\* The second request finds what was read before, or begins again.
LEMMA TestKeeps ==
  ASSUME Answers, Typed, Typed', Awake, Orderly, NEW k, NEW t, Driver = {k, t},
         NEW d \in Driver, TestAndSet(d)
  PROVE  Orderly'
<1>1. ~hardwareOffline BY DEF Typed, Awake
<1> DEFINE s == Append(stream, controllerByte)
           v == commandByte[d]
<1>2. /\ pc[d] = "test" /\ stream' = AfterExpecting(s, v) /\ UNCHANGED <<commandByte, strays>>
      /\ Succeeds(s, v) => /\ controllerByte' = (v \cup SetBits[d]) \ ClearBits[d]
                           /\ pc' = [pc EXCEPT ![d] = "done"]
      /\ ~Succeeds(s, v) => pc' = [pc EXCEPT ![d] = "read"] /\ UNCHANGED controllerByte
  BY <1>1, AnswerLast DEF TestAndSet, Retry
<1>3. /\ s \in Seq(SUBSET Bit) /\ Len(s) = Len(stream) + 1 /\ Len(stream) \in Nat
      /\ s[Len(s)] = controllerByte /\ \A i \in 1..Len(stream) : s[i] = stream[i]
  BY AnswerLast DEF Typed
<1> HIDE DEF s
<1>4. Len(s) >= 1 /\ Len(s) <= 4
  <2>1. Cardinality(Came) \in Nat /\ Cardinality(Came) <= 3 BY FS_CardinalityType DEF Typed, Awake
  <2> QED BY <1>3, <2>1 DEF Orderly, OnStream
<1>5. controllerByte \in Seen /\ controllerByte \notin Came BY ByteSeen DEF Orderly
<1>6. controllerByte = Changed(Done) BY DEF Orderly, AppliedAtomically
<1>7. v \in Came \cup Seen BY <1>2 DEF Orderly, ReadBefore
<1>8. Came' = Came BY <1>2 DEF Came
<1>9. d \in Driver /\ d \notin Done /\ Done \subseteq Driver BY <1>2 DEF Done
<1>10. \A i \in 1..Len(s) : i = Len(s) \/ i \in 1..Len(stream) BY <1>3
\* It begins again, and nothing waits.
<1>11. ASSUME ~Succeeds(s, v), stream' = <<>> PROVE Orderly'
  <2>1. pc' = [pc EXCEPT ![d] = "read"] /\ UNCHANGED controllerByte BY <1>2, <1>11
  <2>2. Done' = Done BY <1>2, <2>1 DEF Done, Typed
  <2>3. Seen' = Seen BY <2>2 DEF Seen, Changed
  <2>4. AppliedAtomically' BY <2>1, <2>2 DEF Orderly, AppliedAtomically, Changed
  <2>5. ReadBefore' BY <1>2, <1>8, <2>1, <2>3 DEF Orderly, ReadBefore, Typed
  <2>6. OnStream' BY <1>11, NothingWaits
  <2> QED BY <2>4, <2>5, <2>6 DEF Orderly
\* It writes its change on top of the others'.
<1>12. ASSUME Succeeds(s, v), v = controllerByte
       PROVE  /\ AppliedAtomically' /\ ReadBefore' /\ Done' = Done \cup {d} /\ Seen \subseteq Seen'
              /\ \A e \in Driver : Misled(e)' <=> Misled(e)
  <2>1. controllerByte' = (Changed(Done) \cup SetBits[d]) \ ClearBits[d] /\ pc' = [pc EXCEPT ![d] = "done"]
    BY <1>2, <1>6, <1>12
  <2>2. Done' = Done \cup {d} BY <2>1 DEF Done, Typed
  <2>3. AppliedAtomically'
    <3>1. controllerByte' = Changed(Done \cup {d})
      BY <1>9, <2>1, AddsItsChange, CommandByteAssumption
    <3> QED BY <2>2, <3>1 DEF AppliedAtomically, Changed
  <2>4. Seen \subseteq Seen'
    <3>1. {} \in SUBSET Driver OBVIOUS
    <3> QED BY <2>2, <3>1 DEF Seen, Changed
  <2>5. ReadBefore' BY <1>2, <1>8, <2>1, <2>4 DEF Orderly, ReadBefore, Typed
  <2>6. \A e \in Driver : Misled(e)' <=> Misled(e)
    <3>1. ~Misled(d) BY <1>5, <1>12 DEF Misled
    <3>2. ~Misled(d)' BY <2>1 DEF Misled, Typed
    <3>3. \A e \in Driver : e # d => (Misled(e)' <=> Misled(e)) BY <1>2, <1>8, <2>1 DEF Misled, Typed
    <3> QED BY <3>1, <3>2, <3>3
  <2> QED BY <2>2, <2>3, <2>4, <2>5, <2>6
\* The only byte that matches is the answer.
<1>13. ASSUME \A i \in 1..Len(stream) : stream[i] # v PROVE Orderly'
  <2>1. CASE \E m \in 1..Len(s) : Found(s, v, m)
    <3>1. PICK m \in 1..Len(s) : Found(s, v, m) BY <2>1
    <3>2. m = Len(s) BY <1>3, <1>10, <1>13, <3>1 DEF Found
    <3>3. Succeeds(s, v) /\ v = controllerByte BY <1>3, <3>1, <3>2 DEF Found
    <3>4. stream' = <<>> BY <1>2, <1>3, <3>1, <3>2 DEF Found
    <3> QED BY <1>12, <3>3, <3>4, NothingWaits DEF Orderly
  <2>2. CASE ~Succeeds(s, v) /\ AfterExpecting(s, v) = <<>> BY <1>2, <1>11, <2>2
  <2> QED BY <1>3, <1>4, <2>1, <2>2, Looking
<1>14. CASE v \in Came
  <2>1. Misled(d) BY <1>2, <1>14 DEF Misled
  <2> QED BY <1>13, <2>1 DEF Orderly, OnStream
<1>15. CASE v \notin Came /\ \A e \in Driver : ~Misled(e)
  BY <1>13, <1>15 DEF Orderly, OnStream
\* The other driver is misled: nobody is done, and the first command byte is
\* still the controller's.
<1>16. CASE v \notin Came /\ \E e \in Driver : Misled(e)
  <2>1. PICK e \in Driver : Misled(e) BY <1>16
  <2>2. e # d BY <1>16, <2>1 DEF Misled
  <2>3. Done = {} BY <1>9, <2>1, <2>2 DEF Done, Misled
  <2>4. v = controllerByte BY <1>6, <1>7, <1>16, <2>3 DEF Seen
  <2>5. \E m \in 1..Len(s) : Found(s, v, m)
    <3>1. Len(s) \in 1..Len(s) /\ s[Len(s)] = v BY <1>3, <1>4, <2>4
    <3> QED BY <1>3, <1>4, <3>1, Looking
  <2>6. PICK m \in 1..Len(s) : Found(s, v, m) BY <2>5
  <2>7. /\ Succeeds(s, v) /\ stream' = SubSeq(s, m + 1, Len(s)) /\ s[m] = v
        /\ \A i \in 1..(m - 1) : s[i] # v
    BY <1>2, <2>6 DEF Found
  <2>8. /\ AppliedAtomically' /\ ReadBefore' /\ Seen \subseteq Seen'
        /\ \A f \in Driver : Misled(f)' <=> Misled(f)
    BY <1>12, <2>4, <2>7
  <2>9. /\ Len(stream') = Len(s) - m /\ Len(s) - m \in Nat
        /\ \A i \in 1..Len(stream') : i + m \in 1..Len(s) /\ stream'[i] = s[i + m]
    BY <1>3, <2>7
  <2>10. \A i, j \in 1..Len(s) : s[i] \in Came /\ s[i] = s[j] => i = j
    BY <1>3, <1>5, <1>10 DEF Orderly, OnStream
  <2>11. OnStream'
    <3>1. Len(stream') <= Cardinality(Came')
      <4>1. Cardinality(Came) \in Nat BY FS_CardinalityType DEF Typed
      <4>2. Len(stream) <= Cardinality(Came) BY DEF Orderly, OnStream
      <4> QED BY <1>3, <1>8, <2>9, <4>1, <4>2
    <3>2. \A i \in 1..Len(stream') : stream'[i] \in Came' \cup Seen'
      <4>1. \A i \in 1..Len(s) : s[i] \in Came \cup Seen
        BY <1>3, <1>5, <1>10 DEF Orderly, OnStream
      <4> QED BY <1>8, <2>8, <2>9, <4>1
    <3>3. ASSUME NEW i \in 1..Len(stream'), NEW j \in 1..Len(stream'),
                 stream'[i] \in Came', stream'[i] = stream'[j]
          PROVE  i = j
      <4>1. i + m = j + m BY <1>8, <2>9, <2>10, <3>3
      <4> QED BY <4>1
    <3>4. \A i \in 1..Len(stream') : \A f \in Driver : Misled(f)' => stream'[i] # commandByte'[f]
      <4>1. \A i \in 1..Len(s) : \A f \in Driver : Misled(f) => s[i] # commandByte[f]
        <5>1. \A f \in Driver : Misled(f) => controllerByte # commandByte[f] BY <1>5 DEF Misled
        <5> QED BY <1>3, <1>10, <5>1 DEF Orderly, OnStream
      <4> QED BY <1>2, <2>8, <2>9, <4>1
    <3>5. (\A f \in Driver : ~Misled(f)') => \A i \in 1..Len(stream') : stream'[i] \in Came'
      BY <2>1, <2>8
    <3> QED BY <3>1, <3>2, <3>3, <3>4, <3>5 DEF OnStream
  <2> QED BY <2>8, <2>11 DEF Orderly
<1> QED BY <1>14, <1>15, <1>16

\* No step makes the bytes that came fewer, or the engine forget that it slept.
LEMMA AwakeBefore ==
  ASSUME Answers, Typed, Typed', Awake', [Next]_vars
  PROVE  Awake /\ ~Freeze
<1>1. CASE UNCHANGED <<strays, sleeps>>
  <2>1. Came' = Came BY <1>1 DEF Came
  <2>2. \A S \in SUBSET Driver : Changed(S)' = Changed(S) BY DEF Changed
  <2> QED BY <1>1, <2>1, <2>2 DEF Awake, Freeze, Typed
<1>2. ASSUME NEW b \in StrayBytes, StrayArrives(b) PROVE Awake /\ ~Freeze
  <2>1. UNCHANGED sleeps /\ strays' = [strays EXCEPT ![b] = strays[b] + 1] BY <1>2 DEF StrayArrives
  <2>2. Came \subseteq Came' /\ Came' = Came \cup {b} BY <2>1 DEF Came, Typed
  <2>3. Cardinality(Came) <= Cardinality(Came') BY <2>2, FS_Subset DEF Typed
  <2>4. Cardinality(Came) \in Nat /\ Cardinality(Came') \in Nat BY FS_CardinalityType DEF Typed
  <2>5. Cardinality(Came) <= 3 BY <2>3, <2>4 DEF Awake
  <2>6. \A c \in Came : strays[c] = 1
    <3>1. ASSUME NEW c \in Came PROVE strays[c] = 1
      <4>1. strays'[c] = 1 BY <2>2 DEF Awake
      <4>2. c # b \/ strays[c] = 0 BY <2>1, <4>1 DEF Came, Typed
      <4> QED BY <2>1, <4>1, <4>2 DEF Came, Typed
    <3> QED BY <3>1
  <2>7. \A S \in SUBSET Driver : Changed(S) \notin Came
    <3>1. \A S \in SUBSET Driver : Changed(S)' \notin Came' BY DEF Awake
    <3>2. \A S \in SUBSET Driver : Changed(S)' = Changed(S) BY DEF Changed
    <3> QED BY <2>2, <3>1, <3>2
  <2>8. ~Freeze BY <2>1 DEF Freeze, Typed
  <2> QED BY <2>1, <2>5, <2>6, <2>7, <2>8 DEF Awake
<1>3. CASE Freeze
  BY <1>3 DEF Freeze, Typed, Awake
<1>4. \/ UNCHANGED <<strays, sleeps>> \/ Freeze \/ \E b \in StrayBytes : StrayArrives(b)
  BY DEF Next, ReadCommandByte, TestAndSet, Dispatch, Thaw, vars
<1> QED BY <1>1, <1>2, <1>3, <1>4

LEMMA OrderlyNext ==
  ASSUME Answers, Typed, Typed', Awake', Awake, Orderly, ~Freeze, [Next]_vars,
         NEW k, NEW t, Driver = {k, t}
  PROVE  Orderly'
<1>1. ASSUME NEW d \in Driver, ReadCommandByte(d) PROVE Orderly' BY <1>1, ReadKeeps
<1>2. ASSUME NEW d \in Driver, TestAndSet(d) PROVE Orderly' BY <1>2, TestKeeps
<1>3. ASSUME NEW b \in StrayBytes, StrayArrives(b) PROVE Orderly' BY <1>3, ArrivalKeeps
<1>4. CASE Dispatch
  <2>1. /\ stream' = SubSeq(stream, 1 + 1, Len(stream)) /\ 1 <= Len(stream)
        /\ UNCHANGED <<controllerByte, pc, commandByte, strays>>
    BY <1>4 DEF Dispatch, Typed
  <2> QED BY <2>1, SuffixKeeps
<1>5. CASE UNCHANGED vars
  <2>1. /\ stream' = SubSeq(stream, 0 + 1, Len(stream)) /\ 0 <= Len(stream)
        /\ UNCHANGED <<controllerByte, pc, commandByte, strays>>
    BY <1>5 DEF vars, Typed
  <2> QED BY <2>1, SuffixKeeps
<1>6. ~Thaw BY DEF Thaw, Typed, Awake
<1> QED BY <1>1, <1>2, <1>3, <1>4, <1>5, <1>6 DEF Next

\* With a controller that answers, two drivers' changes of the command byte are
\* atomic although scan codes come in between, as long as the request engine is
\* awake, no more than three come, no two of them the same, and none of them
\* reads like a command byte.
THEOREM UpdatesSurviveScanCodes ==
  ASSUME Answers, NEW k, NEW t, Driver = {k, t}
  PROVE  Spec => []AppliedWhenAwake
<1> DEFINE IInv == Typed /\ (Awake => Orderly)
<1>1. Init => IInv BY TypedInit
<1>2. IInv /\ [Next]_vars => IInv' BY TypedNext, AwakeBefore, OrderlyNext
<1>3. IInv => AppliedWhenAwake BY DEF Orderly, AppliedWhenAwake
<1> HIDE DEF IInv
<1> QED BY <1>1, <1>2, <1>3, PTL DEF Spec
---------------------------------------------------------------------------
(* The memory of requests, for any number of threads, pieces of memory and *)
(* calls.                                                                  *)

Request == Cell \X (Nat \ {0})

Place == {"idle", "filled", "answered", "freeing", "submitted"}

Call == [at : Place, helper : AllHelpers, request : Request \cup {<<>>},
         ok : BOOLEAN, tries : Nat]

Types ==
    /\ owner \in [Cell -> Nat]
    /\ allocations \in Nat
    /\ \A c \in Cell : owner[c] <= allocations
    /\ call \in [Caller -> Call]
    /\ requestQueue \in Seq(Request)

\* The callers that hold a request of their own.
Holds(t) == call[t].at \in {"filled", "answered", "freeing"} /\ ~Dangling(t)

\* What each place in a helper says of the helper.
Placed ==
    \A t \in Caller :
        /\ call[t].at # "idle" => call[t].request \in Request /\ call[t].tries # 0
        /\ call[t].at # "idle" => call[t].request[2] <= allocations
        /\ call[t].at = "answered" => call[t].helper \in {"once", "loop", "errors", "retries"}

\* What a dangling caller freed stays freed: if the memory is allocated again,
\* it is another allocation.
Freed == \A t \in Caller : Dangling(t) => ~Live(call[t].request)

\* Everyone who will touch or free a request holds one that is live, and no
\* two of them hold the same.
Owned ==
    /\ \A t \in Caller : Holds(t) => Live(call[t].request)
    /\ \A i \in 1..Len(requestQueue) : Live(requestQueue[i])
    /\ \A t, u \in Caller :
           t # u /\ Holds(t) /\ Holds(u) => call[t].request[1] # call[u].request[1]
    /\ \A t \in Caller : \A i \in 1..Len(requestQueue) :
           Holds(t) => call[t].request[1] # requestQueue[i][1]
    /\ \A i, j \in 1..Len(requestQueue) :
           i # j => requestQueue[i][1] # requestQueue[j][1]
    /\ faults \subseteq {"lateLook"}

LifetimeInv == Types /\ Placed /\ Freed /\ (Sound => Owned)

---------------------------------------------------------------------------
(* What the parts of the actions keep. *)

\* Whether a caller holds a request depends on its own entry only.
LEMMA HoldsLocal ==
  ASSUME NEW u \in Caller, call'[u] = call[u]
  PROVE  (Holds(u)' <=> Holds(u)) /\ (Dangling(u)' <=> Dangling(u))
  BY DEF Holds, Dangling, DanglingFree, DanglingRetry, At

\* A caller is dangling between a failed command and what it does next only,
\* and then it holds nothing.
LEMMA DanglingPlaces ==
  ASSUME NEW t \in Caller
  PROVE  /\ Dangling(t) => call[t].at \in {"filled", "freeing"} /\ ~call[t].ok
         /\ Dangling(t) => call[t].helper \in {"errors", "retries"} /\ ~Holds(t)
         /\ call[t].at = "freeing" /\ call[t].helper = "errors" /\ ~Dangling(t) => call[t].ok
  BY DEF Holds, Dangling, DanglingFree, DanglingRetry, At

\* The holder of a live request frees it and holds nothing afterwards.
LEMMA FreeKeepsOwned ==
  ASSUME Types, Placed, Owned,
         NEW t \in Caller, Holds(t), Free(call[t].request),
         NEW r, call' = [call EXCEPT ![t] = r],
         ~Holds(t)',
         UNCHANGED requestQueue
  PROVE  Owned'
<1>1. Live(call[t].request) /\ call[t].request \in Request
  BY DEF Owned, Placed, Holds
<1>2. faults' = faults /\ owner' = [owner EXCEPT ![call[t].request[1]] = 0]
  BY <1>1 DEF Free
<1>3. call'[t] = r /\ \A u \in Caller \ {t} : call'[u] = call[u]
  BY DEF Types
<1>4. ~Holds(t)' /\ \A u \in Caller \ {t} : Holds(u)' <=> Holds(u)
  BY <1>3, HoldsLocal
<1>5. \A u \in Caller \ {t} : Holds(u) => call[u].request[1] # call[t].request[1]
  BY DEF Owned
<1>6. \A c \in Cell : c # call[t].request[1] => owner'[c] = owner[c]
  BY <1>2 DEF Types
<1>7. \A u \in Caller \ {t} : Holds(u) => call[u].request[1] \in Cell
  BY DEF Placed, Holds, Request
<1>8. \A i \in 1..Len(requestQueue) : requestQueue[i][1] \in Cell
  BY DEF Types, Request
<1>9. \A u \in Caller : Holds(u)' => Live(call[u].request)'
  BY <1>3, <1>4, <1>5, <1>6, <1>7 DEF Owned, Live
<1>10. \A i \in 1..Len(requestQueue) : Live(requestQueue[i])'
  BY <1>6, <1>8 DEF Owned, Live
<1> QED BY <1>2, <1>3, <1>4, <1>9, <1>10 DEF Owned

\* The holder of a live request looks at it and goes on holding it.
LEMMA TouchKeepsOwned ==
  ASSUME Types, Owned,
         NEW t \in Caller, Holds(t), Touch(call[t].request),
         NEW r, call' = [call EXCEPT ![t] = r],
         Holds(t)', r.request = call[t].request,
         UNCHANGED <<owner, requestQueue>>
  PROVE  Owned'
<1>1. faults' = faults
  BY DEF Owned, Touch
<1>2. \A u \in Caller : call'[u].request = call[u].request /\ (Holds(u)' <=> Holds(u))
  <2>1. call'[t] = r /\ \A u \in Caller \ {t} : call'[u] = call[u]
    BY DEF Types
  <2> QED BY <2>1, HoldsLocal
<1>3. \A request : Live(request)' <=> Live(request)
  BY DEF Live
<1> QED BY <1>1, <1>2, <1>3 DEF Owned

\* Owned is kept by steps that change neither memory nor holders.
LEMMA OwnedStutter ==
  ASSUME Owned, faults' \subseteq {"lateLook"}, UNCHANGED <<owner, requestQueue>>,
         \A u \in Caller : call'[u].request = call[u].request \/ ~Holds(u)',
         \A u \in Caller : Holds(u)' => Holds(u)
  PROVE  Owned'
<1>1. \A request : Live(request)' <=> Live(request)
  BY DEF Live
<1> QED BY <1>1 DEF Owned

---------------------------------------------------------------------------
(* Types and Placed, by every step. *)

LEMMA RequestParts ==
  ASSUME NEW request \in Request
  PROVE  request[1] \in Cell /\ request[2] \in Nat \ {0}
  BY DEF Request

LEMMA FreeTypes ==
  ASSUME Types, NEW request \in Request, Free(request)
  PROVE  owner' \in [Cell -> Nat] /\ \A c \in Cell : owner'[c] <= allocations
  BY RequestParts DEF Types, Free

LEMMA TypesNext == Types /\ Placed /\ [LifetimeNext]_lifetimeVars => Types'
<1> SUFFICES ASSUME Types, Placed, [LifetimeNext]_lifetimeVars PROVE Types' OBVIOUS
<1> USE LifetimeAssumption DEF LifetimeAssumption
<1>a. Idle \in Call
  BY DEF Idle, Call, Place, AllHelpers
<1>b. \A t \in Caller : call[t] \in Call
  BY DEF Types
<1>c. \A t \in Caller : [call EXCEPT ![t] = Idle] \in [Caller -> Call]
  BY <1>a DEF Types
<1>1. ASSUME NEW t \in Caller, NEW h \in Helper, NEW c \in Cell, Allocate(t, h, c) PROVE Types'
  <2>1. allocations' = allocations + 1 /\ allocations' \in Nat \ {0}
    BY <1>1 DEF Allocate, Types
  <2>2. <<c, allocations'>> \in Request /\ h \in AllHelpers
    BY <2>1 DEF Request
  <2>3. [at |-> "filled", helper |-> h, ok |-> TRUE,
         request |-> <<c, allocations'>>, tries |-> Tries] \in Call
    BY <2>2 DEF Call, Place, Tries
  <2>4. call' \in [Caller -> Call]
    BY <1>1, <2>3 DEF Allocate, Types
  <2>5. owner' \in [Cell -> Nat] /\ \A d \in Cell : owner'[d] <= allocations'
    BY <1>1, <2>1 DEF Allocate, Types
  <2> QED BY <1>1, <2>1, <2>4, <2>5 DEF Allocate, Types
<1>2. ASSUME NEW t \in Caller, SubmitAndBlock(t) PROVE Types'
  <2>1. PICK ok \in BOOLEAN : call' = [call EXCEPT ![t].at = "answered", ![t].ok = ok]
    BY <1>2 DEF SubmitAndBlock
  <2>2. [call[t] EXCEPT !.at = "answered", !.ok = ok] \in Call
    BY <1>b DEF Call, Place
  <2>3. call' = [call EXCEPT ![t] = [call[t] EXCEPT !.at = "answered", !.ok = ok]]
    BY <2>1
  <2>5. call' \in [Caller -> Call]
    BY <2>2, <2>3 DEF Types
  <2> QED BY <1>2, <2>5 DEF SubmitAndBlock, Types
<1>3. ASSUME NEW t \in Caller, FreeAndReturn(t) \/ FreeForBoth(t) PROVE Types'
  <2>1. call[t].request \in Request
    BY <1>3 DEF FreeAndReturn, FreeForBoth, At, Placed
  <2> QED BY <1>3, <1>c, <2>1, FreeTypes DEF FreeAndReturn, FreeForBoth, Return, Types
<1>4. ASSUME NEW t \in Caller, Loop(t) \/ FreeAndRetry(t) PROVE Types'
  <2>1. call[t].request \in Request /\ call[t].tries # 0
    BY <1>4 DEF Loop, FreeAndRetry, At, Placed
  <2>2. owner' \in [Cell -> Nat] /\ \A c \in Cell : owner'[c] <= allocations
    BY <1>4, <2>1, FreeTypes DEF Loop, FreeAndRetry, Types
  <2>3. \/ call' = [call EXCEPT ![t] = Idle]
        \/ call' = [call EXCEPT ![t] = [call[t] EXCEPT !.at = "filled", !.tries = call[t].tries - 1]]
    BY <1>4 DEF Loop, FreeAndRetry, Return
  <2>4. [call[t] EXCEPT !.at = "filled", !.tries = call[t].tries - 1] \in Call
    <3>1. call[t].tries \in Nat /\ call[t].tries - 1 \in Nat
      BY <1>b, <2>1 DEF Call
    <3> QED BY <1>b, <3>1 DEF Call, Place
  <2>5. call' \in [Caller -> Call]
    BY <1>c, <2>3, <2>4 DEF Types
  <2> QED BY <1>4, <2>2, <2>5 DEF Loop, FreeAndRetry, Types
<1>5. ASSUME NEW t \in Caller, FreeOnError(t) PROVE Types'
  <2>1. call[t].request \in Request
    BY <1>5 DEF FreeOnError, At, Placed
  <2>2. owner' \in [Cell -> Nat] /\ \A c \in Cell : owner'[c] <= allocations
    BY <1>5, <2>1, FreeTypes DEF FreeOnError, Types
  <2>3. [call[t] EXCEPT !.at = "freeing"] \in Call
    BY <1>b DEF Call, Place
  <2>4. call' = [call EXCEPT ![t] = [call[t] EXCEPT !.at = "freeing"]]
    BY <1>5 DEF FreeOnError, Goto
  <2> QED BY <1>5, <2>2, <2>3, <2>4 DEF FreeOnError, Types
<1>6. ASSUME NEW t \in Caller, SubmitAsync(t) PROVE Types'
  <2>1. call[t].request \in Request
    BY <1>6 DEF SubmitAsync, At, Placed
  <2>2. [call[t] EXCEPT !.at = "submitted"] \in Call
    BY <1>b DEF Call, Place
  <2>3. \/ call' = [call EXCEPT ![t] = Idle]
        \/ call' = [call EXCEPT ![t] = [call[t] EXCEPT !.at = "submitted"]]
    BY <1>6 DEF SubmitAsync, Goto, Return
  <2>4. call' \in [Caller -> Call]
    BY <1>c, <2>2, <2>3 DEF Types
  <2>5. requestQueue' \in Seq(Request)
    BY <1>6, <2>1 DEF SubmitAsync, Types
  <2> QED BY <1>6, <2>4, <2>5 DEF SubmitAsync, Types
<1>7. ASSUME NEW t \in Caller, Peek(t) PROVE Types'
  BY <1>7, <1>c DEF Peek, Return, Types
<1>8. CASE ProcessRequest
  <2>1. Head(requestQueue) \in Request /\ Tail(requestQueue) \in Seq(Request)
    BY <1>8 DEF ProcessRequest, Types
  <2> QED BY <1>8, <2>1, FreeTypes DEF ProcessRequest, Types
<1>9. CASE UNCHANGED lifetimeVars
  BY <1>9 DEF lifetimeVars, Types
<1> QED BY <1>1, <1>2, <1>3, <1>4, <1>5, <1>6, <1>7, <1>8, <1>9 DEF LifetimeNext

\* Of a step that changes one caller's entry: what Placed asks of the new one.
LEMMA PlacedStep ==
  ASSUME Types, Placed, NEW t \in Caller, NEW r, call' = [call EXCEPT ![t] = r],
         allocations' \in Nat, allocations <= allocations',
         r.at # "idle" => r.request \in Request /\ r.tries # 0,
         r.at # "idle" => r.request[2] <= allocations',
         r.at = "answered" => r.helper \in {"once", "loop", "errors", "retries"}
  PROVE  Placed'
<1>1. call'[t] = r /\ \A u \in Caller \ {t} : call'[u] = call[u]
  BY DEF Types
<1>2. \A u \in Caller : call[u].at # "idle" => call[u].request[2] <= allocations'
  <2>1. \A u \in Caller : call[u].at # "idle" => call[u].request[2] \in Nat
    BY RequestParts DEF Placed
  <2> QED BY <2>1 DEF Placed, Types
<1> QED BY <1>1, <1>2 DEF Placed

LEMMA PlacedNext == Types /\ Placed /\ [LifetimeNext]_lifetimeVars => Placed'
<1> SUFFICES ASSUME Types, Placed, [LifetimeNext]_lifetimeVars PROVE Placed' OBVIOUS
<1> USE LifetimeAssumption DEF LifetimeAssumption
<1>a. \A t \in Caller : call[t] \in Call
  BY DEF Types
<1>d. allocations \in Nat /\ allocations <= allocations
  BY DEF Types
<1>b. ASSUME NEW t \in Caller, Return(t), allocations' = allocations PROVE Placed'
  BY <1>b, <1>d, PlacedStep DEF Return, Idle
<1>1. ASSUME NEW t \in Caller, NEW h \in Helper, NEW c \in Cell, Allocate(t, h, c) PROVE Placed'
  <2>1. <<c, allocations'>> \in Request
    BY <1>1 DEF Allocate, Types, Request
  <2> DEFINE r == [at |-> "filled", helper |-> h, ok |-> TRUE,
                   request |-> <<c, allocations'>>, tries |-> Tries]
  <2>2. /\ call' = [call EXCEPT ![t] = r]
        /\ allocations' \in Nat /\ allocations <= allocations'
    BY <1>1, <1>d DEF Allocate
  <2>3. /\ r.at = "filled" /\ r.request \in Request /\ r.tries # 0
        /\ r.request[2] <= allocations'
    BY <2>1, <2>2 DEF Tries
  <2> HIDE DEF r
  <2> QED BY <2>2, <2>3, PlacedStep
<1>2. ASSUME NEW t \in Caller, SubmitAndBlock(t) PROVE Placed'
  <2>1. PICK ok \in BOOLEAN :
          /\ call' = [call EXCEPT ![t] = [call[t] EXCEPT !.at = "answered", !.ok = ok]]
          /\ allocations' = allocations
    BY <1>2 DEF SubmitAndBlock
  <2> DEFINE r == [call[t] EXCEPT !.at = "answered", !.ok = ok]
  <2>2. r.at = "answered" /\ r.ok = ok /\ r.helper = call[t].helper
        /\ r.request = call[t].request /\ r.tries = call[t].tries
    BY <1>a DEF Call
  <2>3. /\ call[t].at = "filled" /\ call[t].helper \in {"once", "loop", "errors", "retries"}
        /\ call[t].request \in Request /\ call[t].tries # 0
        /\ call[t].request[2] <= allocations
    BY <1>2 DEF SubmitAndBlock, At, Placed
  <2>4. call' = [call EXCEPT ![t] = r]
    BY <2>1
  <2> HIDE DEF r
  <2> QED BY <1>d, <2>1, <2>2, <2>3, <2>4, PlacedStep
<1>3. ASSUME NEW t \in Caller, FreeAndReturn(t) \/ FreeForBoth(t) \/ Peek(t) PROVE Placed'
  BY <1>3, <1>b DEF FreeAndReturn, FreeForBoth, Peek
<1>4. ASSUME NEW t \in Caller, Loop(t) \/ FreeAndRetry(t) PROVE Placed'
  <2>1. call[t].request \in Request /\ call[t].tries # 0 /\ call[t].request[2] <= allocations
    BY <1>4 DEF Loop, FreeAndRetry, At, Placed
  <2> DEFINE r == [call[t] EXCEPT !.at = "filled", !.tries = call[t].tries - 1]
  <2>2. allocations' = allocations
        /\ (Return(t) \/ (call[t].tries # 1 /\ call' = [call EXCEPT ![t] = r]))
    <3>1. CASE Loop(t) BY <3>1 DEF Loop
    <3>2. CASE FreeAndRetry(t) BY <3>2 DEF FreeAndRetry
    <3> QED BY <1>4, <3>1, <3>2
  <2>3. call[t].tries # 1 => r.at = "filled" /\ r.request = call[t].request /\ r.tries # 0
    BY <1>a, <2>1 DEF Call
  <2> HIDE DEF r
  <2> QED BY <1>b, <1>d, <2>1, <2>2, <2>3, PlacedStep
<1>5. ASSUME NEW t \in Caller, FreeOnError(t) PROVE Placed'
  <2>1. call[t].request \in Request /\ call[t].tries # 0 /\ call[t].request[2] <= allocations
    BY <1>5 DEF FreeOnError, At, Placed
  <2> DEFINE r == [call[t] EXCEPT !.at = "freeing"]
  <2>2. allocations' = allocations /\ call' = [call EXCEPT ![t] = r]
    BY <1>5 DEF FreeOnError, Goto
  <2>3. r.at = "freeing" /\ r.request = call[t].request /\ r.tries # 0
    BY <1>a, <2>1 DEF Call
  <2> HIDE DEF r
  <2> QED BY <1>d, <2>1, <2>2, <2>3, PlacedStep
<1>6. ASSUME NEW t \in Caller, SubmitAsync(t) PROVE Placed'
  <2>1. call[t].request \in Request /\ call[t].tries # 0 /\ call[t].request[2] <= allocations
    BY <1>6 DEF SubmitAsync, At, Placed
  <2> DEFINE r == [call[t] EXCEPT !.at = "submitted"]
  <2>2. allocations' = allocations /\ (Return(t) \/ call' = [call EXCEPT ![t] = r])
    BY <1>6 DEF SubmitAsync, Goto
  <2>3. r.at = "submitted" /\ r.request = call[t].request /\ r.tries # 0
    BY <1>a, <2>1 DEF Call
  <2> HIDE DEF r
  <2> QED BY <1>b, <1>d, <2>1, <2>2, <2>3, PlacedStep
<1>7. CASE ProcessRequest \/ UNCHANGED lifetimeVars
  <2>1. call' = call /\ allocations' = allocations
    BY <1>7 DEF ProcessRequest, lifetimeVars
  <2> QED BY <2>1 DEF Placed
<1> QED BY <1>1, <1>2, <1>3, <1>4, <1>5, <1>6, <1>7 DEF LifetimeNext

---------------------------------------------------------------------------
(* Freed, by every step: no step makes a request live again.               *)

\* An allocation takes a number that no request had before.
LEMMA StaysDead ==
  ASSUME Types, NEW request \in Request, request[2] <= allocations, ~Live(request),
         \A c \in Cell : owner'[c] \in {owner[c], 0, allocations + 1}
  PROVE  ~Live(request)'
<1>1. request[1] \in Cell /\ request[2] \in Nat \ {0} /\ allocations \in Nat
  BY RequestParts DEF Types
<1>2. owner[request[1]] # request[2]
  BY DEF Live
<1>3. request[2] # 0 /\ request[2] # allocations + 1
  BY <1>1
<1> QED BY <1>1, <1>2, <1>3 DEF Live

LEMMA OwnersChange ==
  Types /\ Placed /\ [LifetimeNext]_lifetimeVars =>
      \A c \in Cell : owner'[c] \in {owner[c], 0, allocations + 1}
<1> SUFFICES ASSUME Types, Placed, [LifetimeNext]_lifetimeVars, NEW c \in Cell
             PROVE  owner'[c] \in {owner[c], 0, allocations + 1}
  OBVIOUS
<1>1. ASSUME NEW request \in Request, Free(request) PROVE owner'[c] \in {owner[c], 0}
  BY <1>1, RequestParts DEF Free, Types
<1>2. ASSUME NEW t \in Caller, NEW h \in Helper, NEW d \in Cell, Allocate(t, h, d)
      PROVE  owner'[c] \in {owner[c], allocations + 1}
  BY <1>2 DEF Allocate, Types
<1>3. ASSUME NEW t \in Caller,
             FreeAndReturn(t) \/ Loop(t) \/ FreeOnError(t) \/ FreeForBoth(t) \/ FreeAndRetry(t)
      PROVE  owner'[c] \in {owner[c], 0}
  <2>1. call[t].request \in Request
    BY <1>3 DEF FreeAndReturn, Loop, FreeOnError, FreeForBoth, FreeAndRetry, At, Placed
  <2>2. Free(call[t].request) \/ UNCHANGED owner
    BY <1>3 DEF FreeAndReturn, Loop, FreeOnError, FreeForBoth, FreeAndRetry
  <2> QED BY <1>1, <2>1, <2>2
<1>4. CASE ProcessRequest
  <2>1. Head(requestQueue) \in Request
    BY <1>4 DEF ProcessRequest, Types
  <2> QED BY <1>1, <1>4, <2>1 DEF ProcessRequest
<1>5. CASE UNCHANGED owner
  BY <1>5
<1> QED
  BY <1>2, <1>3, <1>4, <1>5 DEF LifetimeNext, lifetimeVars, SubmitAndBlock, SubmitAsync, Peek

\* A caller becomes dangling by freeing what it has, and keeps it in mind.
LEMMA BecomesDangling ==
  ASSUME Types, Placed, [LifetimeNext]_lifetimeVars, NEW t \in Caller, Dangling(t)'
  PROVE  \/ Dangling(t) /\ call'[t] = call[t]
         \/ /\ call[t].at = "answered" /\ call'[t].request = call[t].request
            /\ Free(call[t].request)
<1>a. call[t] \in Call /\ Idle.at = "idle"
  BY DEF Types, Idle
<1>b. call'[t].at \in {"filled", "freeing"} /\ ~call'[t].ok
      /\ (call'[t].at = "freeing" => call'[t].helper = "errors")
      /\ (call'[t].at = "filled" => call'[t].helper = "retries")
  BY DEF Dangling, DanglingFree, DanglingRetry, At
<1>1. CASE call'[t] = call[t]
  BY <1>1, HoldsLocal
<1>2. ASSUME call'[t] # call[t] PROVE call[t].at = "answered" /\ call'[t].request = call[t].request
                                      /\ Free(call[t].request)
  <2>1. ASSUME NEW u \in Caller, NEW r, call' = [call EXCEPT ![u] = r]
        PROVE  u = t /\ call'[t] = r
    BY <1>2, <2>1 DEF Types
  <2>2. ASSUME NEW u \in Caller, NEW h \in Helper, NEW c \in Cell, Allocate(u, h, c) PROVE FALSE
    <3> DEFINE r == [at |-> "filled", helper |-> h, ok |-> TRUE,
                     request |-> <<c, allocations'>>, tries |-> Tries]
    <3>1. call' = [call EXCEPT ![u] = r] /\ r.ok
      BY <2>2 DEF Allocate
    <3> HIDE DEF r
    <3> QED BY <1>b, <2>1, <3>1
  <2>3. ASSUME NEW u \in Caller, SubmitAndBlock(u) PROVE FALSE
    <3>1. PICK ok \in BOOLEAN :
            call' = [call EXCEPT ![u] = [call[u] EXCEPT !.at = "answered", !.ok = ok]]
      BY <2>3 DEF SubmitAndBlock
    <3>2. u = t /\ call'[t] = [call[u] EXCEPT !.at = "answered", !.ok = ok]
      BY <2>1, <3>1
    <3> QED BY <1>a, <1>b, <3>2 DEF Call
  <2>4. ASSUME NEW u \in Caller, FreeAndReturn(u) \/ FreeForBoth(u) \/ Peek(u) PROVE FALSE
    <3>1. call' = [call EXCEPT ![u] = Idle]
      BY <2>4 DEF FreeAndReturn, FreeForBoth, Peek, Return
    <3> QED BY <1>a, <1>b, <2>1, <3>1
  <2>5. ASSUME NEW u \in Caller, Loop(u) PROVE FALSE
    <3>1. \/ call' = [call EXCEPT ![u] = Idle]
          \/ call' = [call EXCEPT ![u] = [call[u] EXCEPT !.at = "filled", !.tries = call[u].tries - 1]]
      BY <2>5 DEF Loop, Return
    <3>2. u = t
      BY <2>1, <3>1
    <3>3. call[t].helper = "loop"
      BY <2>5, <3>2 DEF Loop, At
    <3>4. \/ call'[t] = Idle
          \/ call'[t] = [call[t] EXCEPT !.at = "filled", !.tries = call[t].tries - 1]
      BY <2>1, <3>1, <3>2
    <3> QED BY <1>a, <1>b, <3>3, <3>4 DEF Call
  <2>6. ASSUME NEW u \in Caller, FreeOnError(u)
        PROVE  call[t].at = "answered" /\ call'[t].request = call[t].request
               /\ Free(call[t].request)
    <3>1. call' = [call EXCEPT ![u] = [call[u] EXCEPT !.at = "freeing"]]
      BY <2>6 DEF FreeOnError, Goto
    <3>2. u = t /\ call'[t] = [call[t] EXCEPT !.at = "freeing"]
      BY <2>1, <3>1
    <3>3. ~call[t].ok /\ call'[t].request = call[t].request
      BY <1>a, <1>b, <3>2 DEF Call
    <3> QED BY <2>6, <3>2, <3>3 DEF FreeOnError, At
  <2>7. ASSUME NEW u \in Caller, FreeAndRetry(u)
        PROVE  call[t].at = "answered" /\ call'[t].request = call[t].request
               /\ Free(call[t].request)
    <3>1. \/ call' = [call EXCEPT ![u] = Idle]
          \/ call' = [call EXCEPT ![u] = [call[u] EXCEPT !.at = "filled", !.tries = call[u].tries - 1]]
      BY <2>7 DEF FreeAndRetry, Return
    <3>2. u = t
      BY <2>1, <3>1
    <3>3. \/ call'[t] = Idle
          \/ call'[t] = [call[t] EXCEPT !.at = "filled", !.tries = call[t].tries - 1]
      BY <2>1, <3>1, <3>2
    <3>4. call'[t].request = call[t].request
      BY <1>a, <1>b, <3>3 DEF Call
    <3> QED BY <2>7, <3>2, <3>4 DEF FreeAndRetry, At
  <2>8. ASSUME NEW u \in Caller, SubmitAsync(u) PROVE FALSE
    <3>1. \/ call' = [call EXCEPT ![u] = Idle]
          \/ call' = [call EXCEPT ![u] = [call[u] EXCEPT !.at = "submitted"]]
      BY <2>8 DEF SubmitAsync, Goto, Return
    <3>2. call'[t] = Idle \/ call'[t] = [call[t] EXCEPT !.at = "submitted"]
      BY <2>1, <3>1
    <3> QED BY <1>a, <1>b, <3>2 DEF Call
  <2>9. CASE ProcessRequest \/ UNCHANGED lifetimeVars
    BY <1>2, <2>9 DEF ProcessRequest, lifetimeVars
  <2> QED BY <2>2, <2>3, <2>4, <2>5, <2>6, <2>7, <2>8, <2>9 DEF LifetimeNext
<1> QED BY <1>1, <1>2

LEMMA FreedNext == Types /\ Placed /\ Freed /\ [LifetimeNext]_lifetimeVars => Freed'
<1> SUFFICES ASSUME Types, Placed, Freed, [LifetimeNext]_lifetimeVars,
                    NEW t \in Caller, Dangling(t)'
             PROVE  ~Live(call[t].request)'
  BY DEF Freed
<1>1. CASE Dangling(t) /\ call'[t] = call[t]
  <2>1. call[t].request \in Request /\ call[t].request[2] <= allocations
        /\ ~Live(call[t].request)
    BY <1>1, DanglingPlaces DEF Placed, Freed
  <2> DEFINE q == call[t].request
  <2>2. ~Live(q)'
    <3>1. owner'[q[1]] # q[2]
      BY <2>1, OwnersChange, StaysDead DEF Live
    <3> QED BY <1>1, <3>1 DEF Live
  <2> QED BY <2>2
<1>2. CASE /\ call[t].at = "answered" /\ call'[t].request = call[t].request
           /\ Free(call[t].request)
  <2>1. call[t].request \in Request
    BY <1>2 DEF Placed
  <2>2. owner'[call[t].request[1]] = 0
    BY <1>2, <2>1, RequestParts DEF Free, Types
  <2> QED BY <1>2, <2>1, <2>2, RequestParts DEF Live
<1> QED BY <1>1, <1>2, BecomesDangling

---------------------------------------------------------------------------
(* Owned, by every step up to the first fault.                             *)

LEMMA OwnedNext ==
  ASSUME Types, Placed, Freed, Owned, Sound', [LifetimeNext]_lifetimeVars
  PROVE  Owned'
<1>a. \A t \in Caller : call[t] \in Call
  BY DEF Types
<1>b. Idle.at = "idle"
  BY DEF Idle
<1>c. {"doubleFree", "useAfterFree"} \cap faults' = {}
  BY DEF Sound
<1>e. ASSUME NEW t \in Caller, call' = [call EXCEPT ![t] = Idle] PROVE ~Holds(t)'
  BY <1>b, <1>e DEF Holds, Types
<1>1. ASSUME NEW t \in Caller, NEW h \in Helper, NEW c \in Cell, Allocate(t, h, c) PROVE Owned'
  <2> DEFINE r == [at |-> "filled", helper |-> h, ok |-> TRUE,
                   request |-> <<c, allocations'>>, tries |-> Tries]
  <2>1. /\ call' = [call EXCEPT ![t] = r] /\ owner' = [owner EXCEPT ![c] = allocations']
        /\ owner[c] = 0 /\ UNCHANGED <<requestQueue, faults>>
    BY <1>1 DEF Allocate
  <2>2. r.at = "filled" /\ r.ok /\ r.request[1] = c /\ r.request[2] = allocations'
    OBVIOUS
  <2> HIDE DEF r
  <2>3. call'[t] = r /\ \A u \in Caller \ {t} : call'[u] = call[u]
    BY <2>1 DEF Types
  <2>4. owner'[c] = allocations' /\ \A d \in Cell \ {c} : owner'[d] = owner[d]
    BY <2>1 DEF Types
  <2>5. \A u \in Caller : Holds(u) => call[u].request \in Request /\ call[u].request[1] \in Cell \ {c}
    <3>1. \A u \in Caller : Holds(u) => call[u].request \in Request /\ Live(call[u].request)
      BY DEF Placed, Holds, Owned
    <3> QED BY <2>1, <3>1 DEF Live, Request
  <2>6. \A i \in 1..Len(requestQueue) : requestQueue[i][1] \in Cell \ {c}
    <3>1. \A i \in 1..Len(requestQueue) : requestQueue[i] \in Request /\ Live(requestQueue[i])
      BY DEF Types, Owned
    <3> QED BY <2>1, <3>1 DEF Live, Request
  <2>7. \A u \in Caller \ {t} : Holds(u)' <=> Holds(u)
    BY <2>3, HoldsLocal
  <2>8. \A u \in Caller : Holds(u)' => Live(call[u].request)'
    BY <2>2, <2>3, <2>4, <2>5, <2>7 DEF Owned, Live
  <2>9. \A i \in 1..Len(requestQueue) : Live(requestQueue[i])'
    BY <2>1, <2>4, <2>6 DEF Owned, Live
  <2>11. \A u, v \in Caller :
           u # v /\ Holds(u)' /\ Holds(v)' => (call[u].request)'[1] # (call[v].request)'[1]
    BY <2>2, <2>3, <2>5, <2>7 DEF Owned
  <2>12. \A u \in Caller : \A i \in 1..Len(requestQueue) :
           Holds(u)' => (call[u].request)'[1] # requestQueue[i][1]
    BY <2>2, <2>3, <2>6, <2>7 DEF Owned
  <2>13. /\ faults' \subseteq {"lateLook"} /\ requestQueue' = requestQueue
         /\ \A i, j \in 1..Len(requestQueue) :
               i # j => requestQueue[i][1] # requestQueue[j][1]
    BY <2>1 DEF Owned
  <2> QED BY <2>8, <2>9, <2>11, <2>12, <2>13 DEF Owned
<1>2. ASSUME NEW t \in Caller, SubmitAndBlock(t) PROVE Owned'
  <2>1. PICK ok \in BOOLEAN :
          call' = [call EXCEPT ![t] = [call[t] EXCEPT !.at = "answered", !.ok = ok]]
    BY <1>2 DEF SubmitAndBlock
  <2> DEFINE r == [call[t] EXCEPT !.at = "answered", !.ok = ok]
  <2>2. r.at = "answered" /\ r.request = call[t].request
    BY <1>a DEF Call
  <2>3. Touch(call[t].request) /\ UNCHANGED <<owner, requestQueue>> /\ call[t].at = "filled"
    BY <1>2 DEF SubmitAndBlock, At
  <2>4. Live(call[t].request)
    BY <2>3, <1>c DEF Touch
  <2>5. Holds(t)
    BY <2>3, <2>4 DEF Freed, Holds
  <2> HIDE DEF r
  <2>6. call'[t] = r
    BY <2>1 DEF r, Types
  <2>7. Holds(t)'
    BY <2>2, <2>6, DanglingPlaces DEF Holds, Dangling, DanglingFree, DanglingRetry, At
  <2> QED BY <2>1, <2>2, <2>3, <2>5, <2>7, TouchKeepsOwned DEF r
<1>3. ASSUME NEW t \in Caller, FreeAndReturn(t) \/ FreeForBoth(t) PROVE Owned'
  <2>1. Free(call[t].request) /\ UNCHANGED requestQueue
        /\ call' = [call EXCEPT ![t] = Idle] /\ call[t].at \in {"answered", "freeing"}
    BY <1>3 DEF FreeAndReturn, FreeForBoth, At, Return
  <2>2. Live(call[t].request)
    BY <2>1, <1>c DEF Free
  <2>3. Holds(t)
    BY <2>1, <2>2 DEF Freed, Holds
  <2> QED BY <1>b, <1>e, <2>1, <2>3, FreeKeepsOwned
<1>4. ASSUME NEW t \in Caller, Loop(t) PROVE Owned'
  <2>1. Holds(t) /\ UNCHANGED requestQueue
    BY <1>4, DanglingPlaces DEF Loop, At, Holds
  <2>2. CASE Free(call[t].request) /\ Return(t)
    BY <1>e, <2>1, <2>2, FreeKeepsOwned DEF Return
  <2>3. CASE ~(Free(call[t].request) /\ Return(t))
    <3> DEFINE r == [call[t] EXCEPT !.at = "filled", !.tries = call[t].tries - 1]
    <3>1. Touch(call[t].request) /\ call' = [call EXCEPT ![t] = r] /\ UNCHANGED owner
      BY <1>4, <2>3 DEF Loop
    <3>2. r.at = "filled" /\ r.request = call[t].request /\ r.helper = "loop"
      BY <1>a, <1>4 DEF Call, Loop, At
    <3> HIDE DEF r
    <3>3. call'[t] = r
      BY <3>1 DEF Types
    <3>4. Holds(t)'
      BY <3>2, <3>3 DEF Holds, Dangling, DanglingFree, DanglingRetry, At
    <3> QED BY <2>1, <3>1, <3>2, <3>4, TouchKeepsOwned
  <2> QED BY <2>2, <2>3
<1>5. ASSUME NEW t \in Caller, FreeOnError(t) PROVE Owned'
  <2> DEFINE r == [call[t] EXCEPT !.at = "freeing"]
  <2>1. Holds(t) /\ call' = [call EXCEPT ![t] = r] /\ UNCHANGED requestQueue
    BY <1>5, DanglingPlaces DEF FreeOnError, At, Holds, Goto
  <2>2. /\ r.at = "freeing" /\ r.request = call[t].request /\ r.helper = "errors"
        /\ r.ok = call[t].ok
    BY <1>a, <1>5 DEF Call, FreeOnError, At
  <2> HIDE DEF r
  <2>3. call'[t] = r
    BY <2>1 DEF Types
  <2>4. CASE call[t].ok
    <3>1. Holds(t)'
      BY <2>2, <2>3, <2>4 DEF Holds, Dangling, DanglingFree, DanglingRetry, At
    <3>2. UNCHANGED <<owner, faults>>
      BY <1>5, <2>4 DEF FreeOnError
    <3>3. Touch(call[t].request)
      BY <2>1, <3>2 DEF Owned, Touch
    <3> QED BY <2>1, <2>2, <3>1, <3>2, <3>3, TouchKeepsOwned
  <2>5. CASE ~call[t].ok
    <3>1. ~Holds(t)'
      BY <2>2, <2>3, <2>5 DEF Holds, Dangling, DanglingFree, At
    <3>2. Free(call[t].request)
      BY <1>5, <2>5 DEF FreeOnError
    <3> QED BY <2>1, <3>1, <3>2, FreeKeepsOwned
  <2> QED BY <2>4, <2>5
<1>6. ASSUME NEW t \in Caller, FreeAndRetry(t) PROVE Owned'
  <2> DEFINE r == [call[t] EXCEPT !.at = "filled", !.tries = call[t].tries - 1]
  <2>1. Holds(t) /\ Free(call[t].request) /\ UNCHANGED requestQueue
    BY <1>6, DanglingPlaces DEF FreeAndRetry, At, Holds
  <2>2. Return(t) \/ (~call[t].ok /\ call' = [call EXCEPT ![t] = r])
    BY <1>6 DEF FreeAndRetry
  <2>3. r.at = "filled" /\ r.helper = "retries" /\ r.ok = call[t].ok
    BY <1>a, <1>6 DEF Call, FreeAndRetry, At
  <2> HIDE DEF r
  <2>4. CASE Return(t)
    BY <1>e, <2>1, <2>4, FreeKeepsOwned DEF Return
  <2>5. CASE ~call[t].ok /\ call' = [call EXCEPT ![t] = r]
    <3>1. call'[t] = r
      BY <2>5 DEF Types
    <3>2. ~Holds(t)'
      BY <2>3, <2>5, <3>1 DEF Holds, Dangling, DanglingRetry, At
    <3> QED BY <2>1, <2>5, <3>2, FreeKeepsOwned
  <2> QED BY <2>2, <2>4, <2>5
<1>7. ASSUME NEW t \in Caller, SubmitAsync(t) PROVE Owned'
  <2> DEFINE q == call[t].request
             n == Len(requestQueue)
  <2>1. Holds(t) /\ q \in Request /\ Live(q)
    BY <1>7, DanglingPlaces DEF SubmitAsync, At, Holds, Placed, Owned
  <2>2. /\ requestQueue' = Append(requestQueue, q) /\ UNCHANGED owner
        /\ faults' = faults
    BY <1>7, <2>1 DEF SubmitAsync, Touch
  <2>3. \A u \in Caller \ {t} : call'[u] = call[u]
    BY <1>7 DEF SubmitAsync, Goto, Return, Types
  <2>4. call'[t].at \in {"idle", "submitted"}
    BY <1>7, <1>a, <1>b DEF SubmitAsync, Goto, Return, Types, Call
  <2>5. ~Holds(t)' /\ \A u \in Caller \ {t} : Holds(u)' <=> Holds(u)
    BY <2>3, <2>4, HoldsLocal DEF Holds
  <2>6. /\ n \in Nat /\ Len(requestQueue') = n + 1
        /\ \A i \in 1..n : requestQueue'[i] = requestQueue[i]
        /\ requestQueue'[n + 1] = q
    BY <2>2 DEF Types
  <2>7. \A i \in 1..Len(requestQueue') : i \in 1..n \/ i = n + 1
    BY <2>6
  <2> HIDE DEF q, n
  <2>8. \A u \in Caller : Holds(u)' => u # t /\ Holds(u) /\ call'[u] = call[u]
    BY <2>3, <2>5
  <2>9. \A request : Live(request) => owner'[request[1]] = request[2]
    BY <2>2 DEF Live
  <2>10. \A i \in 1..n : Live(requestQueue[i]) /\ requestQueue[i][1] # q[1]
    BY <2>1 DEF Owned, q, n
  <2>11. \A u \in Caller \ {t} : Holds(u) => call[u].request[1] # q[1]
    BY <2>1 DEF Owned, q
  <2>12. \A i \in 1..Len(requestQueue') : owner'[requestQueue'[i][1]] = requestQueue'[i][2]
    BY <2>1, <2>6, <2>7, <2>9, <2>10
  <2>13. \A u \in Caller : Holds(u)' => owner'[call'[u].request[1]] = call'[u].request[2]
    BY <2>8, <2>9 DEF Owned
  <2>14. \A u \in Caller : \A i \in 1..Len(requestQueue') :
            Holds(u)' => call'[u].request[1] # requestQueue'[i][1]
    BY <2>6, <2>7, <2>8, <2>11 DEF Owned, n
  <2>15. \A i, j \in 1..Len(requestQueue') :
            i # j => requestQueue'[i][1] # requestQueue'[j][1]
    BY <2>6, <2>7, <2>10 DEF Owned, n
  <2>16. \A u, v \in Caller :
            u # v /\ Holds(u)' /\ Holds(v)' => call'[u].request[1] # call'[v].request[1]
    BY <2>8 DEF Owned
  <2>17. faults' \subseteq {"lateLook"}
    BY <2>2 DEF Owned
  <2> QED BY <2>12, <2>13, <2>14, <2>15, <2>16, <2>17 DEF Owned, Live
<1>8. ASSUME NEW t \in Caller, Peek(t) PROVE Owned'
  <2>1. /\ call'[t] = Idle /\ \A u \in Caller \ {t} : call'[u] = call[u]
        /\ UNCHANGED <<owner, requestQueue>>
    BY <1>8 DEF Peek, Return, Types
  <2>2. faults' \subseteq {"lateLook"}
    BY <1>8 DEF Peek, TouchForeign, Owned
  <2>3. \A u \in Caller : Holds(u)' => u # t /\ Holds(u)
    BY <1>b, <2>1, HoldsLocal DEF Holds
  <2> QED BY <2>1, <2>2, <2>3, OwnedStutter
<1>9. CASE ProcessRequest
  <2> DEFINE q == Head(requestQueue)
             n == Len(requestQueue)
  <2>1. /\ n \in Nat \ {0} /\ q = requestQueue[1] /\ q \in Request
        /\ Len(Tail(requestQueue)) = n - 1
        /\ \A i \in 1..(n - 1) : Tail(requestQueue)[i] = requestQueue[i + 1]
    BY <1>9 DEF ProcessRequest, Types
  <2>2. Live(q)
    BY <2>1 DEF Owned
  <2>3. /\ requestQueue' = Tail(requestQueue) /\ call' = call /\ faults' = faults
        /\ owner' = [owner EXCEPT ![q[1]] = 0]
    BY <1>9, <2>2 DEF ProcessRequest, Free
  <2>4. Len(requestQueue') = n - 1 /\ \A i \in 1..(n - 1) :
          requestQueue'[i] = requestQueue[i + 1] /\ i + 1 \in 1..n /\ i + 1 # 1
    BY <2>1, <2>3
  <2> HIDE DEF q, n
  <2>5. \A c \in Cell : c # q[1] => owner'[c] = owner[c]
    BY <2>3 DEF Types
  <2>6. \A i \in 1..n : i # 1 => /\ requestQueue[i][1] # q[1] /\ requestQueue[i][1] \in Cell
                                /\ Live(requestQueue[i])
    BY <2>1 DEF Owned, Types, Request, n
  <2>7. \A u \in Caller : Holds(u) => /\ call[u].request[1] # q[1]
                                    /\ call[u].request[1] \in Cell
                                    /\ Live(call[u].request)
    BY <2>1 DEF Owned, Placed, Holds, Request, n
  <2>8. \A i \in 1..(n - 1) : owner'[requestQueue'[i][1]] = requestQueue'[i][2]
    BY <2>4, <2>5, <2>6 DEF Live
  <2>9. \A u \in Caller : Holds(u) => owner'[call[u].request[1]] = call[u].request[2]
    BY <2>5, <2>7 DEF Live
  <2>10. \A u \in Caller : \A i \in 1..(n - 1) :
            Holds(u) => call[u].request[1] # requestQueue'[i][1]
    BY <2>4 DEF Owned, n
  <2>11. \A i, j \in 1..(n - 1) : i # j => i + 1 # j + 1
    OBVIOUS
  <2>12. \A i, j \in 1..(n - 1) : i # j => requestQueue'[i][1] # requestQueue'[j][1]
    BY <2>4, <2>11 DEF Owned, n
  <2>13. \A u \in Caller : Holds(u)' <=> Holds(u)
    BY <2>3, HoldsLocal
  <2> QED BY <2>3, <2>4, <2>8, <2>9, <2>10, <2>12, <2>13 DEF Owned, Live
<1>10. CASE UNCHANGED lifetimeVars
  BY <1>10, OwnedStutter, HoldsLocal DEF lifetimeVars, Owned
<1> QED
  BY <1>1, <1>2, <1>3, <1>4, <1>5, <1>6, <1>7, <1>8, <1>9, <1>10 DEF LifetimeNext

---------------------------------------------------------------------------
(* The theorems. *)

LEMMA LifetimeInvInit == LifetimeInit => LifetimeInv
<1> SUFFICES ASSUME LifetimeInit PROVE LifetimeInv OBVIOUS
<1> USE LifetimeAssumption DEF LifetimeAssumption
<1>1. Types
  <2>1. Idle \in Call
    BY DEF Idle, Call, Place, AllHelpers
  <2>2. <<>> \in Seq(Request)
    OBVIOUS
  <2> QED BY <2>1, <2>2 DEF LifetimeInit, Types
<1>2. \A t \in Caller : call[t].at = "idle"
  BY DEF LifetimeInit, Idle
<1>3. Placed
  BY <1>2 DEF Placed
<1>4. Owned
  <2>1. Len(requestQueue) = 0
    BY DEF LifetimeInit
  <2> QED BY <1>2, <2>1 DEF LifetimeInit, Owned, Holds
<1>5. Freed
  BY <1>2, DanglingPlaces DEF Freed
<1> QED BY <1>1, <1>3, <1>4, <1>5 DEF LifetimeInv

\* Faults are not forgotten.
LEMMA FaultsStay == [LifetimeNext]_lifetimeVars => faults \subseteq faults'
BY DEF LifetimeNext, lifetimeVars, Allocate, SubmitAndBlock, FreeAndReturn, Loop, FreeOnError,
   FreeForBoth, FreeAndRetry, SubmitAsync, Peek, ProcessRequest, Touch, TouchForeign, Free

LEMMA LifetimeInvNext == LifetimeInv /\ [LifetimeNext]_lifetimeVars => LifetimeInv'
<1> SUFFICES ASSUME LifetimeInv, [LifetimeNext]_lifetimeVars PROVE LifetimeInv' OBVIOUS
<1>1. Sound' => Sound
  BY FaultsStay DEF Sound
<1> QED BY <1>1, TypesNext, PlacedNext, FreedNext, OwnedNext DEF LifetimeInv

---------------------------------------------------------------------------
(* Where the first fault comes from.                                       *)

\* Whoever frees a request other than a dangling helper frees a live one, and
\* so does the controller; the same of those who use one.
LEMMA FirstFault ==
  ASSUME LifetimeInv, Sound, [LifetimeNext]_lifetimeVars
  PROVE  /\ ~FreedOnce' => \E t \in Caller : DanglingFree(t) /\ call'[t] # call[t]
         /\ ~UsedWhileAllocated' => \E t \in Caller : DanglingRetry(t) /\ call'[t] # call[t]
<1> USE DEF LifetimeInv
<1>a. Owned /\ FreedOnce /\ UsedWhileAllocated
  BY DEF Sound, FreedOnce, UsedWhileAllocated
<1>b. \A t \in Caller : call[t] \in Call
  BY DEF Types
<1>c. Idle.at = "idle"
  BY DEF Idle
<1>d. ASSUME NEW t \in Caller, Holds(t), Touch(call[t].request) PROVE faults' = faults
  BY <1>a, <1>d DEF Owned, Touch
<1>e. ASSUME NEW t \in Caller, Holds(t), Free(call[t].request) PROVE faults' = faults
  BY <1>a, <1>e DEF Owned, Free
<1>1. CASE faults' = faults
  BY <1>a, <1>1 DEF FreedOnce, UsedWhileAllocated
<1>2. ASSUME NEW t \in Caller, SubmitAndBlock(t), faults' # faults
      PROVE  FreedOnce' /\ DanglingRetry(t) /\ call'[t] # call[t]
  <2>1. Touch(call[t].request) /\ call[t].at = "filled"
    BY <1>2 DEF SubmitAndBlock, At
  <2>2. ~Holds(t)
    BY <1>2, <1>d, <2>1
  <2>3. DanglingRetry(t)
    BY <2>1, <2>2 DEF Holds, Dangling, DanglingFree, At
  <2>4. PICK ok \in BOOLEAN :
          call' = [call EXCEPT ![t] = [call[t] EXCEPT !.at = "answered", !.ok = ok]]
    BY <1>2 DEF SubmitAndBlock
  <2>5. call'[t].at = "answered"
    BY <1>b, <2>4 DEF Types, Call
  <2>6. FreedOnce'
    BY <1>a, <2>1 DEF Touch, FreedOnce
  <2> QED BY <2>1, <2>3, <2>5, <2>6
<1>3. ASSUME NEW t \in Caller, FreeAndReturn(t) \/ FreeForBoth(t), faults' # faults
      PROVE  UsedWhileAllocated' /\ DanglingFree(t) /\ call'[t] # call[t]
  <2>1. Free(call[t].request) /\ call[t].at \in {"answered", "freeing"} /\ call'[t] = Idle
    BY <1>3 DEF FreeAndReturn, FreeForBoth, At, Return, Types
  <2>2. ~Holds(t)
    BY <1>3, <1>e, <2>1
  <2>3. DanglingFree(t)
    BY <2>1, <2>2 DEF Holds, Dangling, DanglingRetry, At
  <2>4. UsedWhileAllocated'
    BY <1>a, <2>1 DEF Free, UsedWhileAllocated
  <2> QED BY <1>c, <2>1, <2>3, <2>4
<1>4. ASSUME NEW t \in Caller, Loop(t) \/ FreeOnError(t) \/ FreeAndRetry(t) PROVE faults' = faults
  <2>1. Holds(t)
    BY <1>4, DanglingPlaces DEF Loop, FreeOnError, FreeAndRetry, At, Holds
  <2>2. Touch(call[t].request) \/ Free(call[t].request) \/ faults' = faults
    BY <1>4 DEF Loop, FreeOnError, FreeAndRetry
  <2> QED BY <1>d, <1>e, <2>1, <2>2
<1>5. ASSUME NEW t \in Caller, SubmitAsync(t) PROVE faults' = faults
  <2>1. Holds(t) /\ Touch(call[t].request)
    BY <1>5, DanglingPlaces DEF SubmitAsync, At, Holds
  <2> QED BY <1>d, <2>1
<1>6. ASSUME NEW t \in Caller, Peek(t) PROVE FreedOnce' /\ UsedWhileAllocated'
  BY <1>a, <1>6 DEF Peek, TouchForeign, FreedOnce, UsedWhileAllocated
<1>7. CASE ProcessRequest
  <2>1. Head(requestQueue) = requestQueue[1] /\ 1 \in 1..Len(requestQueue)
    BY <1>7 DEF ProcessRequest, Types
  <2>2. faults' = faults
    BY <1>7, <1>a, <2>1 DEF ProcessRequest, Free, Owned
  <2> QED BY <1>1, <2>2
<1>8. ASSUME NEW t \in Caller, NEW h \in Helper, NEW c \in Cell, Allocate(t, h, c)
      PROVE  faults' = faults
  BY <1>8 DEF Allocate
<1> QED
  BY <1>1, <1>2, <1>3, <1>4, <1>5, <1>6, <1>7, <1>8
  DEF LifetimeNext, lifetimeVars, FreedOnce, UsedWhileAllocated

\* Whatever requests fail, wait or are retried, in any number of threads: the
\* first request that is freed twice is freed by the common exit of
\* sendElantechCmd or sendSlicedPS2Cmd after a failed command, and by nothing
\* else in the drivers and the controller.
THEOREM FreedTwiceOnErrorPathOnly == LifetimeSpec => FirstFreedTwice
<1>1. LifetimeInv /\ [LifetimeNext]_lifetimeVars =>
        [ Sound /\ ~FreedOnce' => \E t \in Caller : DanglingFree(t) /\ call'[t] # call[t]
        ]_lifetimeVars
  BY FirstFault
<1> QED BY <1>1, LifetimeInvInit, LifetimeInvNext, PTL DEF LifetimeSpec, FirstFreedTwice

\* The first request that is used after it was freed is used by a retry of
\* sendElactechPS2Cmd: everybody else who fills in, submits or waits for one
\* holds it.
THEOREM UsedFreedByRetryOnly == LifetimeSpec => FirstUsedAfterFree
<1>1. LifetimeInv /\ [LifetimeNext]_lifetimeVars =>
        [ Sound /\ ~UsedWhileAllocated' =>
            \E t \in Caller : DanglingRetry(t) /\ call'[t] # call[t]
        ]_lifetimeVars
  BY FirstFault
<1> QED BY <1>1, LifetimeInvInit, LifetimeInvNext, PTL DEF LifetimeSpec, FirstUsedAfterFree

---------------------------------------------------------------------------
(* No memory without a holder: every cell that is not free is held by a    *)
(* caller or waits in the queue of the controller.  It holds after faults  *)
(* as well, and only finitely many callers hold a request at a time.       *)

inHand == {t \in Caller : Holds(t)}

Accounted ==
    /\ \A c \in Cell : owner[c] # 0 =>
           \/ \E t \in Caller : Holds(t) /\ call[t].request[1] = c
           \/ \E i \in 1..Len(requestQueue) : requestQueue[i][1] = c
    /\ IsFiniteSet(inHand)

\* One caller's step adds one caller at most to those that hold a request.
LEMMA HandsFinite ==
  ASSUME Types, IsFiniteSet(inHand), NEW t \in Caller,
         \A u \in Caller \ {t} : call'[u] = call[u]
  PROVE  IsFiniteSet(inHand')
<1>1. inHand' \subseteq inHand \cup {t}
  BY HoldsLocal DEF inHand
<1>2. IsFiniteSet(inHand \cup {t})
  BY FS_AddElement
<1> QED BY <1>1, <1>2, FS_Subset

\* A caller frees the memory it holds, whatever it does next.
LEMMA FreeAccounts ==
  ASSUME Types, Placed, Accounted,
         NEW t \in Caller, call[t].at # "idle", Free(call[t].request),
         \A u \in Caller \ {t} : call'[u] = call[u], requestQueue' = requestQueue
  PROVE  Accounted'
<1>1. IsFiniteSet(inHand')
  BY HandsFinite DEF Accounted
<1>2. \A c \in Cell : owner'[c] # 0 => owner[c] # 0 /\ c # call[t].request[1]
  <2>1. call[t].request[1] \in Cell
    BY RequestParts DEF Placed
  <2> QED BY <2>1 DEF Types, Free
<1>3. \A u \in Caller \ {t} : Holds(u) => Holds(u)'
  BY HoldsLocal
<1>4. \A c \in Cell : owner'[c] # 0 =>
           \/ \E u \in Caller : Holds(u)' /\ call'[u].request[1] = c
           \/ \E i \in 1..Len(requestQueue') : requestQueue'[i][1] = c
  <2> SUFFICES ASSUME NEW c \in Cell, owner'[c] # 0,
                      ~ \E i \in 1..Len(requestQueue') : requestQueue'[i][1] = c
               PROVE  \E u \in Caller : Holds(u)' /\ call'[u].request[1] = c
    OBVIOUS
  <2>1. PICK u \in Caller : Holds(u) /\ call[u].request[1] = c
    BY <1>2 DEF Accounted
  <2>2. u # t
    BY <1>2, <2>1
  <2> QED BY <1>3, <2>1, <2>2
<1> QED BY <1>1, <1>4 DEF Accounted

\* A caller that held a request goes on holding it.
LEMMA HoldAccounts ==
  ASSUME Types, Accounted, NEW t \in Caller, UNCHANGED <<owner, requestQueue>>,
         \A u \in Caller \ {t} : call'[u] = call[u],
         Holds(t) => Holds(t)' /\ call'[t].request = call[t].request
  PROVE  Accounted'
<1>1. IsFiniteSet(inHand')
  BY HandsFinite DEF Accounted
<1>2. \A u \in Caller : Holds(u) => Holds(u)' /\ call'[u].request = call[u].request
  BY HoldsLocal
<1> QED BY <1>1, <1>2 DEF Accounted

LEMMA AccountedNext == Types /\ Placed /\ Accounted /\ [LifetimeNext]_lifetimeVars => Accounted'
<1> SUFFICES ASSUME Types, Placed, Accounted, [LifetimeNext]_lifetimeVars PROVE Accounted' OBVIOUS
<1>a. \A t \in Caller : call[t] \in Call
  BY DEF Types
<1>1. ASSUME NEW t \in Caller, NEW h \in Helper, NEW c \in Cell, Allocate(t, h, c)
      PROVE  Accounted'
  <2> DEFINE r == [at |-> "filled", helper |-> h, ok |-> TRUE,
                   request |-> <<c, allocations'>>, tries |-> Tries]
  <2>1. /\ call' = [call EXCEPT ![t] = r] /\ owner' = [owner EXCEPT ![c] = allocations']
        /\ UNCHANGED requestQueue /\ call[t].at = "idle"
    BY <1>1 DEF Allocate
  <2>2. r.at = "filled" /\ r.ok /\ r.request[1] = c
    OBVIOUS
  <2> HIDE DEF r
  <2>3. call'[t] = r /\ \A u \in Caller \ {t} : call'[u] = call[u]
    BY <2>1 DEF Types
  <2>4. Holds(t)' /\ call'[t].request[1] = c
    BY <2>2, <2>3, DanglingPlaces DEF Holds, Dangling, DanglingFree, DanglingRetry
  <2>5. \A u \in Caller : Holds(u) => u # t /\ Holds(u)' /\ call'[u].request = call[u].request
    BY <2>1, <2>3, HoldsLocal DEF Holds
  <2>6. \A d \in Cell : d # c => owner'[d] = owner[d]
    BY <2>1 DEF Types
  <2>7. IsFiniteSet(inHand')
    BY <2>3, HandsFinite DEF Accounted
  <2>8. \A d \in Cell : owner'[d] # 0 =>
           \/ \E u \in Caller : Holds(u)' /\ call'[u].request[1] = d
           \/ \E i \in 1..Len(requestQueue') : requestQueue'[i][1] = d
    BY <2>1, <2>4, <2>5, <2>6 DEF Accounted
  <2> QED BY <2>7, <2>8 DEF Accounted
<1>2. ASSUME NEW t \in Caller, SubmitAndBlock(t) PROVE Accounted'
  <2>1. PICK ok \in BOOLEAN :
          call' = [call EXCEPT ![t] = [call[t] EXCEPT !.at = "answered", !.ok = ok]]
    BY <1>2 DEF SubmitAndBlock
  <2>2. \A u \in Caller \ {t} : call'[u] = call[u]
    BY <2>1 DEF Types
  <2>3. call'[t].at = "answered" /\ call'[t].request = call[t].request
    BY <1>a, <2>1 DEF Call, Types
  <2>4. UNCHANGED <<owner, requestQueue>>
    BY <1>2 DEF SubmitAndBlock
  <2>5. Holds(t)'
    BY <2>3 DEF Holds, Dangling, DanglingFree, DanglingRetry, At
  <2> QED BY <2>2, <2>3, <2>4, <2>5, HoldAccounts
<1>3. ASSUME NEW t \in Caller, FreeAndReturn(t) \/ FreeForBoth(t) \/ FreeAndRetry(t)
      PROVE  Accounted'
  <2>1. call[t].at # "idle" /\ Free(call[t].request) /\ UNCHANGED requestQueue
    BY <1>3 DEF FreeAndReturn, FreeForBoth, FreeAndRetry, At
  <2>2. \A u \in Caller \ {t} : call'[u] = call[u]
    BY <1>3 DEF FreeAndReturn, FreeForBoth, FreeAndRetry, Return, Types
  <2> QED BY <2>1, <2>2, FreeAccounts
<1>4. ASSUME NEW t \in Caller, Loop(t) PROVE Accounted'
  <2>1. /\ call[t].at = "answered" /\ call[t].helper = "loop"
        /\ UNCHANGED requestQueue
    BY <1>4 DEF Loop, At
  <2>2. \A u \in Caller \ {t} : call'[u] = call[u]
    BY <1>4 DEF Loop, Return, Types
  <2>3. CASE Free(call[t].request)
    BY <2>1, <2>2, <2>3, FreeAccounts
  <2>4. CASE ~Free(call[t].request)
    <3>1. call' = [call EXCEPT ![t] = [call[t] EXCEPT !.at = "filled", !.tries = @ - 1]]
          /\ UNCHANGED owner
      BY <1>4, <2>4 DEF Loop
    <3>2. /\ call'[t].at = "filled" /\ call'[t].request = call[t].request
          /\ call'[t].helper = "loop"
      BY <1>a, <2>1, <3>1 DEF Call, Types
    <3>3. Holds(t)'
      BY <3>2 DEF Holds, Dangling, DanglingFree, DanglingRetry, At
    <3> QED BY <2>1, <2>2, <3>1, <3>2, <3>3, HoldAccounts
  <2> QED BY <2>3, <2>4
<1>5. ASSUME NEW t \in Caller, FreeOnError(t) PROVE Accounted'
  <2>1. call[t].at = "answered" /\ UNCHANGED requestQueue
        /\ call' = [call EXCEPT ![t] = [call[t] EXCEPT !.at = "freeing"]]
    BY <1>5 DEF FreeOnError, At, Goto
  <2>2. \A u \in Caller \ {t} : call'[u] = call[u]
    BY <2>1 DEF Types
  <2>3. CASE Free(call[t].request)
    BY <2>1, <2>2, <2>3, FreeAccounts
  <2>4. CASE ~Free(call[t].request)
    <3>1. UNCHANGED owner /\ call[t].ok
      BY <1>5, <2>4 DEF FreeOnError
    <3>2. /\ call'[t].at = "freeing" /\ call'[t].request = call[t].request
          /\ call'[t].ok
      BY <1>a, <2>1, <3>1 DEF Call, Types
    <3>3. Holds(t)'
      BY <3>2 DEF Holds, Dangling, DanglingFree, DanglingRetry
    <3> QED BY <2>1, <2>2, <3>1, <3>2, <3>3, HoldAccounts
  <2> QED BY <2>3, <2>4
<1>6. ASSUME NEW t \in Caller, SubmitAsync(t) PROVE Accounted'
  <2> DEFINE q == call[t].request
             n == Len(requestQueue)
  <2>1. requestQueue' = Append(requestQueue, q) /\ UNCHANGED owner /\ q \in Request
    BY <1>6 DEF SubmitAsync, At, Placed
  <2>2. \A u \in Caller \ {t} : call'[u] = call[u]
    BY <1>6 DEF SubmitAsync, Goto, Return, Types
  <2>3. /\ n \in Nat /\ Len(requestQueue') = n + 1
        /\ \A i \in 1..n : requestQueue'[i] = requestQueue[i]
        /\ requestQueue'[n + 1] = q
    BY <2>1 DEF Types
  <2>4. /\ \A i \in 1..n : i \in 1..Len(requestQueue')
        /\ n + 1 \in 1..Len(requestQueue')
    BY <2>3
  <2> HIDE DEF q
  <2>5. ASSUME NEW c \in Cell, owner'[c] # 0
        PROVE  \/ \E u \in Caller : Holds(u)' /\ call'[u].request[1] = c
               \/ \E i \in 1..Len(requestQueue') : requestQueue'[i][1] = c
    <3>1. CASE \E i \in 1..n : requestQueue[i][1] = c
      BY <2>3, <2>4, <3>1
    <3>2. CASE ~ \E i \in 1..n : requestQueue[i][1] = c
      <4>1. PICK u \in Caller : Holds(u) /\ call[u].request[1] = c
        BY <2>1, <2>5, <3>2 DEF Accounted
      <4>2. CASE u = t
        BY <2>3, <2>4, <4>1, <4>2 DEF q
      <4>3. CASE u # t
        BY <2>2, <4>1, <4>3, HoldsLocal
      <4> QED BY <4>2, <4>3
    <3> QED BY <3>1, <3>2
  <2>6. IsFiniteSet(inHand')
    BY <2>2, HandsFinite DEF Accounted
  <2> QED BY <2>5, <2>6 DEF Accounted
<1>7. ASSUME NEW t \in Caller, Peek(t) PROVE Accounted'
  <2>1. ~Holds(t) /\ UNCHANGED <<owner, requestQueue>>
        /\ \A u \in Caller \ {t} : call'[u] = call[u]
    BY <1>7 DEF Peek, At, Holds, Return, Types
  <2> QED BY <2>1, HoldAccounts
<1>8. CASE ProcessRequest
  <2> DEFINE n == Len(requestQueue)
  <2>1. /\ n \in Nat \ {0} /\ Head(requestQueue) = requestQueue[1] /\ requestQueue[1] \in Request
        /\ Len(Tail(requestQueue)) = n - 1
        /\ \A i \in 1..(n - 1) : Tail(requestQueue)[i] = requestQueue[i + 1]
    BY <1>8 DEF ProcessRequest, Types
  <2>2. /\ requestQueue' = Tail(requestQueue) /\ call' = call
        /\ owner' = [owner EXCEPT ![requestQueue[1][1]] = 0]
    BY <1>8, <2>1 DEF ProcessRequest, Free
  <2>3. \A c \in Cell : owner'[c] # 0 => owner[c] # 0 /\ c # requestQueue[1][1]
    BY <2>1, <2>2, RequestParts DEF Types
  <2>4. \A i \in 1..n : i = 1 \/ (i - 1 \in 1..Len(requestQueue')
                                  /\ requestQueue'[i - 1] = requestQueue[i])
    BY <2>1, <2>2
  <2> HIDE DEF n
  <2>5. ASSUME NEW c \in Cell, owner'[c] # 0
        PROVE  \/ \E u \in Caller : Holds(u)' /\ call'[u].request[1] = c
               \/ \E i \in 1..Len(requestQueue') : requestQueue'[i][1] = c
    <3>1. CASE \E u \in Caller : Holds(u) /\ call[u].request[1] = c
      BY <2>2, <3>1, HoldsLocal
    <3>2. CASE ~ \E u \in Caller : Holds(u) /\ call[u].request[1] = c
      <4>1. PICK i \in 1..n : requestQueue[i][1] = c
        BY <2>3, <2>5, <3>2 DEF Accounted, n
      <4>2. i # 1
        BY <2>3, <2>5, <4>1
      <4> QED BY <2>4, <4>1, <4>2
    <3> QED BY <3>1, <3>2
  <2>6. inHand' = inHand
    BY <2>2, HoldsLocal DEF inHand
  <2> QED BY <2>5, <2>6 DEF Accounted
<1>9. CASE UNCHANGED lifetimeVars
  <2>1. inHand' = inHand
    BY <1>9, HoldsLocal DEF inHand, lifetimeVars
  <2> QED BY <1>9, <2>1, HoldsLocal DEF Accounted, lifetimeVars
<1> QED
  BY <1>1, <1>2, <1>3, <1>4, <1>5, <1>6, <1>7, <1>8, <1>9 DEF LifetimeNext

\* As many cells as holders: each holder, and each place in the queue, has one
\* cell of its own.
LEMMA OneCellEach ==
  Types /\ Placed /\ Owned /\ Accounted =>
      Cardinality({c \in Cell : owner[c] # 0}) = Cardinality(inHand) + Len(requestQueue)
<1> SUFFICES ASSUME Types, Placed, Owned, Accounted
             PROVE  Cardinality({c \in Cell : owner[c] # 0})
                      = Cardinality(inHand) + Len(requestQueue)
  OBVIOUS
<1> DEFINE n == Len(requestQueue)
           hand  == {call[t].request[1] : t \in inHand}
           queue == {requestQueue[i][1] : i \in 1..n}
           f == [t \in inHand |-> call[t].request[1]]
           g == [i \in 1..n |-> requestQueue[i][1]]
<1>1. n \in Nat /\ \A i \in 1..n : requestQueue[i] \in Request
  BY DEF Types
<1>2. \A t \in inHand : Holds(t) /\ t \in Caller /\ call[t].request \in Request
  BY DEF inHand, Placed, Holds
<1>3. f \in Bijection(inHand, hand)
  <2>1. \A t, u \in inHand : f[t] = f[u] => t = u
    BY <1>2 DEF Owned
  <2> QED BY <2>1 DEF Bijection, Injection, IsInjective, Surjection
<1>4. g \in Bijection(1..n, queue)
  <2>1. \A i, j \in 1..n : g[i] = g[j] => i = j
    BY DEF Owned
  <2> QED BY <2>1 DEF Bijection, Injection, IsInjective, Surjection
<1>5. IsFiniteSet(hand) /\ Cardinality(hand) = Cardinality(inHand)
  <2>1. ExistsBijection(inHand, hand)
    BY <1>3 DEF ExistsBijection
  <2> HIDE DEF hand
  <2> QED BY <2>1, FS_Bijection DEF Accounted
<1>6. IsFiniteSet(queue) /\ Cardinality(queue) = n
  <2>1. ExistsBijection(1..n, queue)
    BY <1>4 DEF ExistsBijection
  <2> HIDE DEF queue, n
  <2> QED BY <1>1, <2>1, FS_CountingElements, FS_NatSurjection, FS_Interval, FS_Bijection
<1>7. hand \cap queue = {}
  BY <1>2 DEF Owned
<1>8. {c \in Cell : owner[c] # 0} = hand \cup queue
  <2>1. ASSUME NEW c \in Cell, owner[c] # 0
        PROVE  c \in hand \cup queue
    BY <2>1 DEF Accounted, inHand
  <2>2. ASSUME NEW t \in inHand
        PROVE  call[t].request[1] \in Cell /\ owner[call[t].request[1]] # 0
    BY <1>2, RequestParts DEF Owned, Live
  <2>3. ASSUME NEW i \in 1..n
        PROVE  requestQueue[i][1] \in Cell /\ owner[requestQueue[i][1]] # 0
    BY <1>1, RequestParts DEF Owned, Live
  <2> QED BY <2>1, <2>2, <2>3
<1> HIDE DEF hand, queue, n
<1>9. Cardinality(hand \cup queue) = Cardinality(hand) + Cardinality(queue)
  <2>1. Cardinality(hand \cup queue)
          = Cardinality(hand) + Cardinality(queue) - Cardinality(hand \cap queue)
    BY <1>5, <1>6, FS_Union
  <2>2. Cardinality(hand \cap queue) = 0
    BY <1>7, FS_EmptySet
  <2>3. Cardinality(hand) \in Nat /\ Cardinality(queue) \in Nat
    BY <1>5, <1>6, FS_CardinalityType
  <2> QED BY <2>1, <2>2, <2>3
<1> QED BY <1>5, <1>6, <1>8, <1>9 DEF n

\* No request is lost and none has two holders until the first fault: the cells
\* in use are exactly those somebody holds or the controller has queued, for
\* commands that fail as well.
THEOREM RequestsNeverLeak == LifetimeSpec => []NothingLeaks
<1>1. LifetimeInit => Accounted
  <2> SUFFICES ASSUME LifetimeInit PROVE Accounted OBVIOUS
  <2>1. inHand = {} /\ \A c \in Cell : owner[c] = 0
    BY DEF LifetimeInit, inHand, Holds, Idle
  <2> QED BY <2>1, FS_EmptySet DEF Accounted
<1>2. LifetimeInv /\ Accounted /\ [LifetimeNext]_lifetimeVars => Accounted'
  BY AccountedNext DEF LifetimeInv
<1>3. LifetimeInv /\ Accounted => NothingLeaks
  BY OneCellEach DEF LifetimeInv, NothingLeaks, inHand, Holds
<1> QED BY <1>1, <1>2, <1>3, LifetimeInvInit, LifetimeInvNext, PTL DEF LifetimeSpec
=============================================================================
