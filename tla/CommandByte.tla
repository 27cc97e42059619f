----------------------------- MODULE CommandByte -----------------------------
(***************************************************************************)
(* The 8042's command byte, changed by several drivers with no more than a *)
(* read command and a write command: setCommandByte of PS2Interface and of *)
(* the keyboard driver.                                                    *)
(*                                                                         *)
(* Each driver reads the byte in one request; in a second one it reads it  *)
(* again, compares, and writes.  Requests are atomic, the pair is not.     *)
(* The reads take the next byte of the keyboard's stream, in which scan    *)
(* codes and the answers of earlier reads may wait.                        *)
(***************************************************************************)
EXTENDS Naturals, Sequences, FiniteSets, FiniteSetsExt, SequencesExt

CONSTANTS
    Driver,       \* who changes the command byte
    SetBits,      \* setBits of each driver
    ClearBits,    \* clearBits of each driver
    Bit,          \* the bits of a byte
    InitialByte,  \* the command byte to begin with
    StrayBytes,   \* scan codes that may come in between
    MaxEach,      \* bound: how often each of them comes
    MaxSleeps,    \* bound: how often the request engine is frozen
    Silent        \* may the controller fail to answer?

ASSUME CommandByteAssumption ==
    /\ SetBits \in [Driver -> SUBSET Bit]
    /\ ClearBits \in [Driver -> SUBSET Bit]
    /\ InitialByte \subseteq Bit
    /\ StrayBytes \subseteq SUBSET Bit
    /\ MaxEach \in Nat /\ MaxSleeps \in Nat
    /\ Silent \in BOOLEAN
    /\ \A d, e \in Driver :
           d = e \/ (SetBits[d] \cup ClearBits[d]) \cap (SetBits[e] \cup ClearBits[e]) = {}
    /\ \A d \in Driver : SetBits[d] \cap ClearBits[d] = {}

VARIABLES
    controllerByte,  \* the command byte the controller holds
    stream,          \* the keyboard's stream, oldest byte first
    pc,              \* "read", "test" or "done"
    commandByte,     \* each driver's local variable of that name
    hardwareOffline,
    strays, sleeps   \* what the bounds count

vars == <<controllerByte, stream, pc, commandByte, hardwareOffline, strays, sleeps>>

Zero == {}  \* what a read returns when its time is over

Init ==
    /\ controllerByte = InitialByte
    /\ stream = <<>>
    /\ pc = [d \in Driver |-> "read"]
    /\ commandByte = [d \in Driver |-> Zero]
    /\ hardwareOffline = FALSE
    /\ strays = [b \in StrayBytes |-> 0]
    /\ sleeps = 0

---------------------------------------------------------------------------
(* The keyboard's stream. *)

StrayArrives(b) ==
    /\ strays[b] < MaxEach
    /\ strays' = [strays EXCEPT ![b] = @ + 1]
    /\ stream' = Append(stream, b)
    /\ UNCHANGED <<controllerByte, pc, commandByte, hardwareOffline, sleeps>>

\* Between requests the work loop hands the bytes to the keyboard driver.
Dispatch ==
    /\ stream # <<>> /\ ~hardwareOffline
    /\ stream' = Tail(stream)
    /\ UNCHANGED <<controllerByte, pc, commandByte, hardwareOffline, strays, sleeps>>

\* The stream once kCP_GetCommandByte was written.
Answered == {Append(stream, controllerByte)} \cup (IF Silent THEN {stream} ELSE {})

\* readDataPort: the next byte, or zero when nothing comes in time.
Read(s)      == IF s = <<>> THEN Zero ELSE Head(s)
AfterRead(s) == IF s = <<>> THEN s ELSE Tail(s)

\* readDataPort with an expected byte: it is looked for among four bytes; the
\* ones before it go to the keyboard driver.
Matches(s, expected) ==
    {i \in 1..Len(s) : i <= 4 /\ s[i] = expected}

ReadExpecting(s, expected) ==
    IF Matches(s, expected) # {} THEN expected ELSE Read(s)

AfterExpecting(s, expected) ==
    IF Matches(s, expected) # {}
    THEN SubSeq(s, Min(Matches(s, expected)) + 1, Len(s))
    ELSE SubSeq(s, 5, Len(s))

---------------------------------------------------------------------------
(* setCommandByte. *)

\* The first request: read the command byte; a frozen engine leaves the zero
\* that the request was filled with.
ReadCommandByte(d) ==
    /\ pc[d] = "read"
    /\ pc' = [pc EXCEPT ![d] = "test"]
    /\ IF hardwareOffline
       THEN /\ commandByte' = [commandByte EXCEPT ![d] = Zero]
            /\ UNCHANGED stream
       ELSE \E s \in Answered :
                /\ commandByte' = [commandByte EXCEPT ![d] = Read(s)]
                /\ stream' = AfterRead(s)
    /\ UNCHANGED <<controllerByte, hardwareOffline, strays, sleeps>>

\* Mutant: the byte is written whether or not it was changed meanwhile.
MutantSucceeds(s, expected) == TRUE

\* kPS2C_ReadDataPortAndCompare.
Succeeds(s, expected) == ReadExpecting(s, expected) = expected

\* Mutant: the comparison is repeated with the byte that was read at first.
MutantRetry(d) == [pc EXCEPT ![d] = "test"]

\* The loop begins again when the second request failed.
Retry(d) == [pc EXCEPT ![d] = "read"]

\* The second request: read, compare and write, or fail at the comparison.
TestAndSet(d) ==
    /\ pc[d] = "test"
    /\ IF hardwareOffline
       THEN pc' = Retry(d) /\ UNCHANGED <<controllerByte, stream>>
       ELSE \E s \in Answered :
                /\ stream' = AfterExpecting(s, commandByte[d])
                /\ IF Succeeds(s, commandByte[d])
                   THEN /\ controllerByte' = (commandByte[d] \cup SetBits[d]) \ ClearBits[d]
                        /\ pc' = [pc EXCEPT ![d] = "done"]
                   ELSE pc' = Retry(d) /\ UNCHANGED controllerByte
    /\ UNCHANGED <<commandByte, hardwareOffline, strays, sleeps>>

---------------------------------------------------------------------------
(* setPowerStateGated freezes and thaws the engine between requests. *)

Freeze ==
    /\ ~hardwareOffline /\ sleeps < MaxSleeps
    /\ hardwareOffline' = TRUE
    /\ sleeps' = sleeps + 1
    /\ UNCHANGED <<controllerByte, stream, pc, commandByte, strays>>

Thaw ==
    /\ hardwareOffline
    /\ hardwareOffline' = FALSE
    /\ UNCHANGED <<controllerByte, stream, pc, commandByte, strays, sleeps>>

Update(d) == ReadCommandByte(d) \/ TestAndSet(d)

Next ==
    \/ \E d \in Driver : ReadCommandByte(d) \/ TestAndSet(d)
    \/ \E b \in StrayBytes : StrayArrives(b)
    \/ Dispatch
    \/ Freeze
    \/ Thaw

Spec == Init /\ [][Next]_vars

\* A caller of setCommandByte goes on; the machine does not sleep for ever.
FairSpec == Spec /\ WF_vars(Thaw) /\ \A d \in Driver : WF_vars(Update(d))

---------------------------------------------------------------------------
(* Properties. *)

Done == {d \in Driver : pc[d] = "done"}

\* The first command byte with the changes of some drivers.
Changed(S) ==
    (InitialByte \cup UNION {SetBits[d] : d \in S}) \ UNION {ClearBits[d] : d \in S}

\* setCommandByte sets the bits setBits and clears the bits clearBits
\* "atomically": the command byte is always the first one with the changes of
\* the drivers that are done, and nothing else; no driver's change is lost to
\* another's, and no stray byte is taken for the command byte.
AppliedAtomically == controllerByte = Changed(Done)

\* As long as no scan code came in between, whatever the power changes do, the
\* loop is as good as an atomic update.
Alone == \A b \in StrayBytes : strays[b] = 0

AppliedWhenAlone == Alone => AppliedAtomically

\* So it is for two drivers with scan codes in between, as long as the request
\* engine is never frozen, no more than three come, no two of them the same, and
\* none reads like a command byte: the second read looks at four bytes, so it
\* never confirms a scan code, nor an old answer that is wrong by now.
Came == {b \in StrayBytes : strays[b] > 0}
Awake ==
    /\ sleeps = 0
    /\ \A b \in Came : strays[b] = 1
    /\ Cardinality(Came) <= 3
    /\ \A S \in SUBSET Driver : Changed(S) \notin Came

AppliedWhenAwake == Awake => AppliedAtomically

\* The test-and-set loop ends for every driver, although the others' changes,
\* stray bytes and a frozen engine make it begin again.
EveryUpdateEnds == \A d \in Driver : <>(pc[d] = "done")
=============================================================================
