---------------------------- MODULE RequestQueue ----------------------------
(***************************************************************************)
(* The request engine of ApplePS2Controller.                               *)
(*                                                                         *)
(* A request is submitted asynchronously (submitRequest: any thread, or a  *)
(* driver routine) or by a caller that runs it itself inside the command   *)
(* gate (submitRequestAndBlock).  The gate is recursive, so code that is   *)
(* already inside may enter again: the frames of one thread inside the     *)
(* gate are the stack below.  While a request waits for a byte, data of    *)
(* the other device is dispatched and that driver's interrupt routine runs *)
(* on top of the request.                                                  *)
(***************************************************************************)
EXTENDS Naturals, Sequences, FiniteSets, SequencesExt

CONSTANTS
    Async,          \* requests given to submitRequest
    Blocking,       \* requests given to submitRequestAndBlock
    Commands,       \* how many commands a request has
    Nesting,        \* do routines that preempt a request block on another?
    MaxInterrupts,  \* bound: how many driver routines are run
    Nobody          \* no request

Request == Async \cup Blocking

ASSUME RequestAssumption ==
    /\ Async \cap Blocking = {}
    /\ Nobody \notin Request
    /\ Commands \in [Request -> Nat \ {0}]
    /\ Nesting \in BOOLEAN
    /\ MaxInterrupts \in Nat

VARIABLES
    requestQueue,    \* _requestQueue
    unsignalled,     \* enqueued, the submitter has not yet signalled
    signalled,       \* _interruptSourceQueue has work
    stack,           \* frames inside the gate, innermost first
    hardwareOffline, \* _hardwareOffline
    outcome,         \* what each request reports
    interrupts,      \* how many driver routines have been run
    submitted,       \* requests in the order of their submission
    started,         \* requests in the order processRequest took them up
    wire             \* the requests whose commands went out, in order

vars == <<requestQueue, unsignalled, signalled, stack, hardwareOffline,
          outcome, interrupts, submitted, started, wire>>

submission == <<unsignalled, submitted>>
record     == <<started, wire, outcome>>

\* The frames: processRequestQueue with its local queue; a caller of
\* submitRequestAndBlock that waits for that; processRequest; a routine of a
\* driver (interrupt, power control).
Queue(local)  == [kind |-> "queue", local |-> local, req |-> Nobody, index |-> 0]
Blocked(r)    == [kind |-> "blocked", local |-> <<>>, req |-> r, index |-> 0]
Run(r, index) == [kind |-> "run", local |-> <<>>, req |-> r, index |-> index]
Routine       == [kind |-> "routine", local |-> <<>>, req |-> Nobody, index |-> 0]

Frame == [kind : {"queue", "blocked", "run", "routine"}, local : Seq(Request),
          req : Request \cup {Nobody}, index : Nat]

Top      == Head(stack)
Below    == Tail(stack)
OnTop(k) == stack # <<>> /\ Top.kind = k

Init ==
    /\ requestQueue = <<>>
    /\ unsignalled = {}
    /\ signalled = FALSE
    /\ stack = <<>>
    /\ hardwareOffline = FALSE
    /\ outcome = [r \in Request |-> "none"]
    /\ interrupts = 0
    /\ submitted = <<>>
    /\ started = <<>>
    /\ wire = <<>>

Unsubmitted(r) == ~Contains(submitted, r)

---------------------------------------------------------------------------
(* Submission. *)

\* submitRequest, under _requestQueueLock.
SubmitRequest(r) ==
    /\ Unsubmitted(r)
    /\ requestQueue' = Append(requestQueue, r)
    /\ unsignalled' = unsignalled \cup {r}
    /\ submitted' = Append(submitted, r)
    /\ UNCHANGED <<signalled, stack, hardwareOffline, interrupts, record>>

\* Mutant: the work loop is not woken while somebody is inside the gate.
MutantSignalQueue(r) ==
    /\ r \in unsignalled
    /\ unsignalled' = unsignalled \ {r}
    /\ signalled' = (signalled \/ stack = <<>>)
    /\ UNCHANGED <<requestQueue, stack, hardwareOffline, interrupts, submitted, record>>

\* submitRequest, after the lock: wake the work loop.
SignalQueue(r) ==
    /\ r \in unsignalled
    /\ unsignalled' = unsignalled \ {r}
    /\ signalled' = TRUE
    /\ UNCHANGED <<requestQueue, stack, hardwareOffline, interrupts, submitted, record>>

\* processRequestQueue takes the whole queue over.
TakeQueue(below) ==
    /\ stack' = <<Queue(requestQueue)>> \o below
    /\ requestQueue' = <<>>

\* The work loop serves the queue's event source.
ServeQueue ==
    /\ stack = <<>>
    /\ signalled
    /\ signalled' = FALSE
    /\ TakeQueue(<<>>)
    /\ UNCHANGED <<hardwareOffline, interrupts, submission, record>>

\* Mutant: the caller's own request overtakes the queued ones.
MutantBlockFirst(r) ==
    /\ Unsubmitted(r)
    /\ submitted' = Append(submitted, r)
    /\ stack' = <<Blocked(r)>> \o stack
    /\ UNCHANGED <<requestQueue, unsignalled, signalled, hardwareOffline, interrupts, record>>

\* submitRequestAndBlockGated: queued requests first, then this one.
BlockOn(r) ==
    /\ Unsubmitted(r)
    /\ submitted' = Append(submitted, r)
    /\ TakeQueue(<<Blocked(r)>> \o stack)
    /\ UNCHANGED <<unsignalled, signalled, hardwareOffline, interrupts, record>>

\* Mutant: the thread does not wait for the command gate.
MutantBlockFromThread(r) == BlockOn(r)

\* submitRequestAndBlock from a thread outside the gate, which waits for it.
BlockFromThread(r) ==
    /\ stack = <<>>
    /\ BlockOn(r)

Preempting == \E i \in 1..Len(stack) : stack[i].kind = "run"

\* submitRequestAndBlock from a driver's routine, inside the gate already.
BlockFromRoutine(r) ==
    /\ OnTop("routine")
    /\ Preempting => Nesting
    /\ BlockOn(r)

---------------------------------------------------------------------------
(* Processing. *)

StartRequest(r, below) ==
    /\ stack' = <<Run(r, 0)>> \o below
    /\ started' = Append(started, r)

\* processRequestQueue: the next request of the local queue.
ProcessNext ==
    /\ OnTop("queue")
    /\ Top.local # <<>>
    /\ StartRequest(Head(Top.local), <<Queue(Tail(Top.local))>> \o Below)
    /\ UNCHANGED <<requestQueue, signalled, hardwareOffline, interrupts,
                   submission, wire, outcome>>

\* Mutant: the event source's flag is cleared once the queue was processed.
MutantQueueProcessed ==
    /\ OnTop("queue")
    /\ Top.local = <<>>
    /\ stack' = Below
    /\ signalled' = FALSE
    /\ UNCHANGED <<requestQueue, hardwareOffline, interrupts, submission, record>>

\* processRequestQueue returns.
QueueProcessed ==
    /\ OnTop("queue")
    /\ Top.local = <<>>
    /\ stack' = Below
    /\ UNCHANGED <<requestQueue, signalled, hardwareOffline, interrupts,
                   submission, record>>

\* submitRequestAndBlockGated goes on with the caller's own request.
ProcessBlocked ==
    /\ OnTop("blocked")
    /\ StartRequest(Top.req, Below)
    /\ UNCHANGED <<requestQueue, signalled, hardwareOffline, interrupts,
                   submission, wire, outcome>>

\* processRequest ends: the completion routine runs or the request is freed.
Complete(result) ==
    /\ outcome' = [outcome EXCEPT ![Top.req] = result]
    /\ stack' = Below

\* The engine is frozen: the request fails at command 0.
FailOffline ==
    /\ OnTop("run")
    /\ Top.index = 0
    /\ hardwareOffline
    /\ Complete("offline")
    /\ UNCHANGED <<requestQueue, signalled, hardwareOffline, interrupts,
                   submission, started, wire>>

Executing == OnTop("run") /\ (Top.index > 0 \/ ~hardwareOffline)

\* One command of the list.
ExecuteCommand ==
    /\ Executing
    /\ Top.index < Commands[Top.req]
    /\ wire' = Append(wire, Top.req)
    /\ stack' = <<Run(Top.req, Top.index + 1)>> \o Below
    /\ UNCHANGED <<requestQueue, signalled, hardwareOffline, interrupts,
                   submission, started, outcome>>

\* Mutant: the failure is reported and the next command goes out all the same.
MutantCommandFails ==
    /\ Executing
    /\ Top.index < Commands[Top.req]
    /\ wire' = Append(wire, Top.req)
    /\ outcome' = [outcome EXCEPT ![Top.req] = "failed"]
    /\ stack' = <<Run(Top.req, Top.index + 1)>> \o Below
    /\ UNCHANGED <<requestQueue, signalled, hardwareOffline, interrupts,
                   submission, started>>

\* A command that fails ends the request; the index reported is its own.
CommandFails ==
    /\ Executing
    /\ Top.index < Commands[Top.req]
    /\ wire' = Append(wire, Top.req)
    /\ Complete("failed")
    /\ UNCHANGED <<requestQueue, signalled, hardwareOffline, interrupts,
                   submission, started>>

RequestDone ==
    /\ OnTop("run")
    /\ Top.index = Commands[Top.req]
    /\ Complete("done")
    /\ UNCHANGED <<requestQueue, signalled, hardwareOffline, interrupts,
                   submission, started, wire>>

---------------------------------------------------------------------------
(* Driver routines. *)

RunRoutine ==
    /\ interrupts < MaxInterrupts
    /\ interrupts' = interrupts + 1
    /\ stack' = <<Routine>> \o stack
    /\ UNCHANGED <<requestQueue, signalled, hardwareOffline, submission, record>>

\* From the work loop itself: interruptOccurred, or a power change.
CallRoutine ==
    /\ stack = <<>>
    /\ RunRoutine

\* readDataPort dispatches the other device's byte (the first command of a
\* request is a write).
PreemptRequest ==
    /\ OnTop("run")
    /\ Top.index \in 1..(Commands[Top.req] - 1)
    /\ RunRoutine

RoutineReturns ==
    /\ OnTop("routine")
    /\ stack' = Below
    /\ UNCHANGED <<requestQueue, signalled, hardwareOffline, interrupts,
                   submission, record>>

\* setPowerStateGated flips the flag, inside the gate.
ChangePower ==
    /\ stack = <<>>
    /\ hardwareOffline' = ~hardwareOffline
    /\ UNCHANGED <<requestQueue, signalled, stack, interrupts, submission, record>>

---------------------------------------------------------------------------
InGate ==
    \/ ProcessNext
    \/ QueueProcessed
    \/ ProcessBlocked
    \/ FailOffline
    \/ ExecuteCommand
    \/ CommandFails
    \/ RequestDone
    \/ RoutineReturns

Next ==
    \/ \E r \in Async : SubmitRequest(r) \/ SignalQueue(r)
    \/ \E r \in Blocking : BlockFromThread(r) \/ BlockFromRoutine(r)
    \/ ServeQueue
    \/ InGate
    \/ CallRoutine
    \/ PreemptRequest
    \/ ChangePower

Spec == Init /\ [][Next]_vars

\* A submitter that has enqueued goes on to signal, the thread in the gate
\* goes on, and the work loop gets the gate once nobody else holds it.
Fairness ==
    /\ \A r \in Async : WF_vars(SignalQueue(r))
    /\ WF_vars(InGate)
    /\ WF_vars(ServeQueue)

FairSpec == Spec /\ Fairness

---------------------------------------------------------------------------
(* Properties. *)

\* Type correctness: frames, queues and outcomes stay in their domains.
TypeOK ==
    /\ requestQueue \in Seq(Async)
    /\ unsignalled \subseteq Async
    /\ signalled \in BOOLEAN
    /\ stack \in Seq(Frame)
    /\ \A i \in 1..Len(stack) :
           stack[i].kind \in {"run", "blocked"} => stack[i].req \in Request
    /\ hardwareOffline \in BOOLEAN
    /\ outcome \in [Request -> {"none", "done", "failed", "offline"}]
    /\ interrupts \in Nat
    /\ submitted \in Seq(Request)
    /\ started \in Seq(Request)
    /\ wire \in Seq(Request)

\* A queue that is not empty is known to the work loop, or to a submitter
\* that is about to tell it, although callers drain the queue as well and the
\* signal comes after the lock is dropped.
NoForgottenRequest ==
    requestQueue # <<>> => signalled \/ unsignalled # {}

\* ApplePS2Device.h: requests are executed atomically with respect to all
\* other requests: the commands of one are not interleaved with another's.
Atomic ==
    \A i, j, k \in 1..Len(wire) :
        i < j /\ j < k /\ wire[i] = wire[k] => wire[j] = wire[i]

\* submitRequestAndBlockGated must process the queue first, to process any
\* queued asynchronous requests: requests are taken up in the order in which
\* they were submitted, whichever way.
InSubmissionOrder == IsPrefix(started, submitted)

\* Every request is answered, by whatever path it is processed and in
\* whatever state the hardware is.
EveryRequestAnswered ==
    \A r \in Request : Contains(submitted, r) ~> outcome[r] # "none"

\* The frame of a kind in a stack that holds at most one, or a frame that
\* names no request.
FrameOf(s, kind) ==
    LET F == {f \in Range(s) : f.kind = kind}
    IN  IF F = {} THEN Routine ELSE CHOOSE f \in F : TRUE

\* What the frames still have to start: the local queue, then the caller's
\* own request.
Caller(s) ==
    IF FrameOf(s, "blocked").req = Nobody THEN <<>> ELSE <<FrameOf(s, "blocked").req>>

Pending(s) == FrameOf(s, "queue").local \o Caller(s)

\* Submitted and not taken up, oldest first; the request in execution.
Waiting == Pending(stack) \o requestQueue
Current == FrameOf(stack, "run").req

\* The engine implements the abstract server when routines that preempt a
\* request do not block.
Server == INSTANCE AtomicRequests WITH
    waiting  <- Waiting,
    current  <- Current,
    answered <- {r \in Request : outcome[r] # "none"}

ImplementsServer == Server!Spec
=============================================================================
