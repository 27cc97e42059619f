-------------------------- MODULE RequestLifetime --------------------------
(***************************************************************************)
(* Who owns the memory of a PS2Request, and until when.                    *)
(*                                                                         *)
(* A driver allocates a request, submits it and frees it when the blocking *)
(* call has returned; a request submitted without a completion routine is  *)
(* freed by the controller.  The helpers of PS2Interface and the keyboard  *)
(* driver are told apart by what they do around that: how often they       *)
(* submit, when they free, what they look at afterwards.                   *)
(* The specification's own names begin with Lifetime: its proofs are in a  *)
(* module with those of CommandByte.                                       *)
(***************************************************************************)
EXTENDS Naturals, Sequences, FiniteSets

CONSTANTS
    Caller,     \* threads that run helpers
    Cell,       \* pieces of memory for one request each
    Helper,     \* the helpers that are called, of those below
    MaxCalls    \* bound: how many helpers are called

\* once:    allocate, submit, look at the result, free: sendPS2Cmd,
\*          getMouseInformation, getStatus, initializeMouse, resetMouse,
\*          Enable_touchpad
\* loop:    the same with repeated submission: setCommandByte
\* errors:  sendElantechCmd, sendSlicedPS2Cmd
\* retries: sendElactechPS2Cmd
\* forget:  asynchronous, nothing looked at: setLEDs
\* peek:    asynchronous, the result looked at: setKeyboardEnable
AllHelpers == {"once", "loop", "errors", "retries", "forget", "peek"}

ASSUME LifetimeAssumption ==
    /\ Helper \subseteq AllHelpers
    /\ MaxCalls \in Nat

Tries == 3  \* ETD_PS2_COMMAND_TRIES, and a bound on the loop

VARIABLES
    owner,         \* the allocation a cell holds, zero when it is free
    allocations,   \* how many requests were allocated
    call,          \* what each caller is doing
    requestQueue,  \* asynchronous requests: cell and allocation
    faults         \* what went wrong with the memory

lifetimeVars == <<owner, allocations, call, requestQueue, faults>>

Idle == [at |-> "idle", helper |-> "once", request |-> <<>>, ok |-> TRUE, tries |-> 0]

LifetimeInit ==
    /\ owner = [c \in Cell |-> 0]
    /\ allocations = 0
    /\ call = [t \in Caller |-> Idle]
    /\ requestQueue = <<>>
    /\ faults = {}

\* A request is a cell and the allocation that its holder means.
Live(request) == owner[request[1]] = request[2]

\* Looking at or writing to a request.
Touch(request) ==
    faults' = IF Live(request) THEN faults ELSE faults \cup {"useAfterFree"}

\* The same for a request that was handed over to the controller.
TouchForeign(request) ==
    faults' = IF Live(request) THEN faults ELSE faults \cup {"lateLook"}

\* freeRequest, after a last look at the request or not.
Free(request) ==
    /\ owner' = [owner EXCEPT ![request[1]] = 0]
    /\ faults' = IF Live(request) THEN faults ELSE faults \cup {"doubleFree"}

At(t, at, helpers) == call[t].at = at /\ call[t].helper \in helpers

Goto(t, at) == call' = [call EXCEPT ![t].at = at]

Return(t) == call' = [call EXCEPT ![t] = Idle]

---------------------------------------------------------------------------
\* allocateRequest: the memory may be any that is free, one just freed too.
Allocate(t, h, c) ==
    /\ call[t].at = "idle" /\ allocations < MaxCalls
    /\ owner[c] = 0
    /\ allocations' = allocations + 1
    /\ owner' = [owner EXCEPT ![c] = allocations']
    /\ call' = [call EXCEPT ![t] = [at |-> "filled", helper |-> h, ok |-> TRUE,
                                    request |-> <<c, allocations'>>, tries |-> Tries]]
    /\ UNCHANGED <<requestQueue, faults>>

\* Mutant: without a completion routine the controller frees the request.
MutantSubmitAndBlock(t) ==
    /\ At(t, "filled", {"once", "loop", "errors", "retries"})
    /\ Free(call[t].request)
    /\ \E ok \in BOOLEAN : call' = [call EXCEPT ![t].at = "answered", ![t].ok = ok]
    /\ UNCHANGED <<allocations, requestQueue>>

\* The request is filled in, submitted and processed before the call returns;
\* it has a completion routine, so the controller does not free it.
SubmitAndBlock(t) ==
    /\ At(t, "filled", {"once", "loop", "errors", "retries"})
    /\ Touch(call[t].request)
    /\ \E ok \in BOOLEAN : call' = [call EXCEPT ![t].at = "answered", ![t].ok = ok]
    /\ UNCHANGED <<owner, allocations, requestQueue>>

\* Most helpers: look at the result and free the request.
FreeAndReturn(t) ==
    /\ At(t, "answered", {"once"})
    /\ Free(call[t].request)
    /\ Return(t)
    /\ UNCHANGED <<allocations, requestQueue>>

\* Mutant: the request is freed in each turn of the loop.
MutantLoopFrees(t) ==
    /\ At(t, "answered", {"loop"})
    /\ Free(call[t].request)
    /\ IF call[t].ok \/ call[t].tries = 1
       THEN Return(t)
       ELSE call' = [call EXCEPT ![t].at = "filled", ![t].tries = @ - 1]
    /\ UNCHANGED <<allocations, requestQueue>>

\* setCommandByte submits the same request again until it succeeds.
Loop(t) ==
    /\ At(t, "answered", {"loop"})
    /\ IF call[t].ok \/ call[t].tries = 1
       THEN Free(call[t].request) /\ Return(t)
       ELSE /\ Touch(call[t].request)
            /\ call' = [call EXCEPT ![t].at = "filled", ![t].tries = @ - 1]
            /\ UNCHANGED owner
    /\ UNCHANGED <<allocations, requestQueue>>

\* sendElantechCmd and sendSlicedPS2Cmd: the error branch frees the request,
\* then falls into the lines that free it for both branches.
FreeOnError(t) ==
    /\ At(t, "answered", {"errors"})
    /\ IF call[t].ok THEN UNCHANGED <<owner, faults>> ELSE Free(call[t].request)
    /\ Goto(t, "freeing")
    /\ UNCHANGED <<allocations, requestQueue>>

\* Mutant: the request is freed in the error branch only.
MutantFreeForBoth(t) ==
    /\ At(t, "freeing", {"errors"})
    /\ Return(t)
    /\ UNCHANGED <<owner, allocations, requestQueue, faults>>

FreeForBoth(t) ==
    /\ At(t, "freeing", {"errors"})
    /\ Free(call[t].request)
    /\ Return(t)
    /\ UNCHANGED <<allocations, requestQueue>>

\* sendElactechPS2Cmd: the request is freed in each turn of the loop, and
\* allocated before the loop.
FreeAndRetry(t) ==
    /\ At(t, "answered", {"retries"})
    /\ Free(call[t].request)
    /\ IF call[t].ok \/ call[t].tries = 1
       THEN Return(t)
       ELSE call' = [call EXCEPT ![t].at = "filled", ![t].tries = @ - 1]
    /\ UNCHANGED <<allocations, requestQueue>>

\* submitRequest; the controller owns the request from here on.
SubmitAsync(t) ==
    /\ At(t, "filled", {"forget", "peek"})
    /\ Touch(call[t].request)
    /\ requestQueue' = Append(requestQueue, call[t].request)
    /\ IF call[t].helper = "peek" THEN Goto(t, "submitted") ELSE Return(t)
    /\ UNCHANGED <<owner, allocations>>

\* setKeyboardEnable looks at commandsCount to write it to the log.
Peek(t) ==
    /\ At(t, "submitted", {"peek"})
    /\ TouchForeign(call[t].request)
    /\ Return(t)
    /\ UNCHANGED <<owner, allocations, requestQueue>>

\* processRequest without a completion routine frees the request.
ProcessRequest ==
    /\ requestQueue # <<>>
    /\ Free(Head(requestQueue))
    /\ requestQueue' = Tail(requestQueue)
    /\ UNCHANGED <<allocations, call>>

LifetimeNext ==
    \/ \E t \in Caller, h \in Helper, c \in Cell : Allocate(t, h, c)
    \/ \E t \in Caller :
           \/ SubmitAndBlock(t) \/ FreeAndReturn(t) \/ Loop(t)
           \/ FreeOnError(t) \/ FreeForBoth(t)
           \/ FreeAndRetry(t)
           \/ SubmitAsync(t) \/ Peek(t)
    \/ ProcessRequest

LifetimeSpec == LifetimeInit /\ [][LifetimeNext]_lifetimeVars

---------------------------------------------------------------------------
(* Properties.  What the memory does after the first fault is nobody's     *)
(* promise any more; what is promised is where the first fault comes from. *)

\* A request is freed once: by the driver after a blocking call returned, or
\* by the controller if there is no completion routine.  It is not always so:
\* when a command of sendElantechCmd or sendSlicedPS2Cmd fails, the helper frees
\* the request and then frees it again.
FreedOnce == "doubleFree" \notin faults

\* Memory that was not allocated is not filled in and submitted.  Nor is this
\* always so: sendElactechPS2Cmd frees its request in each turn of the loop, and
\* fills it in again in the next.
UsedWhileAllocated == "useAfterFree" \notin faults

\* Nothing was freed twice and nothing was used after it was freed, other than
\* by setKeyboardEnable's late look, which only reads.
Sound == faults \subseteq {"lateLook"}

\* About to free a request that its error branch freed: sendElantechCmd or
\* sendSlicedPS2Cmd after a command that failed.
DanglingFree(t) == At(t, "freeing", {"errors"}) /\ ~call[t].ok

\* About to fill in a request that the turn before freed: sendElactechPS2Cmd
\* after a command that failed.
DanglingRetry(t) == At(t, "filled", {"retries"}) /\ ~call[t].ok

Dangling(t) == DanglingFree(t) \/ DanglingRetry(t)

\* Whatever requests fail, are retried and wait in the queue, and whoever gets
\* the memory next: the first request that is freed twice is freed by the
\* common exit of sendElantechCmd or sendSlicedPS2Cmd, after its error branch.
\* Driver and controller never both free one, nor does any other retry.
FirstFreedTwice ==
    [][ Sound /\ ~FreedOnce' => \E t \in Caller : DanglingFree(t) /\ call'[t] # call[t]
      ]_lifetimeVars

\* The first request that is used after it was freed is used by a second try of
\* sendElactechPS2Cmd; setCommandByte's tries and the asynchronous requests
\* always have live memory, even when it was another caller's before.
FirstUsedAfterFree ==
    [][ Sound /\ ~UsedWhileAllocated' =>
            \E t \in Caller : DanglingRetry(t) /\ call'[t] # call[t]
      ]_lifetimeVars

\* No request is lost and none has two holders, on any path of any helper: until
\* the first fault the allocated ones are exactly those somebody holds or has
\* queued, and a caller that is about to free or use a request again has none.
NothingLeaks ==
    LET inHand == {t \in Caller : /\ call[t].at \in {"filled", "answered", "freeing"}
                                  /\ ~Dangling(t)}
    IN  Sound => Cardinality({c \in Cell : owner[c] # 0})
                 = Cardinality(inHand) + Len(requestQueue)
=============================================================================
