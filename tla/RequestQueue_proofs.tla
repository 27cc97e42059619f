------------------------ MODULE RequestQueue_proofs ------------------------
(***************************************************************************)
(* Proofs about the request engine, for any set of requests, any lists of  *)
(* commands and any depth of nesting.                                      *)
(***************************************************************************)
EXTENDS RequestQueue, SequenceTheorems, TLAPS

---------------------------------------------------------------------------
(* Frames and stacks. *)

\* A frame that runs or waits for a request names one.
WellFormed(f) ==
    /\ f \in Frame
    /\ f.kind \in {"run", "blocked"} => f.req \in Request

\* What TypeOK says of the stack, frame by frame.
StackOK(s) == s \in Seq(Frame) /\ \A i \in 1..Len(s) : WellFormed(s[i])

\* The four kinds of frame that the code creates are frames.
LEMMA FramesAreWellFormed ==
    /\ \A local \in Seq(Request) : WellFormed(Queue(local))
    /\ \A r \in Request : WellFormed(Blocked(r))
    /\ \A r \in Request, n \in Nat : WellFormed(Run(r, n))
    /\ WellFormed(Routine)
  BY DEF WellFormed, Frame, Queue, Blocked, Run, Routine

\* A frame pushed on a stack gives a stack.
LEMMA Push ==
  ASSUME NEW s, StackOK(s), NEW f, WellFormed(f)
  PROVE  StackOK(<<f>> \o s)
<1>1. <<f>> \o s \in Seq(Frame) /\ Len(<<f>> \o s) = Len(s) + 1
  BY DEF StackOK, WellFormed
<1>2. \A i \in 1..(Len(s) + 1) : (<<f>> \o s)[i] = IF i = 1 THEN f ELSE s[i - 1]
  BY DEF StackOK
<1>3. ASSUME NEW i \in 1..(Len(s) + 1) PROVE WellFormed((<<f>> \o s)[i])
  <2>1. CASE i = 1 BY <1>2, <2>1
  <2>2. CASE i # 1
    <3>1. i - 1 \in 1..Len(s) BY <2>2 DEF StackOK
    <3> QED BY <1>2, <2>2, <3>1 DEF StackOK
  <2> QED BY <2>1, <2>2
<1> QED BY <1>1, <1>3 DEF StackOK

\* The innermost frame of a stack is one, and the others form a stack.
LEMMA Pop ==
  ASSUME NEW s, StackOK(s), s # <<>>
  PROVE  WellFormed(Head(s)) /\ StackOK(Tail(s))
<1>1. Len(s) \in Nat /\ Len(s) > 0 /\ Head(s) = s[1] /\ Tail(s) \in Seq(Frame)
  BY DEF StackOK
<1>2. Len(Tail(s)) = Len(s) - 1 /\ \A i \in 1..(Len(s) - 1) : Tail(s)[i] = s[i + 1]
  BY <1>1 DEF StackOK
<1>3. \A i \in 1..(Len(s) - 1) : i + 1 \in 1..Len(s)
  BY <1>1
<1>4. \A i \in 1..Len(Tail(s)) : WellFormed(Tail(s)[i])
  BY <1>1, <1>2, <1>3 DEF StackOK
<1> QED BY <1>1, <1>4 DEF StackOK

---------------------------------------------------------------------------
(* Type correctness. *)

\* The plain variables.
Typed ==
    /\ requestQueue \in Seq(Async)
    /\ unsignalled \subseteq Async
    /\ signalled \in BOOLEAN
    /\ hardwareOffline \in BOOLEAN
    /\ outcome \in [Request -> {"none", "done", "failed", "offline"}]
    /\ interrupts \in Nat
    /\ submitted \in Seq(Request)
    /\ started \in Seq(Request)
    /\ wire \in Seq(Request)

LEMMA TypeParts == TypeOK <=> Typed /\ StackOK(stack)
<1>1. TypeOK => Typed BY DEF TypeOK, Typed
<1>2. TypeOK => StackOK(stack)
  <2> SUFFICES ASSUME TypeOK PROVE StackOK(stack) OBVIOUS
  <2>1. \A i \in 1..Len(stack) : stack[i] \in Frame BY DEF TypeOK
  <2> QED BY <2>1 DEF TypeOK, StackOK, WellFormed
<1>3. Typed /\ StackOK(stack) => TypeOK
  BY DEF TypeOK, Typed, StackOK, WellFormed
<1> QED BY <1>1, <1>2, <1>3

LEMMA TypePartsNext == TypeOK' <=> Typed' /\ StackOK(stack')
<1>1. TypeOK' => Typed' BY DEF TypeOK, Typed
<1>2. TypeOK' => StackOK(stack')
  <2> SUFFICES ASSUME TypeOK' PROVE StackOK(stack') OBVIOUS
  <2>1. \A i \in 1..Len(stack') : stack'[i] \in Frame BY DEF TypeOK
  <2> QED BY <2>1 DEF TypeOK, StackOK, WellFormed
<1>3. Typed' /\ StackOK(stack') => TypeOK'
  BY DEF TypeOK, Typed, StackOK, WellFormed
<1> QED BY <1>1, <1>2, <1>3

\* The queue taken over by processRequestQueue is a queue of requests.
LEMMA TakeQueueTyped ==
  ASSUME Typed, NEW below, StackOK(below), TakeQueue(below)
  PROVE  requestQueue' \in Seq(Async) /\ StackOK(stack')
<1>1. requestQueue \in Seq(Request) BY DEF Typed, Request
<1>2. WellFormed(Queue(requestQueue)) BY <1>1, FramesAreWellFormed
<1>3. StackOK(<<Queue(requestQueue)>> \o below) BY <1>2, Push
<1> QED BY <1>3 DEF TakeQueue

LEMMA BlockOnTyped ==
  ASSUME TypeOK, NEW r \in Blocking, BlockOn(r)
  PROVE  TypeOK'
<1>1. Typed /\ StackOK(stack) BY TypeParts
<1>2. r \in Request BY DEF Request
<1>3. StackOK(<<Blocked(r)>> \o stack) BY <1>1, <1>2, FramesAreWellFormed, Push
<1>4. requestQueue' \in Seq(Async) /\ StackOK(stack')
  BY <1>1, <1>3, TakeQueueTyped DEF BlockOn
<1>5. Typed' BY <1>1, <1>2, <1>4 DEF BlockOn, Typed, record
<1>6. TypeOK' <=> Typed' /\ StackOK(stack') BY TypePartsNext
<1> QED BY <1>4, <1>5, <1>6

LEMMA TypeInit == Init => TypeOK
<1> SUFFICES ASSUME Init PROVE TypeOK OBVIOUS
<1>1. outcome \in [Request -> {"none", "done", "failed", "offline"}] BY DEF Init
<1>2. Typed
  <2>1. \A S : <<>> \in Seq(S) OBVIOUS
  <2>2. requestQueue \in Seq(Async) /\ submitted \in Seq(Request)
        /\ started \in Seq(Request) /\ wire \in Seq(Request)
    BY <2>1 DEF Init
  <2> QED BY <1>1, <2>2 DEF Init, Typed
<1>3. StackOK(stack) BY DEF Init, StackOK
<1> QED BY <1>2, <1>3, TypeParts

LEMMA TypeNext == TypeOK /\ [Next]_vars => TypeOK'
<1> USE RequestAssumption
<1> SUFFICES ASSUME TypeOK, [Next]_vars PROVE TypeOK' OBVIOUS
<1>a. Typed /\ StackOK(stack) BY TypeParts
<1>b. TypeOK' <=> Typed' /\ StackOK(stack') BY TypePartsNext
<1>c. ASSUME stack # <<>> PROVE WellFormed(Top) /\ StackOK(Below)
  BY <1>a, <1>c, Pop DEF Top, Below
<1>1. CASE UNCHANGED vars
  BY <1>1, <1>a, <1>b DEF vars, Typed
<1>2. ASSUME NEW r \in Async, SubmitRequest(r) PROVE TypeOK'
  <2>1. StackOK(stack') BY <1>2, <1>a DEF SubmitRequest
  <2>2. r \in Request BY DEF Request
  <2>3. Typed' BY <1>2, <1>a, <2>2 DEF SubmitRequest, Typed, record
  <2> QED BY <2>1, <2>3, <1>b
<1>3. ASSUME NEW r \in Async, SignalQueue(r) PROVE TypeOK'
  <2>1. StackOK(stack') BY <1>3, <1>a DEF SignalQueue
  <2>3. Typed' BY <1>3, <1>a DEF SignalQueue, Typed, record
  <2> QED BY <2>1, <2>3, <1>b
<1>4. ASSUME NEW r \in Blocking, BlockFromThread(r) \/ BlockFromRoutine(r) PROVE TypeOK'
  BY <1>4, BlockOnTyped DEF BlockFromThread, BlockFromRoutine
<1>5. CASE ServeQueue
  <2>1. StackOK(<<>>) BY DEF StackOK
  <2>2. requestQueue' \in Seq(Async) /\ StackOK(stack')
    BY <1>5, <1>a, <2>1, TakeQueueTyped DEF ServeQueue
  <2>3. Typed' BY <1>5, <1>a, <2>2 DEF ServeQueue, Typed, record, submission
  <2> QED BY <2>2, <2>3, <1>b
<1>6. CASE ProcessNext
  <2>1. WellFormed(Top) /\ StackOK(Below) BY <1>6, <1>c DEF ProcessNext, OnTop
  <2>2. Top.local \in Seq(Request) /\ Top.local # <<>>
    BY <1>6, <2>1 DEF ProcessNext, WellFormed, Frame
  <2>3. Head(Top.local) \in Request /\ Tail(Top.local) \in Seq(Request)
    BY <2>2
  <2>4. StackOK(<<Queue(Tail(Top.local))>> \o Below)
    BY <2>1, <2>3, FramesAreWellFormed, Push
  <2>5. WellFormed(Run(Head(Top.local), 0)) BY <2>3, FramesAreWellFormed
  <2>6. StackOK(stack')
    BY <1>6, <2>4, <2>5, Push DEF ProcessNext, StartRequest
  <2>7. Typed'
    BY <1>6, <1>a, <2>3 DEF ProcessNext, StartRequest, Typed, submission
  <2> QED BY <2>6, <2>7, <1>b
<1>7. CASE QueueProcessed
  <2>1. StackOK(stack') BY <1>7, <1>c DEF QueueProcessed, OnTop
  <2>2. Typed' BY <1>7, <1>a DEF QueueProcessed, Typed, submission, record
  <2> QED BY <2>1, <2>2, <1>b
<1>8. CASE ProcessBlocked
  <2>1. WellFormed(Top) /\ StackOK(Below) BY <1>8, <1>c DEF ProcessBlocked, OnTop
  <2>2. Top.req \in Request BY <1>8, <2>1 DEF ProcessBlocked, OnTop, WellFormed
  <2>3. WellFormed(Run(Top.req, 0)) BY <2>2, FramesAreWellFormed
  <2>4. StackOK(stack')
    BY <1>8, <2>1, <2>3, Push DEF ProcessBlocked, StartRequest
  <2>5. Typed'
    BY <1>8, <1>a, <2>2 DEF ProcessBlocked, StartRequest, Typed, submission
  <2> QED BY <2>4, <2>5, <1>b
<1>9. ASSUME OnTop("run") PROVE Top.req \in Request /\ Top.index \in Nat /\ StackOK(Below)
  BY <1>9, <1>c DEF OnTop, WellFormed, Frame
<1>10. CASE FailOffline
  <2>1. StackOK(stack') BY <1>9, <1>10 DEF FailOffline, Complete
  <2>2. Typed' BY <1>9, <1>10, <1>a DEF FailOffline, Complete, Typed, submission
  <2> QED BY <2>1, <2>2, <1>b
<1>11. CASE ExecuteCommand
  <2>1. WellFormed(Run(Top.req, Top.index + 1))
    BY <1>9, <1>11, FramesAreWellFormed DEF ExecuteCommand, Executing
  <2>2. StackOK(stack')
    BY <1>9, <1>11, <2>1, Push DEF ExecuteCommand, Executing
  <2>3. Typed'
    BY <1>9, <1>11, <1>a DEF ExecuteCommand, Executing, Typed, submission
  <2> QED BY <2>2, <2>3, <1>b
<1>12. CASE CommandFails
  <2>1. StackOK(stack') BY <1>9, <1>12 DEF CommandFails, Executing, Complete
  <2>2. Typed'
    BY <1>9, <1>12, <1>a DEF CommandFails, Executing, Complete, Typed, submission
  <2> QED BY <2>1, <2>2, <1>b
<1>13. CASE RequestDone
  <2>1. StackOK(stack') BY <1>9, <1>13 DEF RequestDone, Complete
  <2>2. Typed' BY <1>9, <1>13, <1>a DEF RequestDone, Complete, Typed, submission
  <2> QED BY <2>1, <2>2, <1>b
<1>14. CASE RoutineReturns
  <2>1. StackOK(stack') BY <1>14, <1>c DEF RoutineReturns, OnTop
  <2>2. Typed' BY <1>14, <1>a DEF RoutineReturns, Typed, submission, record
  <2> QED BY <2>1, <2>2, <1>b
<1>15. CASE CallRoutine \/ PreemptRequest
  <2>1. RunRoutine BY <1>15 DEF CallRoutine, PreemptRequest
  <2>2. StackOK(stack') BY <2>1, <1>a, FramesAreWellFormed, Push DEF RunRoutine
  <2>3. Typed' BY <2>1, <1>a DEF RunRoutine, Typed, submission, record
  <2> QED BY <2>2, <2>3, <1>b
<1>16. CASE ChangePower
  <2>1. StackOK(stack') BY <1>16, <1>a DEF ChangePower
  <2>2. Typed' BY <1>16, <1>a DEF ChangePower, Typed, submission, record
  <2> QED BY <2>1, <2>2, <1>b
<1> QED
  BY <1>1, <1>2, <1>3, <1>4, <1>5, <1>6, <1>7, <1>8, <1>10, <1>11, <1>12, <1>13,
     <1>14, <1>15, <1>16
  DEF Next, InGate

\* Every variable of the engine stays in its domain; in particular a frame
\* that runs or waits names a request, and only asynchronous requests are
\* ever on the shared queue.
THEOREM TypeCorrect == Spec => []TypeOK
<1> QED BY TypeInit, TypeNext, PTL DEF Spec

---------------------------------------------------------------------------
(* No request is forgotten on the shared queue. *)

\* A queue that is not empty is known to the work loop or to a submitter
\* that is about to signal it: submitRequest signals after it has dropped the
\* lock, and callers of submitRequestAndBlock drain the same queue.
THEOREM NoRequestForgotten == Spec => []NoForgottenRequest
<1>1. Init => NoForgottenRequest
  BY DEF Init, NoForgottenRequest
<1>2. NoForgottenRequest /\ [Next]_vars => NoForgottenRequest'
  <2> SUFFICES ASSUME NoForgottenRequest, [Next]_vars PROVE NoForgottenRequest'
    OBVIOUS
  <2> USE DEF NoForgottenRequest
  <2>1. ASSUME NEW r \in Async, SubmitRequest(r) PROVE NoForgottenRequest'
    BY <2>1 DEF SubmitRequest
  <2>2. ASSUME NEW r \in Async, SignalQueue(r) PROVE NoForgottenRequest'
    BY <2>2 DEF SignalQueue
  <2>3. ASSUME NEW r \in Blocking, BlockFromThread(r) \/ BlockFromRoutine(r)
        PROVE  NoForgottenRequest'
    BY <2>3 DEF BlockFromThread, BlockFromRoutine, BlockOn, TakeQueue
  <2>4. CASE ServeQueue
    BY <2>4 DEF ServeQueue, TakeQueue
  <2>5. CASE InGate
    BY <2>5 DEF InGate, ProcessNext, QueueProcessed, ProcessBlocked, FailOffline,
       ExecuteCommand, CommandFails, RequestDone, RoutineReturns, submission
  <2>6. CASE CallRoutine \/ PreemptRequest
    BY <2>6 DEF CallRoutine, PreemptRequest, RunRoutine, submission
  <2>7. CASE ChangePower
    BY <2>7 DEF ChangePower, submission
  <2>8. CASE UNCHANGED vars
    BY <2>8 DEF vars
  <2> QED BY <2>1, <2>2, <2>3, <2>4, <2>5, <2>6, <2>7, <2>8 DEF Next
<1> QED BY <1>1, <1>2, PTL DEF Spec

---------------------------------------------------------------------------
(* The shape of the stack when routines that preempt a request do not      *)
(* block.                                                                  *)

\* No frame of s is of this kind.
Without(s, kind) == \A i \in 1..Len(s) : s[i].kind # kind

\* A routine lies on the request it preempts, or at the bottom; on a request
\* lie only routines, on processRequestQueue also the request it executes,
\* and on a blocked caller anything but another one.
Shape(s) ==
    \A i \in 1..Len(s) :
        /\ i < Len(s) /\ s[i].kind = "routine" => s[i + 1].kind = "run"
        /\ \A j \in 1..Len(s) : i < j =>
            /\ s[j].kind = "run" => s[i].kind = "routine"
            /\ s[j].kind = "queue" => s[i].kind \in {"routine", "run"}
            /\ s[j].kind = "blocked" => s[i].kind # "blocked"

\* What may lie directly on the stack s.
FitsOn(f, s) ==
    /\ f.kind = "routine" => s = <<>> \/ s[1].kind = "run"
    /\ f.kind # "routine" => Without(s, "run")
    /\ f.kind \in {"queue", "blocked"} => Without(s, "queue")
    /\ f.kind = "blocked" => Without(s, "blocked")

\* The positions of a stack with a frame pushed on it.
LEMMA PushedAt ==
  ASSUME NEW s, StackOK(s), NEW f, WellFormed(f)
  PROVE  /\ StackOK(<<f>> \o s)
         /\ Len(s) \in Nat
         /\ Len(<<f>> \o s) = Len(s) + 1
         /\ (<<f>> \o s)[1] = f
         /\ \A i \in 1..Len(s) : (<<f>> \o s)[i + 1] = s[i]
         /\ \A i \in 1..(Len(s) + 1) :
                (<<f>> \o s)[i] = IF i = 1 THEN f ELSE s[i - 1]
  BY Push DEF StackOK, WellFormed

\* A stack that is not empty is its innermost frame on the others.
LEMMA PoppedAt ==
  ASSUME NEW s, StackOK(s), s # <<>>
  PROVE  /\ WellFormed(Head(s)) /\ StackOK(Tail(s))
         /\ s = <<Head(s)>> \o Tail(s)
         /\ Head(s) = s[1]
         /\ Len(s) \in Nat \ {0}
         /\ Len(Tail(s)) = Len(s) - 1
         /\ \A i \in 1..(Len(s) - 1) : Tail(s)[i] = s[i + 1]
<1>1. WellFormed(Head(s)) /\ StackOK(Tail(s)) BY Pop
<1>2. Len(s) \in Nat \ {0} /\ Head(s) = s[1] /\ Tail(s) \in Seq(Frame)
  BY DEF StackOK
<1>3. Len(Tail(s)) = Len(s) - 1 /\ \A i \in 1..(Len(s) - 1) : Tail(s)[i] = s[i + 1]
  BY <1>2 DEF StackOK
<1>4. s = <<Head(s)>> \o Tail(s)
  <2>1. StackOK(<<Head(s)>> \o Tail(s)) BY <1>1, Push
  <2>2. /\ Len(<<Head(s)>> \o Tail(s)) = Len(s)
        /\ \A i \in 1..Len(s) :
              (<<Head(s)>> \o Tail(s))[i] = IF i = 1 THEN Head(s) ELSE Tail(s)[i - 1]
    BY <1>1, <1>2, <1>3, PushedAt
  <2>3. \A i \in 1..Len(s) : s[i] = (<<Head(s)>> \o Tail(s))[i]
    BY <2>2, <1>2, <1>3
  <2> QED BY <2>1, <2>2, <2>3, SeqEqual DEF StackOK
<1> QED BY <1>1, <1>2, <1>3, <1>4

\* A frame that fits keeps the shape.
LEMMA PushShape ==
  ASSUME NEW s, StackOK(s), Shape(s), NEW f, WellFormed(f), FitsOn(f, s)
  PROVE  Shape(<<f>> \o s)
<1> DEFINE t == <<f>> \o s
<1>0. /\ Len(s) \in Nat /\ Len(t) = Len(s) + 1
      /\ t[1] = f
      /\ \A i \in 1..(Len(s) + 1) : t[i] = IF i = 1 THEN f ELSE s[i - 1]
  BY PushedAt
<1>k. f.kind \in {"queue", "blocked", "run", "routine"} BY DEF WellFormed, Frame
<1>e. s # <<>> => Len(s) > 0 BY DEF StackOK
<1> HIDE DEF t
<1>1. ASSUME NEW i \in 1..Len(t), i < Len(t), t[i].kind = "routine"
      PROVE  t[i + 1].kind = "run"
  <2>1. CASE i = 1
    BY <1>0, <1>1, <1>e, <2>1 DEF FitsOn
  <2>2. CASE i # 1
    <3>1. i - 1 \in 1..Len(s) /\ i - 1 < Len(s) /\ t[i] = s[i - 1] /\ t[i + 1] = s[i]
      BY <1>0, <1>1, <2>2
    <3>2. (i - 1) + 1 = i OBVIOUS
    <3> QED BY <3>1, <3>2, <1>1 DEF Shape
  <2> QED BY <2>1, <2>2
<1>2. ASSUME NEW i \in 1..Len(t), NEW j \in 1..Len(t), i < j
      PROVE  /\ t[j].kind = "run" => t[i].kind = "routine"
             /\ t[j].kind = "queue" => t[i].kind \in {"routine", "run"}
             /\ t[j].kind = "blocked" => t[i].kind # "blocked"
  <2>0. j - 1 \in 1..Len(s) /\ t[j] = s[j - 1]
    BY <1>0, <1>2
  <2>1. CASE i = 1
    BY <1>0, <1>k, <2>0, <2>1 DEF FitsOn, Without
  <2>2. CASE i # 1
    <3>1. i - 1 \in 1..Len(s) /\ i - 1 < j - 1 /\ t[i] = s[i - 1]
      BY <1>0, <1>2, <2>2
    <3> QED BY <2>0, <3>1 DEF Shape
  <2> QED BY <2>1, <2>2
<1> QED BY <1>1, <1>2 DEF Shape, t

\* The frames below the innermost one keep the shape, and that one fits.
LEMMA PopShape ==
  ASSUME NEW s, StackOK(s), Shape(s), s # <<>>
  PROVE  Shape(Tail(s)) /\ FitsOn(Head(s), Tail(s))
<1> DEFINE b == Tail(s)
<1>0. /\ Len(s) \in Nat \ {0} /\ Len(b) = Len(s) - 1
      /\ Head(s) = s[1] /\ WellFormed(Head(s))
      /\ StackOK(b)
      /\ \A i \in 1..(Len(s) - 1) : b[i] = s[i + 1]
  BY PoppedAt
<1>k. s[1].kind \in {"queue", "blocked", "run", "routine"}
  BY <1>0 DEF WellFormed, Frame
<1>e. b # <<>> => Len(b) > 0 BY <1>0 DEF StackOK
<1> HIDE DEF b
<1>1. ASSUME NEW i \in 1..Len(b), i < Len(b), b[i].kind = "routine"
      PROVE  b[i + 1].kind = "run"
  <2>1. /\ i + 1 \in 1..Len(s) /\ i + 1 < Len(s)
        /\ b[i] = s[i + 1] /\ b[i + 1] = s[(i + 1) + 1]
    BY <1>0, <1>1
  <2> QED BY <2>1, <1>1 DEF Shape
<1>2. ASSUME NEW i \in 1..Len(b), NEW j \in 1..Len(b), i < j
      PROVE  /\ b[j].kind = "run" => b[i].kind = "routine"
             /\ b[j].kind = "queue" => b[i].kind \in {"routine", "run"}
             /\ b[j].kind = "blocked" => b[i].kind # "blocked"
  <2>1. /\ i + 1 \in 1..Len(s) /\ j + 1 \in 1..Len(s) /\ i + 1 < j + 1
        /\ b[i] = s[i + 1] /\ b[j] = s[j + 1]
    BY <1>0, <1>2
  <2> QED BY <2>1 DEF Shape
<1>3. ASSUME NEW j \in 1..Len(b)
      PROVE  /\ b[j].kind = "run" => s[1].kind = "routine"
             /\ b[j].kind = "queue" => s[1].kind \in {"routine", "run"}
             /\ b[j].kind = "blocked" => s[1].kind # "blocked"
  <2>1. /\ 1 \in 1..Len(s) /\ j + 1 \in 1..Len(s) /\ 1 < j + 1 /\ b[j] = s[j + 1]
    BY <1>0
  <2> QED BY <2>1 DEF Shape
<1>4. s[1].kind = "routine" => b = <<>> \/ b[1].kind = "run"
  <2> SUFFICES ASSUME s[1].kind = "routine", b # <<>> PROVE b[1].kind = "run"
    OBVIOUS
  <2>1. 1 \in 1..Len(s) /\ 1 < Len(s) /\ b[1] = s[1 + 1]
    BY <1>0, <1>e
  <2> QED BY <2>1 DEF Shape
<1>5. Shape(b) BY <1>1, <1>2 DEF Shape
<1>6. FitsOn(s[1], b) BY <1>3, <1>4, <1>k DEF FitsOn, Without
<1> QED BY <1>5, <1>6, <1>0 DEF b

\* A frame of another kind leaves a kind absent.
LEMMA PushWithout ==
  ASSUME NEW s, StackOK(s), NEW f, WellFormed(f), NEW kind,
         Without(s, kind), f.kind # kind
  PROVE  Without(<<f>> \o s, kind)
<1> DEFINE t == <<f>> \o s
<1>0. /\ Len(s) \in Nat /\ Len(t) = Len(s) + 1
      /\ \A i \in 1..(Len(s) + 1) : t[i] = IF i = 1 THEN f ELSE s[i - 1]
  BY PushedAt
<1> HIDE DEF t
<1>1. ASSUME NEW i \in 1..Len(t) PROVE t[i].kind # kind
  <2>1. CASE i = 1 BY <1>0, <2>1
  <2>2. CASE i # 1
    <3>1. i - 1 \in 1..Len(s) /\ t[i] = s[i - 1] BY <1>0, <2>2
    <3> QED BY <3>1 DEF Without
  <2> QED BY <2>1, <2>2
<1> QED BY <1>1 DEF Without, t

\* A caller enters the gate only where nothing but a routine is inside it.
LEMMA CallerFitsOn ==
  ASSUME ~Nesting, TypeOK, Shape(stack), NEW r \in Blocking,
         BlockFromThread(r) \/ BlockFromRoutine(r)
  PROVE  /\ Without(stack, "run") /\ Without(stack, "queue")
         /\ Without(stack, "blocked")
<1>a. StackOK(stack) BY TypeParts
<1>1. CASE BlockFromThread(r)
  BY <1>1 DEF BlockFromThread, Without
<1>2. CASE BlockFromRoutine(r)
  <2>1. /\ stack[1].kind = "routine" /\ ~Preempting /\ Len(stack) \in Nat \ {0}
    BY <1>2, <1>a, PoppedAt DEF BlockFromRoutine, OnTop, Top
  <2>2. ~(1 < Len(stack))
    <3> SUFFICES ASSUME 1 < Len(stack) PROVE FALSE OBVIOUS
    <3>1. 1 \in 1..Len(stack) /\ 1 + 1 \in 1..Len(stack) BY <2>1
    <3>2. stack[1 + 1].kind = "run" BY <2>1, <3>1 DEF Shape
    <3> QED BY <3>1, <3>2, <2>1 DEF Preempting
  <2>3. \A i \in 1..Len(stack) : i = 1
    <3>1. Len(stack) \in Nat BY <2>1
    <3> QED BY <3>1, <2>2
  <2> QED BY <2>1, <2>3 DEF Without
<1> QED BY <1>1, <1>2

\* The shape holds of every stack the engine reaches.
LEMMA ShapeNext ==
  ASSUME ~Nesting, TypeOK, Shape(stack), [Next]_vars
  PROVE  Shape(stack')
<1> USE RequestAssumption
<1>a. Typed /\ StackOK(stack) BY TypeParts
<1>b. ASSUME stack # <<>>
      PROVE  /\ WellFormed(Top) /\ StackOK(Below)
             /\ Shape(Below) /\ FitsOn(Top, Below) /\ stack[1] = Top
  BY <1>a, <1>b, PoppedAt, PopShape DEF Top, Below
<1>c. StackOK(<<>>) /\ Shape(<<>>) /\ \A k : Without(<<>>, k)
  BY DEF StackOK, Shape, Without
<1>q. requestQueue \in Seq(Request) BY <1>a DEF Typed, Request
<1>1. ASSUME NEW below, StackOK(below), Shape(below), TakeQueue(below),
             Without(below, "run"), Without(below, "queue")
      PROVE  Shape(stack')
  <2>1. WellFormed(Queue(requestQueue)) BY <1>q, FramesAreWellFormed
  <2>2. FitsOn(Queue(requestQueue), below) BY <1>1 DEF FitsOn, Queue
  <2> QED BY <1>1, <2>1, <2>2, PushShape DEF TakeQueue
<1>2. ASSUME NEW r \in Blocking, BlockFromThread(r) \/ BlockFromRoutine(r)
      PROVE  Shape(stack')
  <2> DEFINE below == <<Blocked(r)>> \o stack
  <2>1. /\ Without(stack, "run") /\ Without(stack, "queue")
        /\ Without(stack, "blocked")
    BY <1>2, CallerFitsOn
  <2>2. r \in Request BY DEF Request
  <2>3. WellFormed(Blocked(r)) BY <2>2, FramesAreWellFormed
  <2>4. FitsOn(Blocked(r), stack) BY <2>1 DEF FitsOn, Blocked
  <2>5. StackOK(below) /\ Shape(below) BY <1>a, <2>3, <2>4, Push, PushShape
  <2>6. Without(below, "run") /\ Without(below, "queue")
    <3>1. Blocked(r).kind # "run" /\ Blocked(r).kind # "queue" BY DEF Blocked
    <3> QED BY <1>a, <2>1, <2>3, <3>1, PushWithout
  <2>7. TakeQueue(below) BY <1>2 DEF BlockFromThread, BlockFromRoutine, BlockOn
  <2> HIDE DEF below
  <2> QED BY <1>1, <2>5, <2>6, <2>7
<1>3. CASE ServeQueue
  BY <1>1, <1>3, <1>c DEF ServeQueue
<1>4. CASE ProcessNext
  <2> DEFINE rest == Queue(Tail(Top.local))
  <2>1. /\ stack # <<>> /\ Top.kind = "queue" /\ Top.local # <<>>
        /\ stack' = <<Run(Head(Top.local), 0)>> \o (<<rest>> \o Below)
    BY <1>4 DEF ProcessNext, OnTop, StartRequest
  <2>2. Top.local \in Seq(Request) BY <2>1, <1>b DEF WellFormed, Frame
  <2>3. Head(Top.local) \in Request /\ Tail(Top.local) \in Seq(Request)
    BY <2>1, <2>2
  <2>4. WellFormed(rest) /\ WellFormed(Run(Head(Top.local), 0))
    BY <2>3, FramesAreWellFormed
  <2>5. FitsOn(rest, Below) /\ Without(Below, "run")
    BY <2>1, <1>b DEF FitsOn, Queue
  <2>6. StackOK(<<rest>> \o Below) /\ Shape(<<rest>> \o Below)
    BY <2>1, <2>4, <2>5, <1>b, Push, PushShape
  <2>7. Without(<<rest>> \o Below, "run")
    <3>1. rest.kind # "run" BY DEF Queue
    <3> HIDE DEF rest
    <3> QED BY <2>1, <2>4, <2>5, <3>1, <1>b, PushWithout
  <2>8. FitsOn(Run(Head(Top.local), 0), <<rest>> \o Below)
    BY <2>7 DEF FitsOn, Run
  <2> QED BY <2>1, <2>4, <2>6, <2>8, PushShape
<1>5. CASE ProcessBlocked
  <2>1. /\ stack # <<>> /\ Top.kind = "blocked"
        /\ stack' = <<Run(Top.req, 0)>> \o Below
    BY <1>5 DEF ProcessBlocked, OnTop, StartRequest
  <2>2. WellFormed(Run(Top.req, 0))
    BY <2>1, <1>b, FramesAreWellFormed DEF WellFormed
  <2>3. FitsOn(Run(Top.req, 0), Below) BY <2>1, <1>b DEF FitsOn, Run
  <2> QED BY <2>1, <2>2, <2>3, <1>b, PushShape
<1>6. CASE ExecuteCommand
  <2>1. /\ stack # <<>> /\ Top.kind = "run"
        /\ stack' = <<Run(Top.req, Top.index + 1)>> \o Below
    BY <1>6 DEF ExecuteCommand, Executing, OnTop
  <2>2. WellFormed(Run(Top.req, Top.index + 1))
    <3>1. Top.req \in Request /\ Top.index \in Nat
      BY <2>1, <1>b DEF WellFormed, Frame
    <3>2. Top.index + 1 \in Nat BY <3>1
    <3> QED BY <3>1, <3>2, FramesAreWellFormed
  <2>3. FitsOn(Run(Top.req, Top.index + 1), Below) BY <2>1, <1>b DEF FitsOn, Run
  <2> QED BY <2>1, <2>2, <2>3, <1>b, PushShape
<1>7. CASE QueueProcessed \/ FailOffline \/ CommandFails \/ RequestDone \/ RoutineReturns
  <2>1. stack # <<>> /\ stack' = Below
    BY <1>7 DEF QueueProcessed, FailOffline, CommandFails, RequestDone,
       RoutineReturns, Executing, OnTop, Complete
  <2> QED BY <2>1, <1>b
<1>8. CASE CallRoutine \/ PreemptRequest
  <2>1. stack' = <<Routine>> \o stack
    BY <1>8 DEF CallRoutine, PreemptRequest, RunRoutine
  <2>2. stack = <<>> \/ stack[1].kind = "run"
    <3>1. CASE CallRoutine BY <3>1 DEF CallRoutine
    <3>2. CASE PreemptRequest BY <3>2, <1>b DEF PreemptRequest, OnTop
    <3> QED BY <1>8, <3>1, <3>2
  <2>3. FitsOn(Routine, stack) BY <2>2 DEF FitsOn, Routine
  <2> QED BY <2>1, <2>3, <1>a, FramesAreWellFormed, PushShape
<1>9. CASE UNCHANGED stack BY <1>9
<1>10. ASSUME NEW r \in Async, SubmitRequest(r) \/ SignalQueue(r)
       PROVE  UNCHANGED stack
  BY <1>10 DEF SubmitRequest, SignalQueue
<1> QED
  BY <1>2, <1>3, <1>4, <1>5, <1>6, <1>7, <1>8, <1>9, <1>10
  DEF Next, InGate, ChangePower, vars

---------------------------------------------------------------------------
(* What the frames stand for. *)

\* A frame of another kind does not change which frame stands for a kind; a
\* frame of a new kind stands for it.
LEMMA FrameOfPush ==
  ASSUME NEW s, StackOK(s), NEW f, WellFormed(f), NEW kind
  PROVE  /\ f.kind # kind => FrameOf(<<f>> \o s, kind) = FrameOf(s, kind)
         /\ f.kind = kind /\ Without(s, kind) => FrameOf(<<f>> \o s, kind) = f
<1> DEFINE t == <<f>> \o s
<1>t. StackOK(t) BY Push
<1>0. /\ Len(s) \in Nat /\ Len(t) = Len(s) + 1
      /\ \A i \in 1..(Len(s) + 1) : t[i] = IF i = 1 THEN f ELSE s[i - 1]
  BY PushedAt
<1> DEFINE F(u) == {g \in Range(u) : g.kind = kind}
<1>1. Range(t) = {t[i] : i \in 1..Len(t)} /\ Range(s) = {s[i] : i \in 1..Len(s)}
  <2>1. DOMAIN t = 1..Len(t) /\ DOMAIN s = 1..Len(s) BY <1>t DEF StackOK
  <2> QED BY <2>1 DEF Range
<1> HIDE DEF t
<1>2. Range(t) = {f} \cup Range(s)
  <2>1. ASSUME NEW g \in Range(t) PROVE g \in {f} \cup Range(s)
    <3>1. PICK i \in 1..Len(t) : g = t[i] BY <1>1
    <3>2. CASE i = 1 BY <1>0, <3>1, <3>2
    <3>3. CASE i # 1
      <4>1. i - 1 \in 1..Len(s) /\ g = s[i - 1] BY <1>0, <3>1, <3>3
      <4> QED BY <4>1, <1>1
    <3> QED BY <3>2, <3>3
  <2>2. f \in Range(t)
    <3>1. 1 \in 1..Len(t) BY <1>0
    <3> QED BY <3>1, <1>0, <1>1
  <2>3. ASSUME NEW g \in Range(s) PROVE g \in Range(t)
    <3>1. PICK i \in 1..Len(s) : g = s[i] BY <1>1
    <3>2. i + 1 \in 1..Len(t) /\ i + 1 # 1 /\ (i + 1) - 1 = i BY <1>0
    <3>3. g = t[i + 1] BY <1>0, <3>1, <3>2
    <3> QED BY <3>2, <3>3, <1>1
  <2> QED BY <2>1, <2>2, <2>3
<1>3. ASSUME f.kind # kind PROVE F(t) = F(s)
  BY <1>2, <1>3
<1>4. ASSUME f.kind = kind, Without(s, kind) PROVE F(t) = {f}
  BY <1>1, <1>2, <1>4 DEF Without
<1>p. \A u : FrameOf(u, kind) = IF F(u) = {} THEN Routine ELSE CHOOSE g \in F(u) : TRUE
  BY DEF FrameOf
<1> HIDE DEF F
<1>5. f.kind # kind => FrameOf(t, kind) = FrameOf(s, kind)
  BY <1>3, <1>p
<1>6. f.kind = kind /\ Without(s, kind) => FrameOf(t, kind) = f
  BY <1>4, <1>p
<1> QED BY <1>5, <1>6 DEF t

\* Where there is no frame of a kind, none stands for it.
LEMMA FrameOfNone ==
  ASSUME NEW s, StackOK(s), NEW kind, Without(s, kind)
  PROVE  FrameOf(s, kind) = Routine
<1>1. DOMAIN s = 1..Len(s) BY DEF StackOK
<1>2. {g \in Range(s) : g.kind = kind} = {} BY <1>1 DEF Range, Without
<1> QED BY <1>2 DEF FrameOf

\* The frame that stands for a kind is a frame.
LEMMA FrameOfTyped ==
  ASSUME NEW s, StackOK(s), NEW kind
  PROVE  WellFormed(FrameOf(s, kind))
<1>1. \A g \in Range(s) : WellFormed(g)
  <2>1. DOMAIN s = 1..Len(s) BY DEF StackOK
  <2> QED BY <2>1 DEF StackOK, Range
<1>2. WellFormed(Routine) BY FramesAreWellFormed
<1> QED BY <1>1, <1>2 DEF FrameOf

---------------------------------------------------------------------------
(* Every step of the engine is one of the abstract server's or leaves what *)
(* the server sees alone.                                                  *)

\* What a frame pushed on a stack adds to the requests still to be started.
LEMMA PendingPush ==
  ASSUME NEW s, StackOK(s), NEW f, WellFormed(f)
  PROVE  /\ f.kind \notin {"queue", "blocked"} =>
                /\ Pending(<<f>> \o s) = Pending(s)
                /\ Caller(<<f>> \o s) = Caller(s)
         /\ f.kind = "queue" /\ Without(s, "queue") =>
                Pending(<<f>> \o s) = f.local \o Caller(s)
         /\ f.kind = "blocked" /\ Without(s, "blocked") => Caller(<<f>> \o s) = <<f.req>>
<1>1. ASSUME NEW kind, f.kind # kind
      PROVE  FrameOf(<<f>> \o s, kind) = FrameOf(s, kind)
  BY <1>1, FrameOfPush
<1>2. ASSUME NEW kind, f.kind = kind, Without(s, kind)
      PROVE  FrameOf(<<f>> \o s, kind) = f
  BY <1>2, FrameOfPush
<1>3. ASSUME f.kind = "blocked" PROVE f.req # Nobody
  BY <1>3, RequestAssumption DEF WellFormed
<1>4. ASSUME f.kind \notin {"queue", "blocked"}
      PROVE  Pending(<<f>> \o s) = Pending(s) /\ Caller(<<f>> \o s) = Caller(s)
  <2>1. f.kind # "queue" /\ f.kind # "blocked" BY <1>4
  <2>2. /\ FrameOf(<<f>> \o s, "queue") = FrameOf(s, "queue")
        /\ FrameOf(<<f>> \o s, "blocked") = FrameOf(s, "blocked")
    BY <1>1, <2>1
  <2> QED BY <2>2 DEF Pending, Caller
<1>5. ASSUME f.kind = "queue", Without(s, "queue")
      PROVE  Pending(<<f>> \o s) = f.local \o Caller(s)
  BY <1>1, <1>2, <1>5 DEF Pending, Caller
<1>6. ASSUME f.kind = "blocked", Without(s, "blocked")
      PROVE  Caller(<<f>> \o s) = <<f.req>>
  BY <1>2, <1>3, <1>6 DEF Caller
<1> QED BY <1>4, <1>5, <1>6

\* Without a queue, the caller's request is all there is; without a caller,
\* nothing is.
LEMMA PendingNone ==
  ASSUME NEW s, StackOK(s), Without(s, "queue")
  PROVE  /\ Caller(s) \in Seq(Request)
         /\ Pending(s) = Caller(s)
         /\ Without(s, "blocked") => Caller(s) = <<>>
<1>1. FrameOf(s, "queue") = Routine BY FrameOfNone
<1>2. WellFormed(FrameOf(s, "blocked")) BY FrameOfTyped
<1>3. Caller(s) \in Seq(Request) BY <1>2 DEF Caller, WellFormed, Frame
<1>4. Pending(s) = <<>> \o Caller(s)
  <2>1. FrameOf(s, "queue").local = <<>> BY <1>1 DEF Routine
  <2> QED BY <2>1 DEF Pending
<1>5. Without(s, "blocked") => Caller(s) = <<>> BY FrameOfNone DEF Caller, Routine
<1> QED BY <1>3, <1>4, <1>5

\* The types of what the server sees.
LEMMA ServerTyped ==
  ASSUME TypeOK
  PROVE  /\ Pending(stack) \in Seq(Request)
         /\ requestQueue \in Seq(Request)
         /\ Waiting \in Seq(Request)
         /\ Current \in Request \cup {Nobody}
<1>1. StackOK(stack) /\ Typed BY TypeParts
<1>2. \A k : WellFormed(FrameOf(stack, k)) BY <1>1, FrameOfTyped
<1>3. Caller(stack) \in Seq(Request) BY <1>2 DEF Caller, WellFormed, Frame
<1>4. FrameOf(stack, "queue").local \in Seq(Request) BY <1>2 DEF WellFormed, Frame
<1>5. Pending(stack) \in Seq(Request) BY <1>3, <1>4 DEF Pending
<1>6. requestQueue \in Seq(Request) BY <1>1 DEF Typed, Request
<1>7. Current \in Request \cup {Nobody} BY <1>2 DEF Current, WellFormed, Frame
<1> QED BY <1>5, <1>6, <1>7 DEF Waiting

\* A request is submitted.
Submits(r) ==
    /\ Unsubmitted(r)
    /\ Waiting' = Append(Waiting, r)
    /\ submitted' = Append(submitted, r)
    /\ UNCHANGED <<Current, record>>

\* The oldest request is taken up.
Begins(r) ==
    /\ Current = Nobody
    /\ Waiting # <<>>
    /\ r = Head(Waiting)
    /\ Waiting' = Tail(Waiting)
    /\ Current' = r
    /\ started' = Append(started, r)
    /\ UNCHANGED <<submitted, wire, outcome>>

\* At most one command of the current request goes out.
Works ==
    /\ \/ UNCHANGED wire
       \/ Current # Nobody /\ wire' = Append(wire, Current)
    /\ UNCHANGED <<Waiting, submitted, started>>

\* The current request is answered.
Answers(result) ==
    /\ Current # Nobody
    /\ Current' = Nobody
    /\ outcome' = [outcome EXCEPT ![Current] = result]
    /\ Works

\* The server's step that a step of the engine is.
ServerStep ==
    \/ \E r \in Request : Submits(r)
    \/ \E r \in Request : Begins(r)
    \/ \E result \in {"done", "failed", "offline"} : Answers(result)
    \/ Works /\ UNCHANGED <<Current, outcome>>

\* Three facts about sequences of requests.
LEMMA AppendLast ==
  ASSUME NEW p \in Seq(Request), NEW q \in Seq(Request), NEW r \in Request
  PROVE  p \o Append(q, r) = Append(p \o q, r)
<1>1. Append(q, r) = q \o <<r>> /\ Append(p \o q, r) = (p \o q) \o <<r>>
  BY AppendIsConcat
<1> QED BY <1>1, ConcatAssociative

LEMMA HeadOfConcat ==
  ASSUME NEW l \in Seq(Request), l # <<>>, NEW q \in Seq(Request)
  PROVE  /\ l \o q # <<>> /\ Head(l \o q) = Head(l) /\ Tail(l \o q) = Tail(l) \o q
         /\ Head(l) \in Request /\ Tail(l) \in Seq(Request)
<1>1. Head(l) \in Request /\ Tail(l) \in Seq(Request) BY HeadTailProperties
<1>2. Len(l) \in Nat \ {0} /\ Len(q) \in Nat /\ Len(l \o q) = Len(l) + Len(q)
  OBVIOUS
<1>3. l \o q # <<>> /\ Head(l \o q) = Head(l) BY <1>2
<1>4. Tail(l \o q) = Tail(l) \o q
  <2>1. l \o q \in Seq(Request) OBVIOUS
  <2>2. /\ Tail(l \o q) \in Seq(Request)
        /\ Len(Tail(l \o q)) = Len(l \o q) - 1
        /\ \A i \in 1..Len(Tail(l \o q)) : Tail(l \o q)[i] = (l \o q)[i + 1]
    BY <1>3, <2>1, HeadTailProperties
  <2>3. /\ Len(Tail(l)) = Len(l) - 1
        /\ \A i \in 1..Len(Tail(l)) : Tail(l)[i] = l[i + 1]
    BY HeadTailProperties
  <2>4. /\ Tail(l) \o q \in Seq(Request)
        /\ Len(Tail(l) \o q) = Len(Tail(l)) + Len(q)
        /\ \A i \in 1..Len(Tail(l)) + Len(q) : (Tail(l) \o q)[i] =
               IF i <= Len(Tail(l)) THEN Tail(l)[i] ELSE q[i - Len(Tail(l))]
    BY <1>1, ConcatProperties
  <2>5. \A i \in 1..Len(l) + Len(q) :
            (l \o q)[i] = IF i <= Len(l) THEN l[i] ELSE q[i - Len(l)]
    BY ConcatProperties
  <2>6. Len(Tail(l \o q)) = Len(Tail(l) \o q) BY <1>2, <2>2, <2>3, <2>4
  <2>7. ASSUME NEW i \in 1..Len(Tail(l \o q))
        PROVE  Tail(l \o q)[i] = (Tail(l) \o q)[i]
    <3>1. i + 1 \in 1..(Len(l) + Len(q)) BY <1>2, <2>2
    <3>2. i - Len(Tail(l)) = (i + 1) - Len(l) BY <1>2, <2>3
    <3>3. i <= Len(Tail(l)) <=> i + 1 <= Len(l) BY <1>2, <2>3
    <3>4. i \in 1..(Len(Tail(l)) + Len(q)) BY <1>2, <2>2, <2>3
    <3>5. CASE i <= Len(Tail(l))
      <4>1. i \in 1..Len(Tail(l)) BY <3>5, <3>4, <1>2, <2>3
      <4> QED BY <2>2, <2>3, <2>4, <2>5, <3>1, <3>3, <3>4, <3>5, <4>1
    <3>6. CASE ~(i <= Len(Tail(l)))
      BY <2>2, <2>4, <2>5, <3>1, <3>2, <3>3, <3>4, <3>6
    <3> QED BY <3>5, <3>6
  <2> QED BY <2>2, <2>4, <2>6, <2>7, SeqEqual
<1> QED BY <1>1, <1>3, <1>4

LEMMA BlockOnSubmits ==
  ASSUME ~Nesting, TypeOK, Shape(stack), NEW r \in Blocking,
         BlockFromThread(r) \/ BlockFromRoutine(r)
  PROVE  Submits(r)
<1> DEFINE s1 == <<Blocked(r)>> \o stack
<1>a. Typed /\ StackOK(stack) BY TypeParts
<1>1. /\ BlockOn(r)
      /\ Without(stack, "run") /\ Without(stack, "queue") /\ Without(stack, "blocked")
  BY CallerFitsOn DEF BlockFromThread, BlockFromRoutine
<1>2. r \in Request BY DEF Request
<1>3. /\ WellFormed(Blocked(r))
      /\ Blocked(r).kind = "blocked" /\ Blocked(r).req = r
  BY <1>2, FramesAreWellFormed DEF Blocked
<1>4. StackOK(s1) /\ Without(s1, "queue") /\ Without(s1, "run")
  BY <1>a, <1>1, <1>3, Push, PushWithout
<1>5. Caller(s1) = <<r>> BY <1>a, <1>1, <1>3, PendingPush
<1> HIDE DEF s1
<1>6. requestQueue \in Seq(Request) /\ WellFormed(Queue(requestQueue))
      /\ Queue(requestQueue).kind = "queue" /\ Queue(requestQueue).local = requestQueue
  BY <1>a, ServerTyped, FramesAreWellFormed DEF Queue
<1>7. stack' = <<Queue(requestQueue)>> \o s1 /\ requestQueue' = <<>>
  BY <1>1 DEF BlockOn, TakeQueue, s1
<1>8. Pending(stack') = requestQueue \o <<r>>
  BY <1>4, <1>5, <1>6, <1>7, PendingPush
<1>9. Waiting' = Append(requestQueue, r)
  <2>1. Waiting' = (requestQueue \o <<r>>) \o <<>> BY <1>7, <1>8 DEF Waiting
  <2> QED BY <2>1, <1>2, <1>6, ConcatEmptySeq, AppendIsConcat
<1>10. Waiting = requestQueue
  <2>1. Pending(stack) = <<>> BY <1>1, <1>a, PendingNone
  <2> QED BY <2>1, <1>6, ConcatEmptySeq DEF Waiting
<1>11. Current = Nobody /\ Current' = Nobody
  <2>1. Without(stack', "run") BY <1>4, <1>6, <1>7, PushWithout
  <2>2. StackOK(stack') BY <1>4, <1>6, <1>7, Push
  <2> QED BY <2>1, <2>2, <1>1, <1>a, FrameOfNone DEF Current, Routine
<1> QED BY <1>1, <1>9, <1>10, <1>11 DEF Submits, BlockOn, record

LEMMA StartBegins ==
  ASSUME TypeOK, Shape(stack), ProcessNext \/ ProcessBlocked
  PROVE  \E r \in Request : Begins(r)
<1>a. Typed /\ StackOK(stack) BY TypeParts
<1>b. /\ stack # <<>> /\ WellFormed(Top) /\ StackOK(Below) /\ stack = <<Top>> \o Below
      /\ Shape(Below) /\ FitsOn(Top, Below)
  BY <1>a, PoppedAt, PopShape DEF Top, Below, ProcessNext, ProcessBlocked, OnTop
<1>q. requestQueue \in Seq(Request) BY ServerTyped
<1>r. Current = Nobody
  <2>1. Top.kind # "run" /\ Without(Below, "run")
    BY <1>b DEF ProcessNext, ProcessBlocked, OnTop, FitsOn
  <2>2. Without(stack, "run") BY <2>1, <1>b, PushWithout
  <2> QED BY <2>2, <1>a, FrameOfNone DEF Current, Routine
\* A stack with the request's frame on it.
<1>s. ASSUME NEW r \in Request, NEW s, StackOK(s), Without(s, "run"),
             stack' = <<Run(r, 0)>> \o s
      PROVE  Current' = r /\ Pending(stack') = Pending(s)
  <2>1. WellFormed(Run(r, 0)) /\ Run(r, 0).kind = "run" /\ Run(r, 0).req = r
    BY FramesAreWellFormed DEF Run
  <2>2. FrameOf(stack', "run") = Run(r, 0) BY <1>s, <2>1, FrameOfPush
  <2>3. Run(r, 0).kind \notin {"queue", "blocked"} BY <2>1
  <2> QED BY <1>s, <2>1, <2>2, <2>3, PendingPush DEF Current
<1>1. CASE ProcessNext
  <2> DEFINE l    == Top.local
             r    == Head(l)
             rest == Queue(Tail(l))
             s    == <<rest>> \o Below
             c    == Caller(Below) \o requestQueue
  <2>1. /\ Top.kind = "queue" /\ l # <<>>
        /\ stack' = <<Run(r, 0)>> \o s
        /\ started' = Append(started, r)
        /\ UNCHANGED <<requestQueue, submitted, wire, outcome>>
    BY <1>1 DEF ProcessNext, OnTop, StartRequest, submission
  <2>2. l \in Seq(Request) BY <1>b DEF WellFormed, Frame
  <2>3. r \in Request /\ Tail(l) \in Seq(Request) BY <2>1, <2>2, HeadTailProperties
  <2>4. WellFormed(rest) /\ rest.kind = "queue" /\ rest.local = Tail(l)
    BY <2>3, FramesAreWellFormed DEF Queue
  <2>5. Without(Below, "queue") /\ Without(Below, "run")
    BY <2>1, <1>b DEF FitsOn
  <2>6. Caller(Below) \in Seq(Request) BY <2>5, <1>b, PendingNone
  <2>7. c \in Seq(Request) BY <2>6, <1>q
  <2> HIDE DEF l, r, rest
  <2>8. Pending(stack) = l \o Caller(Below)
    <3>1. l = Top.local BY DEF l
    <3> QED BY <3>1, <2>1, <2>5, <1>b, PendingPush
  <2>9. StackOK(s) /\ Without(s, "run") /\ Pending(s) = Tail(l) \o Caller(Below)
    BY <2>4, <2>5, <1>b, Push, PushWithout, PendingPush
  <2> HIDE DEF s
  <2>10. Current' = r /\ Pending(stack') = Tail(l) \o Caller(Below)
    BY <1>s, <2>1, <2>3, <2>9
  <2>11. Waiting = l \o c
    BY <2>2, <2>6, <2>8, <1>q, ConcatAssociative DEF Waiting
  <2>12. Waiting' = Tail(l) \o c
    <3>1. Waiting' = (Tail(l) \o Caller(Below)) \o requestQueue
      BY <2>1, <2>10 DEF Waiting
    <3> QED BY <3>1, <2>3, <2>6, <1>q, ConcatAssociative
  <2> HIDE DEF c
  <2>13. Waiting # <<>> /\ r = Head(Waiting) /\ Waiting' = Tail(Waiting)
    BY <2>1, <2>2, <2>7, <2>11, <2>12, HeadOfConcat DEF r
  <2>14. Begins(r) BY <2>1, <2>10, <2>13, <1>r DEF Begins
  <2> QED BY <2>3, <2>14
<1>2. CASE ProcessBlocked
  <2> DEFINE r == Top.req
  <2>1. /\ Top.kind = "blocked"
        /\ stack' = <<Run(r, 0)>> \o Below
        /\ started' = Append(started, r)
        /\ UNCHANGED <<requestQueue, submitted, wire, outcome>>
    BY <1>2 DEF ProcessBlocked, OnTop, StartRequest, submission
  <2>2. r \in Request BY <2>1, <1>b DEF WellFormed
  <2>3. /\ Without(Below, "queue") /\ Without(Below, "run")
        /\ Without(Below, "blocked")
    BY <2>1, <1>b DEF FitsOn
  <2>4. Pending(Below) = <<>> BY <2>3, <1>b, PendingNone
  <2>5. Caller(stack) = <<r>>
    <3>1. r = Top.req OBVIOUS
    <3> HIDE DEF r
    <3> QED BY <3>1, <2>1, <2>3, <1>b, PendingPush
  <2>6. Without(stack, "queue")
    <3>1. Top.kind # "queue" BY <2>1
    <3> QED BY <3>1, <2>3, <1>b, PushWithout
  <2>7. Pending(stack) = <<r>> BY <2>5, <2>6, <1>a, PendingNone
  <2> HIDE DEF r
  <2>8. Current' = r /\ Pending(stack') = <<>> BY <1>s, <1>b, <2>1, <2>2, <2>3, <2>4
  <2>9. Waiting = <<r>> \o requestQueue /\ Waiting' = requestQueue
    BY <2>1, <2>7, <2>8, <1>q, ConcatEmptySeq DEF Waiting
  <2>10. Waiting # <<>> /\ r = Head(Waiting) /\ Waiting' = Tail(Waiting)
    <3>1. <<r>> \in Seq(Request) /\ <<r>> # <<>> /\ Head(<<r>>) = r /\ Tail(<<r>>) = <<>>
      BY <2>2
    <3>2. /\ <<r>> \o requestQueue # <<>> /\ Head(<<r>> \o requestQueue) = r
          /\ Tail(<<r>> \o requestQueue) = <<>> \o requestQueue
      BY <3>1, <1>q, HeadOfConcat
    <3> QED BY <2>9, <3>2, <1>q, ConcatEmptySeq
  <2>11. Begins(r) BY <2>1, <2>8, <2>10, <1>r DEF Begins
  <2> QED BY <2>2, <2>11
<1> QED BY <1>1, <1>2

\* The engine's steps, one by one.
LEMMA ServerSteps ==
  ASSUME ~Nesting, TypeOK, Shape(stack), [Next]_vars
  PROVE  ServerStep
<1>a. Typed /\ StackOK(stack) BY TypeParts
<1>b. ASSUME stack # <<>>
      PROVE  /\ WellFormed(Top) /\ StackOK(Below) /\ stack = <<Top>> \o Below
             /\ FitsOn(Top, Below)
  BY <1>a, <1>b, PoppedAt, PopShape DEF Top, Below
<1>q. requestQueue \in Seq(Request) BY ServerTyped
\* The innermost frame is a run: the request is the current one.
<1>c. ASSUME OnTop("run")
      PROVE  /\ Current = Top.req /\ Current # Nobody /\ Without(Below, "run")
             /\ Pending(stack) = Pending(Below) /\ stack # <<>>
             /\ FrameOf(Below, "run").req = Nobody
  <2>1. stack # <<>> /\ Top.kind = "run" /\ Without(Below, "run")
    BY <1>b, <1>c DEF OnTop, FitsOn
  <2>2. FrameOf(stack, "run") = Top BY <2>1, <1>b, FrameOfPush
  <2>3. Current = Top.req /\ Current # Nobody
    BY <2>1, <2>2, <1>b, RequestAssumption DEF Current, WellFormed
  <2>4. Pending(stack) = Pending(Below)
    <3>1. Top.kind \notin {"queue", "blocked"} BY <2>1
    <3> QED BY <3>1, <2>1, <1>b, PendingPush
  <2>5. FrameOf(Below, "run").req = Nobody
    BY <2>1, <1>b, FrameOfNone DEF Routine
  <2> QED BY <2>1, <2>3, <2>4, <2>5
<1>1. ASSUME NEW r \in Async, SubmitRequest(r) PROVE ServerStep
  <2>1. r \in Request BY DEF Request
  <2>2. Waiting' = Append(Waiting, r)
    <3>1. Waiting' = Pending(stack) \o Append(requestQueue, r)
      BY <1>1 DEF SubmitRequest, Waiting
    <3> QED BY <3>1, <2>1, <1>q, ServerTyped, AppendLast DEF Waiting
  <2>3. Current' = Current BY <1>1 DEF SubmitRequest, Current
  <2>4. Submits(r) BY <1>1, <2>2, <2>3 DEF SubmitRequest, Submits
  <2> QED BY <2>1, <2>4 DEF ServerStep
<1>2. ASSUME NEW r \in Blocking, BlockFromThread(r) \/ BlockFromRoutine(r)
      PROVE  ServerStep
  <2>1. Submits(r) BY <1>2, BlockOnSubmits
  <2>2. r \in Request BY DEF Request
  <2> QED BY <2>1, <2>2 DEF ServerStep
<1>3. CASE ServeQueue
  <2>1. /\ stack = <<>> /\ stack' = <<Queue(requestQueue)>> \o <<>>
        /\ requestQueue' = <<>> /\ UNCHANGED <<submitted, started, wire, outcome>>
    BY <1>3 DEF ServeQueue, TakeQueue, submission, record
  <2>2. StackOK(<<>>) /\ \A k : Without(<<>>, k) BY DEF StackOK, Without
  <2>3. WellFormed(Queue(requestQueue)) /\ Queue(requestQueue).kind = "queue"
        /\ Queue(requestQueue).local = requestQueue
    BY <1>q, FramesAreWellFormed DEF Queue
  <2>4. Caller(<<>>) = <<>> /\ Pending(<<>>) = <<>> BY <2>2, PendingNone
  <2>5. Pending(stack') = requestQueue \o <<>>
    BY <2>1, <2>2, <2>3, <2>4, PendingPush
  <2>6. Waiting = <<>> \o requestQueue BY <2>1, <2>4 DEF Waiting
  <2>7. Waiting' = (requestQueue \o <<>>) \o <<>> BY <2>1, <2>5 DEF Waiting
  <2>8. Waiting' = Waiting BY <2>6, <2>7, <1>q, ConcatEmptySeq
  <2>9. FrameOf(stack', "run") = FrameOf(stack, "run")
    <3>1. Queue(requestQueue).kind # "run" BY <2>3
    <3> QED BY <3>1, <2>1, <2>2, <2>3, FrameOfPush
  <2>10. Current' = Current BY <2>9 DEF Current
  <2> QED BY <2>1, <2>8, <2>10 DEF ServerStep, Works
<1>4. CASE ProcessNext \/ ProcessBlocked
  BY <1>4, StartBegins DEF ServerStep
<1>5. CASE QueueProcessed
  <2>1. /\ stack # <<>> /\ Top.kind = "queue" /\ Top.local = <<>>
        /\ stack' = Below /\ UNCHANGED <<requestQueue, submitted, started, wire, outcome>>
    BY <1>5 DEF QueueProcessed, OnTop, submission, record
  <2>2. Without(Below, "queue") /\ Without(Below, "run")
    BY <2>1, <1>b DEF FitsOn
  <2>3. Pending(stack) = <<>> \o Caller(Below)
    <3>1. Pending(<<Top>> \o Below) = Top.local \o Caller(Below)
      BY <2>1, <2>2, <1>b, PendingPush
    <3> QED BY <3>1, <2>1, <1>b
  <2>4. Pending(Below) = Caller(Below) /\ Caller(Below) \in Seq(Request)
    BY <2>1, <2>2, <1>b, PendingNone
  <2>5. Waiting' = Waiting
    <3>1. Pending(stack') = Pending(stack) BY <2>1, <2>3, <2>4, ConcatEmptySeq
    <3> QED BY <3>1, <2>1 DEF Waiting
  <2>6. FrameOf(stack', "run") = FrameOf(stack, "run")
    <3>1. Top.kind # "run" BY <2>1
    <3>2. FrameOf(<<Top>> \o Below, "run") = FrameOf(Below, "run")
      BY <3>1, <2>1, <1>b, FrameOfPush
    <3> QED BY <3>2, <2>1, <1>b
  <2>7. Current' = Current BY <2>6 DEF Current
  <2> QED BY <2>1, <2>5, <2>7 DEF ServerStep, Works
\* A request that ends: its frame is dropped.
<1>6. ASSUME OnTop("run"), NEW result \in {"done", "failed", "offline"},
             Complete(result), UNCHANGED <<requestQueue, submitted, started>>,
             wire' = wire \/ wire' = Append(wire, Top.req)
      PROVE  ServerStep
  <2>1. Current' = Nobody /\ Waiting' = Waiting
    BY <1>6, <1>c DEF Complete, Current, Waiting
  <2>2. outcome' = [outcome EXCEPT ![Current] = result]
    BY <1>6, <1>c DEF Complete
  <2>3. Answers(result) BY <1>6, <1>c, <2>1, <2>2 DEF Answers, Works
  <2> QED BY <2>3 DEF ServerStep
<1>7. CASE FailOffline
  BY <1>6, <1>7 DEF FailOffline, submission
<1>8. CASE CommandFails
  BY <1>6, <1>8 DEF CommandFails, Executing, submission
<1>9. CASE RequestDone
  BY <1>6, <1>9 DEF RequestDone, submission
<1>10. CASE ExecuteCommand
  <2> DEFINE f == Run(Top.req, Top.index + 1)
  <2>1. /\ OnTop("run") /\ wire' = Append(wire, Top.req) /\ stack' = <<f>> \o Below
        /\ UNCHANGED <<requestQueue, submitted, started, outcome>>
    BY <1>10 DEF ExecuteCommand, Executing, submission
  <2>2. Top.req \in Request /\ Top.index \in Nat
    BY <2>1, <1>b DEF OnTop, WellFormed, Frame
  <2>3. Top.index + 1 \in Nat BY <2>2
  <2>4. WellFormed(f) BY <2>2, <2>3, FramesAreWellFormed
  <2>5. f.kind = "run" /\ f.req = Top.req BY DEF Run
  <2> HIDE DEF f
  <2>6. f.kind \notin {"queue", "blocked"} BY <2>5
  <2>7. Pending(stack') = Pending(Below) BY <2>1, <2>4, <2>6, <1>b, <1>c, PendingPush
  <2>8. FrameOf(stack', "run") = f BY <2>1, <2>4, <2>5, <1>b, <1>c, FrameOfPush
  <2>9. Waiting' = Waiting BY <2>1, <2>7, <1>c DEF Waiting
  <2>10. Current' = Current BY <2>1, <2>5, <2>8, <1>c DEF Current
  <2>11. Current # Nobody /\ wire' = Append(wire, Current) BY <2>1, <1>c
  <2> QED BY <2>1, <2>9, <2>10, <2>11 DEF ServerStep, Works
\* A routine comes or goes.
<1>11. ASSUME StackOK(stack'), Pending(stack') = Pending(stack),
              FrameOf(stack', "run") = FrameOf(stack, "run"),
              UNCHANGED <<requestQueue, submitted, started, wire, outcome>>
       PROVE  ServerStep
  BY <1>11 DEF ServerStep, Works, Waiting, Current
<1>12. CASE CallRoutine \/ PreemptRequest
  <2>1. /\ stack' = <<Routine>> \o stack
        /\ UNCHANGED <<requestQueue, submitted, started, wire, outcome>>
    BY <1>12 DEF CallRoutine, PreemptRequest, RunRoutine, submission, record
  <2>2. WellFormed(Routine) /\ Routine.kind # "run"
        /\ Routine.kind \notin {"queue", "blocked"}
    BY FramesAreWellFormed DEF Routine
  <2>3. /\ StackOK(stack') /\ Pending(stack') = Pending(stack)
        /\ FrameOf(stack', "run") = FrameOf(stack, "run")
    BY <2>1, <2>2, <1>a, Push, PendingPush, FrameOfPush
  <2> QED BY <2>1, <2>3, <1>11
<1>13. CASE RoutineReturns
  <2>1. /\ stack # <<>> /\ Top.kind = "routine" /\ stack' = Below
        /\ UNCHANGED <<requestQueue, submitted, started, wire, outcome>>
    BY <1>13 DEF RoutineReturns, OnTop, submission, record
  <2>2. Top.kind # "run" /\ Top.kind \notin {"queue", "blocked"} BY <2>1
  <2>3. Pending(stack) = Pending(Below) BY <2>1, <2>2, <1>b, PendingPush
  <2>4. FrameOf(stack, "run") = FrameOf(Below, "run")
    <3>1. FrameOf(<<Top>> \o Below, "run") = FrameOf(Below, "run")
      BY <2>1, <2>2, <1>b, FrameOfPush
    <3> QED BY <3>1, <2>1, <1>b
  <2> QED BY <2>1, <2>3, <2>4, <1>b, <1>11
<1>14. ASSUME UNCHANGED <<requestQueue, stack, submitted, started, wire, outcome>>
       PROVE  ServerStep
  BY <1>14 DEF ServerStep, Works, Waiting, Current
<1>15. ASSUME NEW r \in Async, SignalQueue(r) PROVE ServerStep
  BY <1>14, <1>15 DEF SignalQueue, record
<1>16. CASE ChangePower
  BY <1>14, <1>16 DEF ChangePower, submission, record
<1>17. CASE UNCHANGED vars
  BY <1>14, <1>17 DEF vars
<1> QED
  BY <1>1, <1>2, <1>3, <1>4, <1>5, <1>7, <1>8, <1>9, <1>10, <1>12, <1>13, <1>15,
     <1>16, <1>17
  DEF Next, InGate

---------------------------------------------------------------------------
(* Order and atomicity. *)

Distinct(s) == \A i, j \in 1..Len(s) : i # j => s[i] # s[j]

Occurs(r, s) == \E i \in 1..Len(s) : s[i] = r

\* Once the last of s occurs in w, nothing else follows.
LastAtEnd(w, s) ==
    \A i, j \in 1..Len(w) : i < j /\ w[i] = s[Len(s)] => w[j] = s[Len(s)]

\* Requests are taken up in the order of submission, each once; the one in
\* execution is the latest, commands went out only for requests that were
\* taken up, and those of the latest are the latest.
OrderInv ==
    /\ Distinct(submitted)
    /\ submitted = started \o Waiting
    /\ Current # Nobody => started # <<>> /\ Current = started[Len(started)]
    /\ \A r \in Request : outcome[r] # "none" => Occurs(r, started)
    /\ \A k \in 1..Len(wire) : Occurs(wire[k], started)
    /\ LastAtEnd(wire, started)
    /\ Atomic

LEMMA OrderInit == Init => OrderInv
<1> SUFFICES ASSUME Init PROVE OrderInv OBVIOUS
<1>1. StackOK(stack) /\ \A k : Without(stack, k) BY DEF Init, StackOK, Without
<1>2. Pending(stack) = <<>> BY <1>1, PendingNone
<1>3. Current = Nobody BY <1>1, FrameOfNone DEF Current, Routine
<1>4. Waiting = <<>> BY <1>2, ConcatEmptySeq DEF Waiting, Init
<1>5. submitted = started \o Waiting BY <1>4, ConcatEmptySeq DEF Init
<1>6. \A r \in Request : outcome[r] = "none" BY DEF Init
<1>7. Len(submitted) = 0 /\ Len(wire) = 0 BY DEF Init
<1> QED BY <1>3, <1>5, <1>6, <1>7 DEF OrderInv, Distinct, Atomic, LastAtEnd

LEMMA OrderNext ==
  ASSUME TypeOK, TypeOK', OrderInv, ServerStep
  PROVE  OrderInv'
<1> USE RequestAssumption
<1>t. /\ submitted \in Seq(Request) /\ started \in Seq(Request) /\ wire \in Seq(Request)
      /\ outcome \in [Request -> {"none", "done", "failed", "offline"}]
      /\ Waiting \in Seq(Request) /\ Current \in Request \cup {Nobody}
  BY ServerTyped DEF TypeOK
<1>l. Len(submitted) \in Nat /\ Len(started) \in Nat /\ Len(wire) \in Nat
  BY <1>t
<1>1. ASSUME NEW r \in Request, Submits(r) PROVE OrderInv'
  <2>1. /\ Unsubmitted(r) /\ submitted' = Append(submitted, r)
        /\ Waiting' = Append(Waiting, r)
        /\ Current' = Current /\ started' = started /\ wire' = wire /\ outcome' = outcome
    BY <1>1 DEF Submits, record
  <2>2. Distinct(submitted')
    <3>1. \A i \in 1..Len(submitted) : submitted[i] # r
      BY <2>1 DEF Unsubmitted, Contains
    <3>2. /\ Len(submitted') = Len(submitted) + 1
          /\ \A i \in 1..Len(submitted) : submitted'[i] = submitted[i]
          /\ submitted'[Len(submitted) + 1] = r
      BY <2>1, <1>t, AppendProperties
    <3>3. \A i, j \in 1..Len(submitted) : i # j => submitted[i] # submitted[j]
      BY DEF OrderInv, Distinct
    <3>4. \A i \in 1..Len(submitted') : i \in 1..Len(submitted) \/ i = Len(submitted) + 1
      BY <3>2, <1>l
    <3> QED BY <3>1, <3>2, <3>3, <3>4 DEF Distinct
  <2>3. submitted' = started' \o Waiting'
    <3>1. submitted = started \o Waiting BY DEF OrderInv
    <3>2. started \o Append(Waiting, r) = Append(started \o Waiting, r)
      BY <1>t, <1>1, AppendLast
    <3> QED BY <2>1, <3>1, <3>2
  <2>4. Atomic' BY <2>1 DEF OrderInv, Atomic
  <2> QED BY <2>1, <2>2, <2>3, <2>4 DEF OrderInv
<1>2. ASSUME NEW r \in Request, Begins(r) PROVE OrderInv'
  <2>1. /\ Waiting # <<>> /\ r = Head(Waiting) /\ Waiting' = Tail(Waiting)
        /\ Current' = r /\ started' = Append(started, r)
        /\ submitted' = submitted /\ wire' = wire /\ outcome' = outcome
    BY <1>2 DEF Begins
  <2>2. submitted = started \o Waiting /\ Distinct(submitted) BY DEF OrderInv
  <2>3. submitted' = started' \o Waiting'
    <3>1. Waiting = <<r>> \o Tail(Waiting) /\ Tail(Waiting) \in Seq(Request)
      BY <2>1, <1>t
    <3>2. started' = started \o <<r>> BY <2>1, <1>t, AppendIsConcat
    <3>3. (started \o <<r>>) \o Tail(Waiting) = started \o (<<r>> \o Tail(Waiting))
      <4>1. started \in Seq(Request) /\ <<r>> \in Seq(Request) BY <1>t
      <4> QED BY <3>1, <4>1, ConcatAssociative
    <3> QED BY <2>1, <2>2, <3>1, <3>2, <3>3
  <2>4. /\ Len(started') = Len(started) + 1
        /\ \A i \in 1..Len(started) : started'[i] = started[i]
        /\ started'[Len(started) + 1] = r
    BY <2>1, <1>t, AppendProperties
  <2>5. ~Occurs(r, started)
    <3> SUFFICES ASSUME NEW i \in 1..Len(started), started[i] = r PROVE FALSE
      BY DEF Occurs
    <3>1. Len(Waiting) \in Nat \ {0} /\ Waiting[1] = r BY <2>1, <1>t
    <3>2. Len(submitted) = Len(started) + Len(Waiting) BY <2>2, <1>t
    <3>3. submitted[i] = r BY <2>2, <1>t
    <3>4. submitted[Len(started) + 1] = r
      <4>1. Len(started) + 1 \in 1..(Len(started) + Len(Waiting))
            /\ ~(Len(started) + 1 <= Len(started))
            /\ (Len(started) + 1) - Len(started) = 1
        BY <3>1, <1>l
      <4> QED BY <4>1, <3>1, <2>2, <1>t, ConcatProperties
    <3>5. /\ i \in 1..Len(submitted) /\ Len(started) + 1 \in 1..Len(submitted)
          /\ i # Len(started) + 1
      BY <3>1, <3>2, <1>l
    <3> QED BY <2>2, <3>3, <3>4, <3>5 DEF Distinct
  <2>6. \A q : Occurs(q, started) => Occurs(q, started')
    <3> SUFFICES ASSUME NEW q, Occurs(q, started) PROVE Occurs(q, started') OBVIOUS
    <3>1. PICK i \in 1..Len(started) : started[i] = q BY DEF Occurs
    <3>2. i \in 1..Len(started') /\ started'[i] = q BY <2>4, <3>1, <1>l
    <3> QED BY <3>2 DEF Occurs
  <2>7. LastAtEnd(wire', started')
    <3>1. \A k \in 1..Len(wire) : wire[k] # started'[Len(started')]
      <4>1. started'[Len(started')] = r BY <2>4
      <4>2. \A k \in 1..Len(wire) : Occurs(wire[k], started) BY DEF OrderInv
      <4> QED BY <4>1, <4>2, <2>5
    <3> QED BY <3>1, <2>1 DEF LastAtEnd
  <2>8. Current' = started'[Len(started')] /\ started' # <<>>
    BY <2>1, <2>4, <1>l, <1>t
  <2>9. \A q \in Request : outcome'[q] # "none" => Occurs(q, started')
    BY <2>1, <2>6 DEF OrderInv
  <2>10. \A k \in 1..Len(wire') : Occurs(wire'[k], started')
    BY <2>1, <2>6 DEF OrderInv
  <2>11. Atomic' BY <2>1 DEF OrderInv, Atomic
  <2> QED
    <3>1. Distinct(submitted') BY <2>1, <2>2
    <3> QED BY <2>3, <2>7, <2>8, <2>9, <2>10, <2>11, <3>1 DEF OrderInv
\* The order is left alone; at most a command of the latest request goes out.
<1>3. ASSUME Works
      PROVE  /\ Distinct(submitted') /\ submitted' = started' \o Waiting'
             /\ started' = started
             /\ \A k \in 1..Len(wire') : Occurs(wire'[k], started')
             /\ LastAtEnd(wire', started')
             /\ Atomic'
  <2>1. Waiting' = Waiting /\ submitted' = submitted /\ started' = started
    BY <1>3 DEF Works
  <2>3. Distinct(submitted') /\ submitted' = started' \o Waiting'
    BY <2>1 DEF OrderInv
  <2>4. CASE wire' = wire
    <3>1. Atomic' BY <2>4 DEF OrderInv, Atomic
    <3> QED BY <2>1, <2>3, <2>4, <3>1 DEF OrderInv
  <2>5. CASE Current # Nobody /\ wire' = Append(wire, Current)
    <3>1. /\ Len(wire') = Len(wire) + 1
          /\ \A k \in 1..Len(wire) : wire'[k] = wire[k]
          /\ wire'[Len(wire) + 1] = Current
      BY <2>5, <1>t, AppendProperties
    <3>2. Current = started[Len(started)] /\ started # <<>> BY <2>5 DEF OrderInv
    <3>3. Occurs(Current, started)
      <4>1. Len(started) \in 1..Len(started) BY <3>2, <1>t
      <4> QED BY <4>1, <3>2 DEF Occurs
    <3>4. \A k \in 1..Len(wire') : k \in 1..Len(wire) \/ k = Len(wire) + 1
      BY <3>1, <1>l
    <3>5. \A k \in 1..Len(wire') : Occurs(wire'[k], started)
      BY <3>1, <3>3, <3>4 DEF OrderInv
    <3>6. ASSUME NEW i \in 1..Len(wire'), NEW j \in 1..Len(wire'), i < j
          PROVE  i \in 1..Len(wire) /\ wire'[i] = wire[i]
      <4>1. i \in 1..Len(wire) BY <3>1, <3>6, <1>l
      <4> QED BY <4>1, <3>1
    <3>7. ASSUME NEW i \in 1..Len(wire'), NEW j \in 1..Len(wire'), i < j,
                 wire'[i] = Current
          PROVE  wire'[j] = Current
      <4>1. i \in 1..Len(wire) /\ wire[i] = Current BY <3>6, <3>7
      <4>2. CASE j \in 1..Len(wire)
        BY <4>1, <4>2, <3>1, <3>2, <3>7 DEF OrderInv, LastAtEnd
      <4>3. CASE j = Len(wire) + 1 BY <4>3, <3>1
      <4> QED BY <4>2, <4>3, <3>4
    <3>8. ASSUME NEW i \in 1..Len(wire'), NEW j \in 1..Len(wire'),
                 NEW k \in 1..Len(wire'), i < j, j < k, wire'[i] = wire'[k]
          PROVE  wire'[j] = wire'[i]
      <4>1. i \in 1..Len(wire) /\ j \in 1..Len(wire)
            /\ wire'[i] = wire[i] /\ wire'[j] = wire[j]
        BY <3>6, <3>8
      <4>2. CASE k \in 1..Len(wire)
        BY <4>1, <4>2, <3>1, <3>8 DEF OrderInv, Atomic
      <4>3. CASE k = Len(wire) + 1
        BY <4>3, <3>1, <3>7, <3>8
      <4> QED BY <4>2, <4>3, <3>4
    <3>9. Atomic' BY <3>8 DEF Atomic
    <3>10. LastAtEnd(wire', started') BY <2>1, <3>2, <3>7 DEF LastAtEnd
    <3> QED BY <2>1, <2>3, <3>5, <3>9, <3>10
  <2> QED BY <1>3, <2>4, <2>5 DEF Works
<1>4. ASSUME NEW result \in {"done", "failed", "offline"}, Answers(result)
      PROVE  OrderInv'
  <2>1. /\ Works /\ Current # Nobody /\ Current' = Nobody
        /\ outcome' = [outcome EXCEPT ![Current] = result]
    BY <1>4 DEF Answers
  <2>2. Occurs(Current, started)
    <3>1. started # <<>> /\ Current = started[Len(started)] BY <2>1 DEF OrderInv
    <3>2. Len(started) \in 1..Len(started) BY <3>1, <1>t
    <3> QED BY <3>1, <3>2 DEF Occurs
  <2>3. \A q \in Request : outcome'[q] # "none" => Occurs(q, started)
    BY <2>1, <2>2, <1>t DEF OrderInv
  <2>4. started' = started BY <2>1, <1>3
  <2> QED BY <2>1, <2>3, <2>4, <1>3 DEF OrderInv
<1>5. ASSUME Works, UNCHANGED <<Current, outcome>> PROVE OrderInv'
  BY <1>3, <1>5 DEF OrderInv
<1> QED BY <1>1, <1>2, <1>4, <1>5 DEF ServerStep

\* The inductive invariant of the engine without nested requests.
EngineInv == TypeOK /\ Shape(stack) /\ OrderInv

LEMMA EngineInvariant ==
  ASSUME ~Nesting
  PROVE  Spec => []EngineInv
<1>1. Init => EngineInv
  <2>1. Init => Shape(stack) BY DEF Init, Shape
  <2> QED BY <2>1, TypeInit, OrderInit DEF EngineInv
<1>2. EngineInv /\ [Next]_vars => EngineInv'
  BY TypeNext, ShapeNext, ServerSteps, OrderNext DEF EngineInv
<1> QED BY <1>1, <1>2, PTL DEF Spec

\* The commands of one request are not interleaved with another's, as long
\* as routines that preempt a request do not block on one of their own:
\* every command sent belongs to the request processRequest took up last.
THEOREM RequestsAreAtomic ==
  ASSUME ~Nesting
  PROVE  Spec => []Atomic
<1>1. EngineInv => Atomic BY DEF EngineInv, OrderInv
<1> QED BY <1>1, EngineInvariant, PTL

\* Requests are taken up in the order of their submission, whichever way
\* they came: a caller first drains the shared queue, and nobody enters
\* between processRequestQueue's local queue and that caller's request.
THEOREM RequestsInOrder ==
  ASSUME ~Nesting
  PROVE  Spec => []InSubmissionOrder
<1>1. EngineInv => InSubmissionOrder
  <2> SUFFICES ASSUME EngineInv PROVE InSubmissionOrder OBVIOUS
  <2>1. /\ submitted \in Seq(Request) /\ started \in Seq(Request)
        /\ Waiting \in Seq(Request) /\ submitted = started \o Waiting
    BY ServerTyped DEF EngineInv, TypeOK, OrderInv
  <2>2. Len(started) \in Nat /\ Len(started) <= Len(submitted)
    BY <2>1
  <2>3. \A i \in 1..Len(started) : submitted[i] = started[i]
    BY <2>1
  <2>4. SubSeq(started, 1, Len(started)) = SubSeq(submitted, 1, Len(started))
    <3>1. /\ SubSeq(started, 1, Len(started)) = started
      BY <2>1, SubSeqFull
    <3> QED BY <2>1, <2>2, <2>3, <3>1
  <2> QED BY <2>2, <2>4 DEF InSubmissionOrder, IsPrefix
<1> QED BY <1>1, EngineInvariant, PTL

\* The engine implements the abstract server of AtomicRequests: requests
\* wait in the order of submission, are executed one at a time, and each is
\* answered once it was executed.
THEOREM EngineImplementsServer ==
  ASSUME ~Nesting
  PROVE  Spec => ImplementsServer
<1>1. Init => Server!Init
  <2> SUFFICES ASSUME Init PROVE Server!Init OBVIOUS
  <2>1. StackOK(stack) /\ \A k : Without(stack, k) BY DEF Init, StackOK, Without
  <2>2. Pending(stack) = <<>> BY <2>1, PendingNone
  <2>3. Current = Nobody BY <2>1, FrameOfNone DEF Current, Routine
  <2>4. Waiting = <<>> BY <2>2, ConcatEmptySeq DEF Waiting, Init
  <2>5. {r \in Request : outcome[r] # "none"} = {} BY DEF Init
  <2> QED BY <2>3, <2>4, <2>5 DEF Server!Init
<1>2. EngineInv /\ [Next]_vars => [Server!Next]_(Server!vars)
  <2> SUFFICES ASSUME EngineInv, [Next]_vars
               PROVE  Server!Next \/ UNCHANGED Server!vars
    OBVIOUS
  <2>0. ServerStep BY ServerSteps DEF EngineInv
  <2>t. /\ submitted \in Seq(Request) /\ started \in Seq(Request)
        /\ outcome \in [Request -> {"none", "done", "failed", "offline"}]
        /\ Waiting \in Seq(Request) /\ Current \in Request \cup {Nobody}
    BY ServerTyped DEF EngineInv, TypeOK
  <2>1. ASSUME NEW r \in Request, Submits(r) PROVE Server!Submit(r)
    <3>1. /\ Waiting' = Append(Waiting, r) /\ Current' = Current
          /\ outcome' = outcome
          /\ \A i \in 1..Len(submitted) : submitted[i] # r
      BY <2>1 DEF Submits, record, Unsubmitted, Contains
    <3>2. submitted = started \o Waiting BY DEF EngineInv, OrderInv
    <3>3. /\ Len(started) \in Nat /\ Len(Waiting) \in Nat
          /\ Len(submitted) = Len(started) + Len(Waiting)
          /\ DOMAIN Waiting = 1..Len(Waiting)
      BY <2>t, <3>2
    <3>4. ~Occurs(r, started)
      <4>1. \A i \in 1..Len(started) : i \in 1..Len(submitted) BY <3>3
      <4>2. \A i \in 1..Len(started) : submitted[i] = started[i] BY <2>t, <3>2
      <4> QED BY <4>1, <4>2, <3>1 DEF Occurs
    <3>5. \A i \in DOMAIN Waiting : Waiting[i] # r
      <4> SUFFICES ASSUME NEW i \in 1..Len(Waiting), Waiting[i] = r PROVE FALSE
        BY <3>3
      <4>1. /\ Len(started) + i \in 1..(Len(started) + Len(Waiting))
            /\ ~(Len(started) + i <= Len(started))
            /\ (Len(started) + i) - Len(started) = i
        BY <3>3
      <4>2. submitted[Len(started) + i] = r
        BY <4>1, <2>t, <3>2, ConcatProperties
      <4> QED BY <4>1, <4>2, <3>1, <3>3
    <3>6. r \notin {q \in Request : outcome[q] # "none"}
      BY <3>4 DEF EngineInv, OrderInv
    <3>7. r # Current
      <4> SUFFICES ASSUME r = Current PROVE FALSE OBVIOUS
      <4>1. started # <<>> /\ Current = started[Len(started)]
        BY RequestAssumption DEF EngineInv, OrderInv
      <4>2. Len(started) \in 1..Len(started) BY <4>1, <2>t
      <4> QED BY <4>1, <4>2, <3>4 DEF Occurs
    <3> QED BY <3>1, <3>5, <3>6, <3>7 DEF Server!Submit
  <2>2. ASSUME NEW r \in Request, Begins(r) PROVE Server!Begin
    BY <2>2 DEF Begins, Server!Begin
  <2>3. ASSUME NEW result \in {"done", "failed", "offline"}, Answers(result)
        PROVE  Server!Answer
    <3>1. /\ Current # Nobody /\ Current' = Nobody /\ Waiting' = Waiting
          /\ outcome' = [outcome EXCEPT ![Current] = result]
      BY <2>3 DEF Answers, Works
    <3>2. {q \in Request : outcome'[q] # "none"}
            = {q \in Request : outcome[q] # "none"} \cup {Current}
      <4>1. Current \in Request BY <3>1, <2>t
      <4>2. \A q \in Request : outcome'[q] = IF q = Current THEN result ELSE outcome[q]
        BY <3>1, <2>t
      <4>3. result # "none" OBVIOUS
      <4> QED BY <4>1, <4>2, <4>3
    <3> QED BY <3>1, <3>2 DEF Server!Answer
  <2>4. ASSUME Works, UNCHANGED <<Current, outcome>> PROVE UNCHANGED Server!vars
    BY <2>4 DEF Works, Server!vars
  <2> QED BY <2>0, <2>1, <2>2, <2>3, <2>4 DEF ServerStep, Server!Next
<1> QED BY <1>1, <1>2, EngineInvariant, PTL DEF Spec, ImplementsServer, Server!Spec
=============================================================================
