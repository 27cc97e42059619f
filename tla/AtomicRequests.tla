--------------------------- MODULE AtomicRequests ---------------------------
(***************************************************************************)
(* What the drivers are promised of the request engine (the notes on       *)
(* PS2Request in ApplePS2Device.h): requests wait in the order in which    *)
(* they were submitted, are executed one at a time, and each is answered   *)
(* once.                                                                   *)
(***************************************************************************)
EXTENDS Sequences

CONSTANTS Request,   \* the requests that may be submitted
          Nobody     \* no request

VARIABLES
    waiting,   \* submitted and not begun, oldest first
    current,   \* being executed
    answered   \* completed or failed

vars == <<waiting, current, answered>>

Init ==
    /\ waiting = <<>>
    /\ current = Nobody
    /\ answered = {}

Submit(r) ==
    /\ r \notin answered /\ r # current
    /\ \A i \in DOMAIN waiting : waiting[i] # r
    /\ waiting' = Append(waiting, r)
    /\ UNCHANGED <<current, answered>>

Begin ==
    /\ current = Nobody
    /\ waiting # <<>>
    /\ current' = Head(waiting)
    /\ waiting' = Tail(waiting)
    /\ UNCHANGED answered

Answer ==
    /\ current # Nobody
    /\ answered' = answered \cup {current}
    /\ current' = Nobody
    /\ UNCHANGED waiting

Next == Begin \/ Answer \/ \E r \in Request : Submit(r)

Spec == Init /\ [][Next]_vars
=============================================================================
