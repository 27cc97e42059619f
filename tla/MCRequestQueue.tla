--------------------------- MODULE MCRequestQueue ---------------------------
(* Small instances of RequestQueue for TLC. *)
EXTENDS RequestQueue, TLC

\* Every request writes once and reads once: enough for another request, or
\* a routine, to come in between.
TwoCommands == [r \in Request |-> 2]
=============================================================================
