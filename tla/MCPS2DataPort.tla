--------------------------- MODULE MCPS2DataPort ---------------------------
(* Small instances of PS2DataPort for TLC. *)
EXTENDS PS2DataPort, TLC

\* One stream talks enough to fill the three slots of a read and mismatch a
\* fourth time, the other enough to fill and overflow a one-place queue.
SentBoth == [d \in Device |-> IF d = "Mouse" THEN 4 ELSE 2]

\* Enough for interrupts and reads to interleave, for liveness.
SentFew == [d \in Device |-> IF d = "Keyboard" THEN 2 ELSE 1]

ValueSymmetry == Permutations(Value)
=============================================================================
