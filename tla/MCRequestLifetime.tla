------------------------- MODULE MCRequestLifetime -------------------------
(* Small instances of RequestLifetime for TLC. *)
EXTENDS RequestLifetime, TLC

CONSTANTS t1, t2, c1, c2

Symmetric == Permutations({t1, t2}) \cup Permutations({c1, c2})
=============================================================================
