--------------------------- MODULE MCPowerControl ---------------------------
(* Small instances of PowerControl for TLC. *)
EXTENDS PowerControl, TLC

\* The scan code of Q (hexadecimal 10) reads as a disabled keyboard clock.
ScanOfQ == {"kbdOff"}
=============================================================================
