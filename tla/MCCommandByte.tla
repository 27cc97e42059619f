---------------------------- MODULE MCCommandByte ----------------------------
(* Small instances of CommandByte for TLC. *)
EXTENDS CommandByte, TLC

CONSTANTS Keyboard, Touchpad

\* The bits the drivers change, and the system flag that nobody changes.
Bits == {"kbdIRQ", "mouseIRQ", "system", "kbdOff", "mouseOff", "translate"}

\* Keyboard driver: IRQ and translation on, clock on; touchpad driver: the same
\* for the mouse.
SetOf == (Keyboard :> {"kbdIRQ", "translate"}) @@ (Touchpad :> {"mouseIRQ"})
ClearOf == (Keyboard :> {"kbdOff"}) @@ (Touchpad :> {"mouseOff"})

FirstByte == {"system", "kbdOff", "mouseOff"}

\* Three scan codes: Q, W and I down (hexadecimal 10, 11 and 17).
ScanCodes == {{"kbdOff"}, {"kbdIRQ", "kbdOff"},
              {"kbdIRQ", "mouseIRQ", "system", "kbdOff"}}
NoStrays  == {}
=============================================================================
