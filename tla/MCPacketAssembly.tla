--------------------------- MODULE MCPacketAssembly ---------------------------
(* The decoders that differ in how they treat bytes and unknown packets. *)
EXTENDS PacketAssembly

MCPads ==
    {[size |-> 6, crc |-> FALSE, corrects |-> FALSE, unknown |-> {"counted"}],          \* ELAN v3
     [size |-> 6, crc |-> TRUE,  corrects |-> TRUE,  unknown |-> {"counted", "tried"}], \* ELAN v4
     [size |-> 6, crc |-> FALSE, corrects |-> FALSE, unknown |-> {"tried"}],            \* FocalTech
     [size |-> 3, crc |-> FALSE, corrects |-> FALSE, unknown |-> {}]}                   \* mouse
================================================================================
