---------------------------- MODULE MCPacketPath ----------------------------
(***************************************************************************)
(* Four modems for TLC.  Three have the MAC header enabled: one sends to   *)
(* the second, the second to a fourth node, and the third broadcasts.  The *)
(* last has it disabled.  Each can overhear all of them, itself included.  *)
(***************************************************************************)
EXTENDS PacketPath

CONSTANTS buoy, ship, glider, diver

Modems  == {buoy, ship, glider, diver}
Mac     == [m \in Modems |-> m # diver]
Sources == [m \in Modems |-> CASE m = buoy -> 1 [] m = ship -> 15
                               [] m = glider -> 4 [] OTHER -> 2]
Dests   == [m \in Modems |-> CASE m = buoy -> 15 [] m = ship -> 2
                               [] m = glider -> 0 [] OTHER -> 1]

Payloads == {<<7>>, <<241, 0>>}
=============================================================================
