-------------------------------- MODULE MC_Dicer --------------------------------
(* One deck, on the left unit, and a button per unit.  obuf has room for    *)
(* all the LEDs at once, as in dicer.c (180 bytes), and for none that       *)
(* changes while a write is incomplete.                                     *)
EXTENDS Dicer

MCPositions == 0 .. 1
MCOffsets == 0 .. 1
MCPunches == -1 .. 1
MCOrder == <<<<"left", 1>>, <<"right", 1>> >>
=============================================================================
