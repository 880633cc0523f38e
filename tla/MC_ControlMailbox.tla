--------------------------- MODULE MC_ControlMailbox ---------------------------
(* ControlMailbox on a small instance: see the .cfg files for the          *)
(* constants.                                                              *)
EXTENDS ControlMailbox, TLC

================================================================================
