--------------------------- MODULE MC_ControlSocket ---------------------------
(* Streams of three bytes with a buffer of two: lines of one byte, a line   *)
(* that just fits, the end of a line that does not come, and one that does  *)
(* not fit.                                                                 *)
EXTENDS ControlSocket

MCStreams == {{1, 2}, {1, 3}, {3}}
=============================================================================
