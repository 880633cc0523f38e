----------------------------- MODULE MC_RigLoop ------------------------------
(* Bounds of the model checking runs of RigLoop.                           *)
EXTENDS RigLoop, TLC

CONSTANTS t1, c1

(* A track that is longer than the longest that fits, by a sample and a half,
   and a scan of a few bytes. *)
TwoOutputs == t1 :> 7 @@ c1 :> 4

(* Two lines in one read and one over two, and a line that fills the buffer. *)
TwoTexts == {{1, 2, 4}, {4}}
==============================================================================
