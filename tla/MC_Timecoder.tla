---------------------------- MODULE MC_Timecoder ----------------------------
(* Bounds of the model checking runs of Timecoder.                         *)
EXTENDS Timecoder

(* Two sides of a record whose registers run opposite ways, one of them wired
   the way Traktor's are. *)
TwoSides == <<
  [bits |-> 3, seed |-> {0}, taps |-> {1}, length |-> 4,
   phase |-> FALSE, primary |-> FALSE, polarity |-> FALSE],
  [bits |-> 3, seed |-> {0, 2}, taps |-> {2}, length |-> 2,
   phase |-> TRUE, primary |-> TRUE, polarity |-> TRUE] >>

ThreeLandings == {0, 12, 24}
=============================================================================
