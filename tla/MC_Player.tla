------------------------------- MODULE MC_Player -------------------------------
(* Bounds of the model checking runs of Player.                            *)
EXTENDS Player

Positions == -1..2
ThreePitches == {-1, 0, 1}
OneSecond == {1}
OneLoop == {<<0, 2>>}
=============================================================================
