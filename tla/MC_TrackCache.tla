----------------------------- MODULE MC_TrackCache -----------------------------
(* TrackCache on a small instance: see the .cfg files for the constants.   *)
EXTENDS TrackCache, TLC

Symmetry == Permutations(Addr) \cup Permutations(Paths) \cup Permutations(Decks)
================================================================================
