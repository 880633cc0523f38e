------------------------------ MODULE MC_Engine -------------------------------
(* Bounds of the model checking run of Engine.                             *)
EXTENDS Engine

CONSTANTS a1, j1, j2

(* A deck on a sound card between two decks of JACK. *)
ThreeDecks == <<j1, a1, j2>>
===============================================================================
