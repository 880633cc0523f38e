-------------------------------- MODULE DeckCues --------------------------------
(***************************************************************************)
(* The cue points of a deck and its punch (deck.c, cues.c), on top of the  *)
(* two fields of the player that they read and write: the position on the  *)
(* record and the offset of the track on it.  A jump to a cue point moves  *)
(* the offset; a punch remembers how to move it back.                      *)
(*                                                                         *)
(* The operators take a deck and are conjoined with an event by Dicer.     *)
(***************************************************************************)
EXTENDS Integers

CONSTANTS
  Decks,
  Buttons,    (* the labels of cue points in use                           *)
  Positions,  (* where the needle is put                                   *)
  Offsets,    (* bound: offsets of the track considered                    *)
  Punches,    (* bound: punches considered                                 *)
  CueOffset,  (* --cue-offset, to which a load returns the offset          *)
  HUGE_VAL    (* CUE_UNSET and NO_PUNCH                                    *)

ASSUME CuesAssumption ==
  /\ Positions \subseteq Int /\ Offsets \subseteq Int /\ Punches \subseteq Int
  /\ CueOffset \in Offsets /\ CueOffset \in Positions
  /\ HUGE_VAL \notin Int

CUE_UNSET == HUGE_VAL
NO_PUNCH == HUGE_VAL

VARIABLES
  position, offset,   (* of the deck's player                              *)
  cues,               (* cues[d][label]                                    *)
  punch,
  home                (* history: the offset that the punch left, or       *)
                      (* HUGE_VAL if something else moved it since         *)

deckVars == <<position, offset, cues, punch, home>>

InitCues ==
  /\ position = [d \in Decks |-> CueOffset]
  /\ offset = [d \in Decks |-> CueOffset]
  /\ cues = [d \in Decks |-> [b \in Buttons |-> CUE_UNSET]]
  /\ punch = [d \in Decks |-> NO_PUNCH]
  /\ home = [d \in Decks |-> HUGE_VAL]

Elapsed(d) == position[d] - offset[d]              (* player_get_elapsed() *)

(* player_seek_to()                                                        *)
SeekTo(d, seconds) ==
  /\ position[d] - seconds \in Offsets                       (* bound      *)
  /\ offset' = [offset EXCEPT ![d] = position[d] - seconds]

SetCue(d, b, to) == cues' = [cues EXCEPT ![d][b] = to]

(* deck_unset_cue()                                                        *)
UnsetCue(d, b) ==
  /\ SetCue(d, b, CUE_UNSET)
  /\ UNCHANGED <<position, offset, punch, home>>

(* deck_cue()                                                              *)
Cue(d, b) ==
  \/ /\ cues[d][b] = CUE_UNSET
     /\ SetCue(d, b, Elapsed(d))
     /\ UNCHANGED <<position, offset, punch, home>>
  \/ /\ cues[d][b] # CUE_UNSET
     /\ SeekTo(d, cues[d][b])
     /\ home' = [home EXCEPT ![d] = HUGE_VAL]
     /\ UNCHANGED <<position, cues, punch>>

(* Mutant: a second punch does not take the first one into account.        *)
PunchInTwice(d, b) ==
  \/ /\ cues[d][b] = CUE_UNSET
     /\ SetCue(d, b, Elapsed(d))
     /\ UNCHANGED <<position, offset, punch, home>>
  \/ /\ cues[d][b] # CUE_UNSET
     /\ SeekTo(d, cues[d][b])
     /\ punch' = [punch EXCEPT ![d] = cues[d][b] - Elapsed(d)]
     /\ home' = [home EXCEPT ![d] = IF punch[d] = NO_PUNCH THEN offset[d] ELSE @]
     /\ UNCHANGED <<position, cues>>

(* deck_punch_in(): where playback would be without a punch that is under  *)
(* way is where the new one departs from.                                  *)
Unpunched(d) ==
  IF punch[d] = NO_PUNCH THEN Elapsed(d) ELSE Elapsed(d) - punch[d]

PunchIn(d, b) ==
  \/ /\ cues[d][b] = CUE_UNSET
     /\ SetCue(d, b, Elapsed(d))
     /\ UNCHANGED <<position, offset, punch, home>>
  \/ /\ cues[d][b] # CUE_UNSET
     /\ cues[d][b] - Unpunched(d) \in Punches               (* bound      *)
     /\ SeekTo(d, cues[d][b])
     /\ punch' = [punch EXCEPT ![d] = cues[d][b] - Unpunched(d)]
     /\ home' = [home EXCEPT ![d] = IF punch[d] = NO_PUNCH THEN offset[d] ELSE @]
     /\ UNCHANGED <<position, cues>>

(* deck_punch_out()                                                        *)
PunchOut(d) ==
  \/ /\ punch[d] = NO_PUNCH
     /\ UNCHANGED deckVars
  \/ /\ punch[d] # NO_PUNCH
     /\ SeekTo(d, Elapsed(d) - punch[d])
     /\ punch' = [punch EXCEPT ![d] = NO_PUNCH]
     /\ home' = [home EXCEPT ![d] = HUGE_VAL]
     /\ UNCHANGED <<position, cues>>

(* player_collect(): the needle or the pitch has moved the position.       *)
MovePosition(d) ==
  /\ \E to \in Positions : position' = [position EXCEPT ![d] = to]
  /\ UNCHANGED <<offset, cues, punch, home>>

(* What else moves the offset: a load and RELATIVE OFF put it back, recue  *)
(* makes the position the start.  None looks at the cue points or the      *)
(* punch.                                                                  *)
MoveOffset(d) ==
  /\ \E to \in {CueOffset, position[d]} \cap Offsets :
       offset' = [offset EXCEPT ![d] = to]
  /\ home' = [home EXCEPT ![d] = HUGE_VAL]
  /\ UNCHANGED <<position, cues, punch>>

CuesTypeOK ==
  /\ position \in [Decks -> Positions]
  /\ offset \in [Decks -> Offsets]
  /\ cues \in [Decks -> [Buttons -> Int \cup {CUE_UNSET}]]
  /\ punch \in [Decks -> Punches \cup {NO_PUNCH}]
  /\ home \in [Decks -> Offsets \cup {HUGE_VAL}]

(* However many punches overlap, wherever the record moves meanwhile, a    *)
(* punch ends where playback would have been without it, unless something  *)
(* other than a punch moved the offset (deck_punch_in, deck_punch_out).    *)
PunchReturns ==
  [][\A d \in Decks :
       (punch[d] # NO_PUNCH /\ punch'[d] = NO_PUNCH /\ home[d] # HUGE_VAL)
         => offset'[d] = home[d]]_deckVars
=============================================================================
