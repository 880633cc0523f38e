------------------------------ MODULE DeckRequests ------------------------------
(***************************************************************************)
(* What a deck's control socket promises about the requests it accepts     *)
(* (LOAD, UNLOAD and TIMECODE), with the worker thread, its lock and the   *)
(* slots of the mailbox left out.                                          *)
(*                                                                         *)
(* Accepted requests of one kind are served in the order they were         *)
(* accepted, each exactly once.  Nothing is promised between requests of   *)
(* different kinds.  A request that is being served while the socket shuts *)
(* down may still be finished; the rest are discarded together.            *)
(***************************************************************************)
EXTENDS Naturals, Sequences

CONSTANTS
  Paths,      (* what LOAD can ask for                                     *)
  Names,      (* what TIMECODE can ask for                                 *)
  Defs,       (* the names that are names of timecode definitions          *)
  Nothing,    (* the player's track after UNLOAD                           *)
  Cleared     (* the player after player_clear()                           *)

VARIABLES
  loads,      (* LOADs accepted and not finished, oldest first             *)
  unloads,    (* how many UNLOADs are accepted and not finished            *)
  names,      (* TIMECODEs accepted and not finished, oldest first         *)
  track,      (* what the deck plays                                       *)
  chosen      (* the definition the deck decodes, or is about to           *)

vars == <<loads, unloads, names, track, chosen>>

Init ==
  /\ loads = <<>> /\ unloads = 0 /\ names = <<>>
  /\ track = Nothing
  /\ chosen \in Defs

AcceptLoad(p) ==
  /\ loads' = Append(loads, p)
  /\ UNCHANGED <<unloads, names, track, chosen>>

AcceptUnload ==
  /\ unloads' = unloads + 1
  /\ UNCHANGED <<loads, names, track, chosen>>

AcceptTimecode(n) ==
  /\ names' = Append(names, n)
  /\ UNCHANGED <<loads, unloads, track, chosen>>

(* The deck refuses a load while it is protected and playing, and a file   *)
(* may fail to import.                                                     *)
ServeLoad ==
  /\ loads # <<>>
  /\ loads' = Tail(loads)
  /\ track' \in {track, Head(loads)}
  /\ UNCHANGED <<unloads, names, chosen>>

ServeUnload ==
  /\ unloads > 0
  /\ unloads' = unloads - 1
  /\ track' \in {track, Nothing}
  /\ UNCHANGED <<loads, names, chosen>>

(* A name is unknown, or its lookup table cannot be built, or the deck     *)
(* changes to its definition.                                              *)
ServeTimecode ==
  /\ names # <<>>
  /\ names' = Tail(names)
  /\ chosen' \in {chosen} \cup ({Head(names)} \cap Defs)
  /\ UNCHANGED <<loads, unloads, track>>

Clear ==
  /\ track' = Cleared
  /\ UNCHANGED <<loads, unloads, names, chosen>>

Discard ==
  /\ loads' = <<>> /\ names' = <<>> /\ unloads' = 0
  /\ UNCHANGED <<track, chosen>>

Next ==
  \/ \E p \in Paths : AcceptLoad(p)
  \/ AcceptUnload
  \/ \E n \in Names : AcceptTimecode(n)
  \/ ServeLoad \/ ServeUnload \/ ServeTimecode
  \/ Clear \/ Discard

Spec == Init /\ [][Next]_vars
================================================================================
