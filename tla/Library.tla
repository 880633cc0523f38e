-------------------------------- MODULE Library --------------------------------
(***************************************************************************)
(* The library (library.c) and the scans that fill it (excrate.c): a crate *)
(* shows the listing of its latest scan and watches it for additions and   *)
(* for its end; all scans add to one storage, which the first crate shows. *)
(*                                                                         *)
(* The rig and the interface do all of this under the rig lock.  A scan    *)
(* that a rescan replaces is terminated, but it is the rig that reads it   *)
(* to its end and frees it.                                                *)
(***************************************************************************)
EXTENDS Listings

CONSTANTS
  Scanned,    (* crates with a scan; CRATE_ALL has none                    *)
  CRATE_ALL,
  Excrates,   (* bound: scans that exist at a time                         *)
  Outputs,    (* what a scan may show, in its order                        *)
  First0      (* the scan that each crate starts with                      *)

ASSUME LibraryAssumption ==
  /\ CRATE_ALL \notin Scanned
  /\ Outputs \subseteq {s \in Seq(Records) : IsInjective(s)}
  /\ First0 \in [Scanned -> Excrates] /\ IsInjective(First0)

VARIABLES
  storage,    (* library.storage                                           *)
  scan,       (* the excrates, by address                                  *)
  excrate,    (* the excrate of each crate                                 *)
  watches,    (* <<c, e>>: on_addition and on_completion of c watch e      *)
  busy        (* is_busy                                                   *)

libraryVars == <<storage, scan, excrate, watches, busy>>

Freed == [refcount |-> 0, pid |-> FALSE, terminated |-> FALSE,
          listing |-> EmptyListing, left |-> << >>]

(* excrate_acquire_by_scan(): a reference for the rig, one for the caller. *)
Started(output) == [refcount |-> 2, pid |-> TRUE, terminated |-> FALSE,
            listing |-> EmptyListing, left |-> output]

InitLibrary ==
  /\ storage = EmptyListing
  /\ \E output \in Outputs :
       scan = [e \in Excrates |->
                 IF \E c \in Scanned : First0[c] = e THEN Started(output) ELSE Freed]
  /\ excrate = First0
  /\ watches = {<<c, First0[c]>> : c \in Scanned}
  /\ busy = [c \in Scanned |-> TRUE]

ListingOf(c, all, scans, source) ==
  IF c = CRATE_ALL THEN all ELSE scans[source[c]].listing

(* Mutant: a scan that nobody wants goes on as if it was wanted.           *)
ReleasedOnly(x) == IF x.refcount = 1 THEN Freed ELSE [x EXCEPT !.refcount = @ - 1]

(* excrate_release()                                                       *)
Released(x) ==
  IF x.refcount = 2 /\ x.pid THEN [x EXCEPT !.refcount = 1, !.terminated = TRUE]
  ELSE IF x.refcount = 1 THEN Freed
  ELSE [x EXCEPT !.refcount = @ - 1]

(* read_from_pipe(): one line.                                             *)
ReadLine(e) ==
  LET r == Head(scan[e].left)
  IN  /\ scan[e].pid /\ scan[e].left # << >>
      /\ storage' = Added(storage, r)
      /\ scan' = [scan EXCEPT ![e].left = Tail(@), ![e].listing = Added(@, r)]
      /\ UNCHANGED <<excrate, watches, busy>>

(* The crates whose addition event has been fired by a line of e.          *)
Notified(e) ==
  {c \in {CRATE_ALL} : storage' # storage}
    \cup {c \in Scanned : <<c, e>> \in watches /\ scan'[e].listing # scan[e].listing}

(* excrate_handle(), at the end of the output or on an error.              *)
EndScan(e) ==
  /\ scan[e].pid
  /\ scan' = [scan EXCEPT ![e] = Released([@ EXCEPT !.pid = FALSE])]
  /\ busy' = [c \in Scanned |-> busy[c] /\ <<c, e>> \notin watches]
  /\ UNCHANGED <<storage, excrate, watches>>

(* Mutant: the crate goes on watching the scan it has replaced.            *)
RescanWatchingBoth(c, e, output) ==
  /\ scan[e] = Freed
  /\ scan' = [scan EXCEPT ![e] = Started(output), ![excrate[c]] = Released(@)]
  /\ excrate' = [excrate EXCEPT ![c] = e]
  /\ watches' = watches \cup {<<c, e>>}
  /\ busy' = [busy EXCEPT ![c] = TRUE]
  /\ UNCHANGED storage

(* crate_rescan(); the fork may fail, and then nothing happens.            *)
Rescan(c, e, output) ==
  /\ scan[e] = Freed
  /\ scan' = [scan EXCEPT ![e] = Started(output), ![excrate[c]] = Released(@)]
  /\ excrate' = [excrate EXCEPT ![c] = e]
  /\ watches' = (watches \ {<<c, excrate[c]>>}) \cup {<<c, e>>}
  /\ busy' = [busy EXCEPT ![c] = TRUE]
  /\ UNCHANGED storage

LibraryTypeOK ==
  /\ scan \in [Excrates -> [refcount : 0 .. 2, pid : BOOLEAN, terminated : BOOLEAN,
                            left : Seq(Records),
                            listing : [by_artist : Seq(Records), by_bpm : Seq(Records),
                                       by_order : Seq(Records)]]]
  /\ excrate \in [Scanned -> Excrates]
  /\ watches \subseteq Scanned \X Excrates
  /\ busy \in [Scanned -> BOOLEAN]

(* However lines, rescans and ends of scans follow each other, the three   *)
(* indexes of a listing hold the same records, each in its order, and the  *)
(* crate of all records has what any other crate has (listing_add).        *)
ListingsAgree ==
  /\ IsListing(storage)
  /\ \A e \in Excrates : /\ IsListing(scan[e].listing)
                         /\ ToSet(scan[e].listing.by_order) \subseteq ToSet(storage.by_order)

(* A crate is busy exactly while the scan that it shows is running: a scan *)
(* that was replaced must not end the business of its successor            *)
(* (crate_rescan, propagate_completion).                                   *)
BusyWhileScanning == \A c \in Scanned : busy[c] <=> scan[excrate[c]].pid

(* Each reference to a scan is one of the rig's, while it runs, or that of *)
(* a crate; a crate never holds or watches what was freed, nor shows a     *)
(* scan that was cut; and a scan that no crate wants is ended.             *)
ScansHeld ==
  \A e \in Excrates :
    LET holders == {c \in Scanned : excrate[c] = e}
    IN  /\ scan[e].refcount = Cardinality(holders) + (IF scan[e].pid THEN 1 ELSE 0)
        /\ {c \in Scanned : <<c, e>> \in watches} = holders
        /\ scan[e].pid => (scan[e].terminated <=> holders = {})
=============================================================================
