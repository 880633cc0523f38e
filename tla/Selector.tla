-------------------------------- MODULE Selector --------------------------------
(***************************************************************************)
(* The record selector (selector.c) over the library: a crate, a sort      *)
(* order and a search give the view, which is kept in step with a library  *)
(* that grows meanwhile, and the cursor tries to stay on the target, the   *)
(* record that was selected last.                                          *)
(*                                                                         *)
(* A search is the set of things that are asked of a record; typing one    *)
(* more asks more.                                                         *)
(***************************************************************************)
EXTENDS Library

CONSTANTS
  Crates,      (* the crates in the order of the crate list                *)
  Keys,        (* what may be typed                                        *)
  Matching,    (* Matching[k]: the records that match k                    *)
  MaxSearch,   (* bound: length of a search (255)                          *)
  LineCounts,  (* rows that the window may have                            *)
  NULL

ASSUME SelectorAssumption ==
  /\ Crates \in Seq(Scanned \cup {CRATE_ALL}) /\ Crates # << >>
  /\ Matching \in [Keys -> SUBSET Records]
  /\ MaxSearch \in Nat /\ LineCounts \subseteq Nat \ {0}
  /\ NULL \notin Records

NextSort == [artist |-> "bpm", bpm |-> "playlist", playlist |-> "artist"]

VARIABLES
  index,       (* index_a and index_b                                      *)
  view,        (* which of them is view_index                              *)
  records, crates,       (* list boxes                                     *)
  watched,     (* the crate that the on_ callbacks are attached to         *)
  toggled, toggle_back,
  sort, search, target

selVars == <<index, view, records, crates, watched, toggled, toggle_back, sort, search, target>>
vars == <<libraryVars, selVars>>

view_index == index[view]
swap == IF view = "a" THEN "b" ELSE "a"

Matches(r, s) == \A i \in DOMAIN s : r \in Matching[s[i]]

(* index_match(): what matches, in its order.                              *)
Matched(seq, s) ==
  LET kept[n \in 0 .. Len(seq)] ==
        IF n = 0 THEN << >>
        ELSE IF Matches(seq[n], s) THEN Append(kept[n - 1], seq[n]) ELSE kept[n - 1]
  IN  kept[Len(seq)]

(* current_crate()                                                         *)
CrateOf(box) == Crates[box.selected + 1]
current_crate == CrateOf(crates)

(* initial()                                                               *)
Sorted(l, order) ==
  CASE order = "artist" -> l.by_artist
    [] order = "bpm" -> l.by_bpm
    [] order = "playlist" -> l.by_order

Rank(order) == IF order = "artist" THEN ARTIST ELSE BPM

Init ==
  /\ InitLibrary
  /\ \E x \in Fresh : index = [i \in {"a", "b"} |-> BlankIndex(x)]
  /\ view = "a"
  /\ \E lines \in LineCounts :
       /\ records = SetLines(SetEntries(NoListbox, 0), lines)
       /\ crates = SetLines(SetEntries(NoListbox, Len(Crates)), lines)
  /\ watched = Crates[1]
  /\ toggled = FALSE /\ toggle_back = 0
  /\ sort = "artist" /\ search = << >> /\ target = NULL

(* selector_current(); the cursor may be beyond the entries.               *)
Selected(ix, box) == IF box.entries = 0 THEN NULL ELSE ix.record[box.selected + 1]
selector_current == Selected(view_index, records)

(* set_target()                                                            *)
TargetOf(ix, box) == IF box.entries = 0 THEN target ELSE Selected(ix, box)

(* retain_target(): in a sorted view the cursor goes to the next record    *)
(* when the target is not there.                                           *)
Retained(box, seq, to, order) ==
  LET n == IF order = "playlist" THEN SelectInSeq(seq, LAMBDA r : r = to) - 1
           ELSE BinSearch(seq, to, Rank(order))
  IN  IF to # NULL /\ n \in 0 .. Len(seq) - 1 THEN To(box, n) ELSE box

(* hunt_target(): reads the entry after the cursor, which may be beyond    *)
(* the entries.                                                            *)
Hunted(box, ix) ==
  IF /\ target # NULL
     /\ box.selected < ix.entries
     /\ ix.record[box.selected + 2] = target
  THEN [box EXCEPT !.selected = @ + 1, !.offset = @ + 1]
  ELSE box

(* do_content_change()                                                     *)
ContentChange(listing, order, s, to) ==
  LET seq == Matched(Sorted(listing, order), s)
  IN  /\ index' = [index EXCEPT ![view] = Store(@, seq)]
      /\ records' = Retained(SetEntries(records, Len(seq)), seq, to, order)

-----------------------------------------------------------------------------
(* Callbacks from the library.                                             *)

(* Mutant: an addition is shown whether it matches the search or not.      *)
MergeAdditionAll(r) ==
  LET seq == IF sort = "playlist" THEN Append(Entries(view_index), r)
             ELSE Insert(Entries(view_index), r, Rank(sort))
      ix == Store(view_index, seq)
      box == SetEntries(records, Len(seq))
  IN  /\ index' = [index EXCEPT ![view] = ix]
      /\ records' = IF r = target THEN Retained(box, seq, target, sort) ELSE Hunted(box, ix)

(* Mutant: the cursor is left behind.                                      *)
MergeAdditionStill(r) ==
  LET seq == IF sort = "playlist" THEN Append(Entries(view_index), r)
             ELSE Insert(Entries(view_index), r, Rank(sort))
  IN  IF ~Matches(r, search) THEN UNCHANGED <<index, records>>
      ELSE /\ index' = [index EXCEPT ![view] = Store(@, seq)]
           /\ records' = SetEntries(records, Len(seq))

(* merge_addition()                                                        *)
MergeAddition(r) ==
  LET seq == IF sort = "playlist" THEN Append(Entries(view_index), r)
             ELSE Insert(Entries(view_index), r, Rank(sort))
      ix == Store(view_index, seq)
      box == SetEntries(records, Len(seq))
  IN  IF ~Matches(r, search) THEN UNCHANGED <<index, records>>
      ELSE /\ index' = [index EXCEPT ![view] = ix]
           /\ records' = IF r = target THEN Retained(box, seq, target, sort)
                         ELSE Hunted(box, ix)

(* A line of a scan is read, and the selector hears of it if it is new to  *)
(* the crate that it watches.                                              *)
Line(e) ==
  /\ ReadLine(e)
  /\ IF watched \in Notified(e) THEN MergeAddition(Head(scan[e].left))
     ELSE UNCHANGED <<index, records>>
  /\ UNCHANGED <<view, crates, watched, toggled, toggle_back, sort, search, target>>

End(e) == EndScan(e) /\ UNCHANGED selVars

-----------------------------------------------------------------------------
(* Keys.                                                                   *)

(* selector_rescan(), handle_refresh()                                     *)
SelectorRescan(e, output) ==
  /\ current_crate \in Scanned
  /\ Rescan(current_crate, e, output)
  /\ IF current_crate = watched THEN ContentChange(scan'[e].listing, sort, search, target)
     ELSE UNCHANGED <<index, records>>
  /\ UNCHANGED <<view, crates, watched, toggled, toggle_back, sort, search, target>>

(* selector_up() and the other moves of the cursor                         *)
Move ==
  /\ records' \in {Up(records, 1), Down(records, 1),
                   Up(records, records.lines), Down(records, records.lines),
                   First(records), Final(records)}
  /\ target' = TargetOf(view_index, records')
  /\ UNCHANGED <<libraryVars, index, view, crates, watched, toggled, toggle_back, sort, search>>

(* do_crate_change()                                                       *)
CrateChange(box) ==
  /\ crates' = box
  /\ watched' = CrateOf(box)
  /\ ContentChange(ListingOf(CrateOf(box), storage, scan, excrate), sort, search, target)
  /\ UNCHANGED <<libraryVars, view, sort, search, target>>

PrevNext ==
  /\ \E box \in {Up(crates, 1), Down(crates, 1)} : CrateChange(box)
  /\ toggled' = FALSE
  /\ UNCHANGED toggle_back

Toggle ==
  IF toggled THEN CrateChange(To(crates, toggle_back)) /\ toggled' = FALSE /\ UNCHANGED toggle_back
  ELSE CrateChange(First(crates)) /\ toggled' = TRUE /\ toggle_back' = crates.selected

ToggleOrder ==
  /\ target' = TargetOf(view_index, records)
  /\ sort' = NextSort[sort]
  /\ ContentChange(ListingOf(current_crate, storage, scan, excrate), sort', search, target')
  /\ UNCHANGED <<libraryVars, view, crates, watched, toggled, toggle_back, search>>

SearchExpand ==
  /\ search # << >>
  /\ search' = Front(search)
  /\ ContentChange(ListingOf(current_crate, storage, scan, excrate), sort, search', target)
  /\ UNCHANGED <<libraryVars, view, crates, watched, toggled, toggle_back, sort, target>>

(* selector_search_refine(): from the view, into the other index.          *)
SearchRefine(k) ==
  /\ Len(search) < MaxSearch
  /\ search' = Append(search, k)
  /\ LET seq == Matched(Entries(view_index), search')
     IN  /\ index' = [index EXCEPT ![swap] = Store(@, seq)]
         /\ records' = SetEntries(records, Len(seq))
  /\ view' = swap
  /\ target' = TargetOf(index'[swap], records')
  /\ UNCHANGED <<libraryVars, crates, watched, toggled, toggle_back, sort>>

(* selector_set_lines(), when the interface draws.                         *)
SelectorSetLines(lines) ==
  /\ crates' = SetLines(crates, lines)
  /\ records' = SetLines(records, lines)
  /\ UNCHANGED <<libraryVars, index, view, watched, toggled, toggle_back, sort, search, target>>

Next ==
  \/ \E e \in Excrates :
       Line(e) \/ End(e) \/ \E output \in Outputs : SelectorRescan(e, output)
  \/ Move \/ PrevNext \/ Toggle \/ ToggleOrder
  \/ SearchExpand \/ (\E k \in Keys : SearchRefine(k))
  \/ \E lines \in LineCounts : SelectorSetLines(lines)

Spec == Init /\ [][Next]_vars

-----------------------------------------------------------------------------
ListboxOK(box) ==
  /\ box.entries \in Nat /\ box.lines \in Nat /\ box.offset \in Int
  /\ box.selected \in -1 .. box.entries

(* Values are of their types.                                              *)
TypeOK ==
  /\ LibraryTypeOK
  /\ index \in [{"a", "b"} -> [record : [1 .. Size -> Records \cup Fresh], entries : 0 .. Size - 1]]
  /\ view \in {"a", "b"}
  /\ ListboxOK(records) /\ ListboxOK(crates)
  /\ crates.selected \in 0 .. Len(Crates) - 1
  /\ watched \in Scanned \cup {CRATE_ALL}
  /\ toggled \in BOOLEAN /\ toggle_back \in 0 .. Len(Crates) - 1
  /\ sort \in DOMAIN NextSort /\ search \in Seq(Keys)
  /\ target \in Records \cup {NULL}

(* The view that is kept step by step, by additions, refined searches and  *)
(* swaps of the two indexes, is what the crate, the order and the search   *)
(* give (do_content_change, merge_addition, selector_search_refine).       *)
ViewIsMatch ==
  /\ Entries(view_index) =
       Matched(Sorted(ListingOf(current_crate, storage, scan, excrate), sort), search)
  /\ records.entries = view_index.entries

InView(r) == r \in ToSet(Entries(view_index))
CursorOnTarget == target # NULL /\ InView(target) /\ selector_current = target

InWindow(box) ==
  IF box.entries = 0 THEN box.offset = 0
  ELSE box.selected \in box.offset .. box.offset + box.lines - 1

(* As long as the target is the same, the cursor finds it when it comes    *)
(* into the view and stays on it when the view changes around it, unless   *)
(* the window shrinks ("the position we will try and retain").             *)
CursorFollows ==
  [][ (/\ target # NULL /\ target' = target /\ InView(target)'
       /\ InView(target) => CursorOnTarget /\ InWindow(records)
       /\ records'.lines = records.lines)
      => CursorOnTarget' ]_vars

(* Whatever is done to a list of entries, with the cursor on one of them   *)
(* and inside of the window, leaves the cursor inside of the window        *)
(* (listbox.c).                                                            *)
CursorVisible ==
  [][ InWindow(records) /\ records.selected < AtLeast(1, records.entries)
      => InWindow(records') ]_vars
=============================================================================
