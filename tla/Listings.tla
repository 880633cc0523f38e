-------------------------------- MODULE Listings --------------------------------
(***************************************************************************)
(* Indexes of records (index.c), the listings that are made of three of    *)
(* them (library.c) and the window that scrolls over one (listbox.c), as   *)
(* operators on their values.                                              *)
(*                                                                         *)
(* An index is a sequence where only its entries matter.  The selector's   *)
(* two indexes keep what is beyond their entries: index_blank() leaves the *)
(* memory alone and hunt_target() reads one entry further.                 *)
(***************************************************************************)
EXTENDS Integers, SequencesExt

CONSTANTS
  Records,
  ARTIST, BPM,   (* rank of each record in the two orders                  *)
  Fresh          (* what memory that was never written may hold            *)

ASSUME ListingsAssumption ==
  /\ IsFiniteSet(Records)
  /\ ARTIST \in [Records -> Int] /\ IsInjective(ARTIST)
  /\ BPM \in [Records -> Int] /\ IsInjective(BPM)

Size == Cardinality(Records) + 1

-----------------------------------------------------------------------------
(* Indexes.                                                                *)

(* Mutant: the upper half begins with the entry that was compared.         *)
BinSearchFrom(seq, r, rank) ==
  LET at[n \in 0 .. Len(seq)] ==
        [base \in Nat |->
           LET mid == n \div 2
               x == seq[base + mid + 1]
           IN  IF n = 0 THEN 0
               ELSE IF rank[r] < rank[x] THEN at[mid][base]
               ELSE IF rank[r] > rank[x] /\ n > 1 THEN mid + at[n - mid][base + mid]
               ELSE mid]
  IN  at[Len(seq)][0]

(* bin_search(): how many entries go before r, in a sorted sequence.  The  *)
(* part that is searched has n entries, after the first base.              *)
BinSearch(seq, r, rank) ==
  LET at[n \in 0 .. Len(seq)] ==
        [base \in Nat |->
           LET mid == n \div 2
               x == seq[base + mid + 1]
           IN  IF n = 0 THEN 0
               ELSE IF rank[r] < rank[x] THEN at[mid][base]
               ELSE IF rank[r] > rank[x] THEN mid + 1 + at[n - mid - 1][base + mid + 1]
               ELSE mid]
  IN  at[Len(seq)][0]

Found(seq, r, rank) ==
  LET z == BinSearch(seq, r, rank) IN z < Len(seq) /\ seq[z + 1] = r

(* index_insert()                                                          *)
Insert(seq, r, rank) ==
  IF Found(seq, r, rank) THEN seq
  ELSE InsertAt(seq, BinSearch(seq, r, rank) + 1, r)

Entries(index) == SubSeq(index.record, 1, index.entries)

(* index_blank() and index_add(), or the memmove() of index_insert(): what *)
(* is beyond the new entries stays.                                        *)
Store(index, seq) ==
  [record  |-> [i \in 1 .. Size |-> IF i <= Len(seq) THEN seq[i] ELSE index.record[i]],
   entries |-> Len(seq)]

BlankIndex(x) == [record |-> [i \in 1 .. Size |-> x], entries |-> 0]

-----------------------------------------------------------------------------
(* Listings.                                                               *)

EmptyListing == [by_artist |-> << >>, by_bpm |-> << >>, by_order |-> << >>]

(* listing_add(): a record that is in by_artist is in all of them.         *)
Added(l, r) ==
  IF Found(l.by_artist, r, ARTIST) THEN l
  ELSE [by_artist |-> Insert(l.by_artist, r, ARTIST),
        by_bpm    |-> Insert(l.by_bpm, r, BPM),
        by_order  |-> Append(l.by_order, r)]

IsSortedBy(seq, rank) ==
  \A i, j \in DOMAIN seq : i < j => rank[seq[i]] < rank[seq[j]]

IsListing(l) ==
  /\ IsSortedBy(l.by_artist, ARTIST) /\ IsSortedBy(l.by_bpm, BPM)
  /\ ToSet(l.by_artist) = ToSet(l.by_order)
  /\ ToSet(l.by_bpm) = ToSet(l.by_order)
  /\ IsInjective(l.by_order)

-----------------------------------------------------------------------------
(* List boxes.                                                             *)

NoListbox == [entries |-> 0, lines |-> 0, offset |-> 0, selected |-> -1]

AtLeast(n, x) == IF x < n THEN n ELSE x
AtMost(n, x) == IF x > n THEN n ELSE x

(* The window ends with the last entry, if it would go beyond.             *)
Within(s, offset) ==
  IF offset + s.lines > s.entries THEN AtLeast(0, s.entries - s.lines) ELSE offset

SetLines(s, lines) ==
  LET t == [s EXCEPT !.lines = lines,
                     !.selected = AtMost(s.offset + lines - 1, @)]
  IN  [t EXCEPT !.offset = Within(t, @)]

SetEntries(s, entries) ==
  LET t == [s EXCEPT !.entries = entries]
  IN  [t EXCEPT !.selected = AtLeast(0, AtMost(entries - 1, @)),
                !.offset = Within(t, @)]

Up(s, n) ==
  LET selected == AtLeast(0, s.selected - n)
  IN  [s EXCEPT !.selected = selected,
                !.offset = IF selected < @
                           THEN AtLeast(0, selected + s.lines \div 2 - s.lines + 1) ELSE @]

(* Mutant: the window stays when the selection moves below it.             *)
DownOut(s, n) == [s EXCEPT !.selected = AtMost(s.entries - 1, @ + n)]

Down(s, n) ==
  LET selected == AtMost(s.entries - 1, s.selected + n)
      middle == selected - s.lines \div 2
  IN  [s EXCEPT !.selected = selected,
                !.offset = IF selected >= @ + s.lines
                           THEN AtMost(s.entries - s.lines, middle) ELSE @]

First(s) == [s EXCEPT !.selected = 0, !.offset = 0]

Final(s) ==
  [s EXCEPT !.selected = s.entries - 1, !.offset = AtLeast(0, s.entries - s.lines)]

(* listbox_to(): the selection stays where it is on the screen.            *)
To(s, n) ==
  [s EXCEPT !.selected = n, !.offset = AtLeast(0, n - (s.selected - s.offset))]
=============================================================================
