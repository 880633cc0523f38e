------------------------------ MODULE Timecode ------------------------------
(***************************************************************************)
(* The code on a timecode record and the table that finds a place in it    *)
(* (timecoder.c, lut.c). A register (bits_t) is the set of its bits that   *)
(* are 1, and so is def->taps.                                             *)
(***************************************************************************)
EXTENDS Integers, Sequences, FiniteSets

CONSTANT
  HASH_BITS      \* bits of a timecode that choose its chain

ASSUME TimecodeAssumption == HASH_BITS \in Nat

NO_SLOT == -1

WORD == 32       \* bits in a bits_t

(* The register x with l, a bit, at the place i. *)
Bit(l, i) == IF l THEN {i} ELSE {}

RightShift(x) == {i - 1 : i \in x \ {0}}

LeftShift(x) == {i + 1 : i \in x}

mask(def) == 0 .. def.bits - 1

(* x + (1 << i): the carry goes up to the first bit that is 0, and x was shifted
   right, so that there is one. *)
Plus(x, i) ==
  LET top == CHOOSE t \in i .. WORD - 1 : t \notin x /\ \A j \in i .. t - 1 : j \in x
  IN  (x \ (i .. top)) \cup {top}

lfsr(code, taps) == Cardinality(code \cap taps) % 2 = 1

fwd(current, def) ==
  RightShift(current) \cup Bit(lfsr(current, def.taps \cup {0}), def.bits - 1)

rev(current, def) ==
  (LeftShift(current) \cap mask(def))
    \cup Bit(lfsr(current, RightShift(def.taps) \cup {def.bits - 1}), 0)

(* How the register moves on from what was read in either direction. *)
ReadForwards(stream, b, def) ==
  IF b THEN Plus(RightShift(stream), def.bits - 1) ELSE RightShift(stream)

ReadBackwards(stream, b, def) == (LeftShift(stream) \cap mask(def)) \cup Bit(b, 0)

HASH(timecode) == timecode \cap (0 .. HASH_BITS - 1)

lut_init == [slot |-> << >>, table |-> [h \in SUBSET (0 .. HASH_BITS - 1) |-> NO_SLOT]]

lut_push(lut, timecode) ==
  [slot  |-> Append(lut.slot, [timecode |-> timecode,
                               next     |-> lut.table[HASH(timecode)]]),
   table |-> [lut.table EXCEPT ![HASH(timecode)] = Len(lut.slot)]]

(* The place of `timecode`, counted from 0, or NO_SLOT. *)
lut_lookup(lut, timecode) ==
  LET walk[s \in NO_SLOT .. Len(lut.slot) - 1] ==
        IF s = NO_SLOT THEN NO_SLOT
        ELSE IF lut.slot[s + 1].timecode = timecode
        THEN s
        ELSE walk[lut.slot[s + 1].next]
  IN  walk[lut.table[HASH(timecode)]]

=============================================================================
