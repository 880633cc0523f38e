----------------------------- MODULE Timecoder ------------------------------
(***************************************************************************)
(* The decoder of a timecode record (timecoder.c) with a needle on a       *)
(* record in front of it, the tables of the definitions (lut.c) that       *)
(* control workers build while it runs, and the ways to change definition. *)
(*                                                                         *)
(* A record is cut into quarters of its wave: bit k lies where the         *)
(* secondary wave crosses zero between quarters 4k+1 and 4k+2. A sample    *)
(* moves the needle by at most a quarter, or it is a jump: the needle was  *)
(* lifted, or the signal was too weak to be heard. The level that decides  *)
(* between a 0 and a 1 calibrates itself; here any bit may be misread.     *)
(*                                                                         *)
(* The interface changes the definition without a lock, so a sample is cut *)
(* where its stores may fall: tc->def is read again and again on the way   *)
(* (and a compiler may keep what it has read), and valid_counter++ reads   *)
(* the counter before it stores it.                                        *)
(***************************************************************************)
EXTENDS Timecode

CONSTANTS
  timecodes,                   \* the array of definitions
  VALID_BITS,                  \* bits that must agree before one is believed
  Edges,                       \* bits on a record
  Landings,                    \* bound: quarters where the needle is put down
  Workers                      \* threads that call timecoder_find_definition()

Defs == DOMAIN timecodes

ASSUME TimecoderAssumption ==
  /\ Len(timecodes) \in Nat \ {0} /\ Defs = 1 .. Len(timecodes)
  /\ \A d \in Defs :
       /\ timecodes[d].bits \in 1 .. VALID_BITS + 1
       /\ timecodes[d].bits < WORD
       /\ timecodes[d].length \in 1 .. Edges - timecodes[d].bits + 1
       /\ timecodes[d].seed \subseteq mask(timecodes[d]) /\ timecodes[d].seed # {}
       /\ timecodes[d].taps \subseteq 1 .. timecodes[d].bits - 1
       /\ \A f \in {"phase", "primary", "polarity"} : timecodes[d][f] \in BOOLEAN
  /\ VALID_BITS \in Nat /\ Edges \in Nat
  /\ Landings \subseteq 0 .. 4 * Edges - 1

VARIABLES
  platter,  \* the definition of the record on the turntable
  needle,   \* the quarter of a wave under the needle in the last sample
  tc,       \* struct timecoder
  lookup,   \* lookup[d]: the table of d is complete
  lut,      \* lut[d]: the table of d
  build,    \* build[w]: where w is in build_lookup()
  cycle,    \* where the interface is in timecoder_cycle_definition()
  sample,   \* where the decoding thread is in timecoder_submit()
  clean,    \* history: bits read as they passed, since the last that was not
  run,      \* history: those of them since the last reversal
  checked,  \* history: bits read in one direction for one definition
  torn      \* history: the counter counts bits of before its last reset

vars == <<platter, needle, tc, lookup, lut, build, cycle, sample,
          clean, run, checked, torn>>

tables == <<lookup, lut, build>>
history == <<clean, run, checked, torn>>

NONE == -1

(***************************************************************************)
(* The record.                                                             *)
(***************************************************************************)
(* code[n]: the register at the n-th place of the record. *)
Pressed == [d \in Defs |->
  LET code[n \in 0 .. Edges] ==
        IF n = 0 THEN timecodes[d].seed ELSE fwd(code[n - 1], timecodes[d])
  IN  [n \in 0 .. Edges |-> code[n]]]

(* "timecode must not wrap" (build_lookup()): no code is on a record twice;
   mktimecode ends the record before that, "LFSR period reached". *)
ASSUME NoWrap ==
  \A d \in Defs : \A j, k \in 0 .. Edges - timecodes[d].bits :
    Pressed[d][j] = Pressed[d][k] => j = k

RecordBit(d, k) == 0 \in Pressed[d][k]

(* What the bits k .. k + bits - 1 of a record spell. *)
Window == [d \in Defs |-> [k \in 0 .. timecodes[d].length - 1 |->
             {i \in mask(timecodes[d]) : RecordBit(d, k + i)}]]

Quarters == 0 .. 4 * Edges - 1

Primary(d, q) == (q % 4 \in {1, 2}) # timecodes[d].polarity

Secondary(d, q) ==
  ((q % 4 \in {2, 3}) # timecodes[d].phase) # timecodes[d].polarity

(* A channel at quarter q: its sign, by the wiring of the record. *)
Left(d, q)  == IF timecodes[d].primary THEN Primary(d, q) ELSE Secondary(d, q)
Right(d, q) == IF timecodes[d].primary THEN Secondary(d, q) ELSE Primary(d, q)

(* The bits whose edge lies between two quarters. *)
Passed(p, q) == {k \in 0 .. Edges - 1 : {p, q} = {4 * k + 1, 4 * k + 2}}

(***************************************************************************)
(* The decoder.                                                            *)
(***************************************************************************)
Def == timecodes[tc.def]

Least(x, y) == IF x < y THEN x ELSE y

(* What a bit is expected to make of the register, and what it makes of it. *)
Expects(t, d) ==
  IF t.forwards THEN fwd(t.timecode, timecodes[d]) ELSE rev(t.timecode, timecodes[d])

Read(t, b, d) ==
  IF t.forwards THEN ReadForwards(t.bitstream, b, timecodes[d])
                ELSE ReadBackwards(t.bitstream, b, timecodes[d])

(* Where process_sample() reads tc->def: the definition that was found there. *)
Glances == {"direction", "polarity", "expect", "shift"}

Agrees(t, b, seen) == Expects(t, seen.expect) = Read(t, b, seen.shift)

(* Mutant: after a bit that was not expected, what was expected goes on.   *)
BitstreamDoubted(t, b, seen) ==
  [t EXCEPT !.bitstream = Read(t, b, seen.shift),
            !.timecode = Expects(t, seen.expect),
            !.valid_counter = IF Agrees(t, b, seen) THEN @ ELSE 0]

(* process_bitstream(), as far as valid_counter++. *)
process_bitstream(t, b, seen) ==
  [t EXCEPT !.bitstream = Read(t, b, seen.shift),
            !.timecode = Read(t, b, seen.shift),
            !.valid_counter = IF Agrees(t, b, seen) THEN @ ELSE 0]

(* Has the sample crossed the primary, or the secondary axis? The crossing is
   seen by the first sample that is past the threshold on the other side. *)
detect_zero_crossing(t, left, right) ==
  LET byPrimary == timecodes[t.def].primary
  IN  [primary   |-> t.primary # (IF byPrimary THEN left ELSE right),
       secondary |-> t.secondary # (IF byPrimary THEN right ELSE left)]

(* The direction that a crossing tells by the definition d. *)
Forwards(t, swapped, d) ==
  IF swapped.primary \/ swapped.secondary
  THEN (IF swapped.primary THEN t.primary # t.secondary ELSE t.primary = t.secondary)
         # timecodes[d].phase
  ELSE t.forwards

(* Mutant: a reversal leaves the trust in the bits.                        *)
DirectTrusting(t, swapped, d) == [t EXCEPT !.forwards = Forwards(t, swapped, d)]

(* A crossing turns the decoder, and takes the trust in the bits if it does. *)
Direct(t, swapped, d) ==
  [t EXCEPT !.forwards = Forwards(t, swapped, d),
            !.valid_counter = IF Forwards(t, swapped, d) # t.forwards THEN 0 ELSE @]

(* The secondary wave has crossed where the primary's peak tells a bit. *)
ReadsBit(t, swapped, d) == swapped.secondary /\ t.primary # timecodes[d].polarity

timecoder_init(d) ==
  [def |-> d, forwards |-> TRUE, primary |-> FALSE, secondary |-> FALSE,
   bitstream |-> {}, timecode |-> {}, valid_counter |-> 0]

(* The settings that go over to the new record (speed, sensitivity, scope) are
   not part of the decoding. *)
timecoder_set_definition(d) == timecoder_init(d)

timecoder_get_position(t) ==
  IF t.valid_counter <= VALID_BITS THEN NONE
                                   ELSE lut_lookup(lut[t.def], t.bitstream)

(* The next definition with a table; the array is a ring. *)
next_definition(d) ==
  LET n == Len(timecodes)
      after(k) == ((d + k - 1) % n) + 1
  IN  after(CHOOSE k \in 1 .. n :
              lookup[after(k)] /\ \A j \in 1 .. k - 1 : ~lookup[after(j)])

(***************************************************************************)
(* Actions.                                                                *)
(***************************************************************************)
Idle == [pc |-> "idle"]
Between == [pc |-> "between"]

Complete(d) ==
  LET filled[n \in 0 .. timecodes[d].length] ==
        IF n = 0 THEN lut_init ELSE lut_push(filled[n - 1], Pressed[d][n - 1])
  IN  filled[timecodes[d].length]

(* The definition given to the program has its table before the decoder
   starts; the others have none. *)
Init ==
  /\ platter \in Defs
  /\ needle = 0
  /\ tc = timecoder_init(1)
  /\ lookup = [d \in Defs |-> d = 1]
  /\ lut = [d \in Defs |-> IF d = 1 THEN Complete(d) ELSE lut_init]
  /\ build = [w \in Workers |-> Idle]
  /\ cycle = Idle
  /\ sample = Between
  /\ clean = 0 /\ run = 0 /\ checked = 0
  /\ torn = FALSE

(* One sample of timecoder_submit(), process_sample() up to the crossings: the
   needle has come to q. *)
Sample(q) ==
  /\ sample = Between
  /\ q \in Quarters
  /\ LET swapped == detect_zero_crossing(tc, Left(platter, q), Right(platter, q))
     IN  /\ tc' = [tc EXCEPT !.primary = @ # swapped.primary,
                             !.secondary = @ # swapped.secondary]
         /\ sample' = [pc |-> "crossed", at |-> q, swapped |-> swapped, defs |-> {tc.def}]
  /\ UNCHANGED <<platter, needle, tables, cycle, history>>

(* The direction, and the bit if there is one to read: b is what the peak reads
   as. valid_counter++ has read the counter, which is only compared with
   VALID_BITS, so that it stops above it. *)
ProcessSample(b, seen) ==
  LET turned  == Direct(tc, sample.swapped, seen.direction)
      reads   == ReadsBit(turned, sample.swapped, seen.polarity)
      stale   == \E g \in Glances : seen[g] # tc.def
      passed  == Passed(needle, sample.at)
      asItWas == /\ reads /\ ~stale /\ passed # {} /\ tc.def = platter
                 /\ turned.forwards = (sample.at > needle)
                 /\ \A k \in passed : b = RecordBit(platter, k)
      onward(n, most) == IF asItWas THEN Least(n + 1, most)
                         ELSE IF reads \/ passed # {} THEN 0 ELSE n
      unturned(n) == IF turned.forwards = tc.forwards THEN n ELSE 0
  IN  /\ sample.pc = "crossed"
      /\ ~reads => ~b
      /\ needle' = sample.at
      /\ tc' = IF reads THEN process_bitstream(turned, b, seen) ELSE turned
      /\ sample' = IF reads /\ Agrees(turned, b, seen)
                   THEN [pc |-> "counting", stale |-> stale,
                         count |-> Least(turned.valid_counter + 1, VALID_BITS + 1)]
                   ELSE Between
      /\ clean' = onward(clean, Def.bits)
      /\ run' = onward(unturned(run), Def.bits + VALID_BITS + 1)
      /\ checked' = Least(unturned(checked) + (IF reads /\ ~stale THEN 1 ELSE 0),
                          VALID_BITS + 1)
      /\ torn' = (torn /\ tc'.valid_counter # 0)
      /\ UNCHANGED <<platter, tables, cycle>>

(* valid_counter++ stores what it has counted. *)
Count ==
  /\ sample.pc = "counting"
  /\ tc' = [tc EXCEPT !.valid_counter = sample.count]
  /\ sample' = Between
  /\ torn' = (torn \/ sample.stale)
  /\ UNCHANGED <<platter, needle, tables, cycle, clean, run, checked>>

(* The needle is put somewhere else, perhaps on another record. *)
Jump(d, q) ==
  /\ sample = Between
  /\ platter' = d
  /\ needle' = q
  /\ clean' = 0
  /\ run' = 0
  /\ UNCHANGED <<tc, tables, cycle, sample, checked, torn>>

(* A definition that a worker has found, on the thread that decodes. *)
SetDefinition(d) ==
  /\ sample = Between
  /\ lookup[d]
  /\ tc' = timecoder_set_definition(d)
  /\ clean' = 0 /\ run' = 0 /\ checked' = 0
  /\ torn' = FALSE
  /\ UNCHANGED <<platter, needle, tables, cycle, sample>>

(* timecoder_cycle_definition() on the interface's thread: the samples do
   not wait for it. *)
CycleNext ==
  /\ cycle = Idle
  /\ cycle' = [pc |-> "store", def |-> next_definition(tc.def)]
  /\ UNCHANGED <<platter, needle, tc, tables, sample, history>>

CycleDefinition ==
  /\ cycle.pc = "store"
  /\ tc' = [tc EXCEPT !.def = cycle.def]
  /\ cycle' = [pc |-> "reset"]
  /\ sample' = IF sample.pc = "crossed" THEN [sample EXCEPT !.defs = @ \cup {cycle.def}]
                                        ELSE sample
  /\ clean' = 0 /\ run' = 0 /\ checked' = 0
  /\ UNCHANGED <<platter, needle, tables, torn>>

(* A sample that has read the counter stores it over the reset. *)
CycleReset ==
  /\ cycle.pc = "reset"
  /\ tc' = [tc EXCEPT !.valid_counter = 0]
  /\ cycle' = Idle
  /\ sample' = IF sample.pc = "counting" THEN [sample EXCEPT !.stale = TRUE] ELSE sample
  /\ run' = 0 /\ checked' = 0
  /\ torn' = FALSE
  /\ UNCHANGED <<platter, needle, tables, clean>>

(* Mutant: the table counts as built while it is filled.                   *)
FindEarly(w, d) ==
  /\ build[w] = Idle
  /\ ~lookup[d]
  /\ lut' = [lut EXCEPT ![d] = lut_init]
  /\ lookup' = [lookup EXCEPT ![d] = TRUE]
  /\ build' = [build EXCEPT ![w] =
                 [pc |-> "push", def |-> d, n |-> 0, current |-> timecodes[d].seed]]
  /\ UNCHANGED <<platter, needle, tc, cycle, sample, history>>

(* timecoder_find_definition(), build_lookup(): a table that is there is used
   as it is, another is begun; without memory for it nothing changes. *)
FindBuilt(w, d) ==
  /\ build[w] = Idle
  /\ ~lookup[d]
  /\ lut' = [lut EXCEPT ![d] = lut_init]
  /\ build' = [build EXCEPT ![w] =
                 [pc |-> "push", def |-> d, n |-> 0, current |-> timecodes[d].seed]]
  /\ UNCHANGED <<platter, needle, tc, lookup, cycle, sample, history>>

PushTimecode(w) ==
  /\ build[w].pc = "push"
  /\ build[w].n < timecodes[build[w].def].length
  /\ LET d == build[w].def IN
       /\ lut' = [lut EXCEPT ![d] = lut_push(@, build[w].current)]
       /\ build' = [build EXCEPT ![w] =
                      [pc |-> "push", def |-> d, n |-> @.n + 1,
                       current |-> fwd(@.current, timecodes[d])]]
  /\ UNCHANGED <<platter, needle, tc, lookup, cycle, sample, history>>

FinishTable(w) ==
  /\ build[w].pc = "push"
  /\ build[w].n = timecodes[build[w].def].length
  /\ lookup' = [lookup EXCEPT ![build[w].def] = TRUE]
  /\ build' = [build EXCEPT ![w] = Idle]
  /\ UNCHANGED <<platter, needle, tc, lut, cycle, sample, history>>

Next ==
  \/ \E q \in needle - 1 .. needle + 1 : Sample(q)
  \/ sample.pc = "crossed" /\ \E b \in BOOLEAN, seen \in [Glances -> sample.defs] :
                               ProcessSample(b, seen)
  \/ Count
  \/ \E d \in Defs, q \in Landings : Jump(d, q)
  \/ \E d \in Defs : SetDefinition(d)
  \/ CycleNext \/ CycleDefinition \/ CycleReset
  \/ \E w \in Workers, d \in Defs : FindBuilt(w, d)
  \/ \E w \in Workers : PushTimecode(w) \/ FinishTable(w)

Spec == Init /\ [][Next]_vars

(***************************************************************************)
(* Properties.                                                             *)
(***************************************************************************)
TypeOK ==
  /\ platter \in Defs /\ needle \in Quarters
  /\ tc \in [def : Defs, forwards : BOOLEAN, primary : BOOLEAN, secondary : BOOLEAN,
             bitstream : SUBSET (0 .. WORD - 1),
             timecode : SUBSET (0 .. WORD - 1), valid_counter : 0 .. VALID_BITS + 1]
  /\ lookup \in [Defs -> BOOLEAN]
  /\ cycle \in {Idle, [pc |-> "reset"]} \cup [pc : {"store"}, def : Defs]
  /\ sample \in {Between}
       \cup [pc : {"crossed"}, at : Quarters, defs : SUBSET Defs,
             swapped : [primary : BOOLEAN, secondary : BOOLEAN]]
       \cup [pc : {"counting"}, stale : BOOLEAN, count : 1 .. VALID_BITS + 1]
  /\ clean \in Nat /\ run \in Nat /\ checked \in 0 .. VALID_BITS + 1
  /\ torn \in BOOLEAN

(* Where the window of the last bits starts: going forwards it ends with the
   last bit that has passed, going backwards it starts with it. *)
TruePosition ==
  IF tc.forwards THEN (needle - 2) \div 4 - Def.bits + 1
                 ELSE (needle + 2) \div 4

(* The player asks for a position between two samples, and there is nothing to
   ask for while the interface has changed half of the decoder. *)
Asked == sample = Between /\ cycle.pc # "reset"

(* A position that the decoder gives was checked on more than VALID_BITS bits
   that were read in one direction and for this definition, and it is the
   needle's as soon as no bit of the window was misread or skipped: a reversal
   or a new definition never leaves a window that is half of the old one
   believed (process_sample(), timecoder_set_definition(),
   timecoder_get_position()). Excepted is what the interface's reset of the
   counter has missed, because it fell within a sample (timecoder.c:557, 671),
   until the counter is next reset. *)
NoFalsePosition ==
  timecoder_get_position(tc) # NONE /\ Asked /\ ~torn =>
    /\ checked > VALID_BITS
    /\ clean >= Def.bits => timecoder_get_position(tc) = TruePosition

(* A needle that is put down, turned around or had a bit misread is found
   again after the bits of one window and VALID_BITS + 1 more, wherever the
   record has a position and whatever the counter was when they were read;
   after a change to a definition with fewer bits, once the bits that it has
   left in the register are gone (timecoder_cycle_definition()). *)
FoundAgain ==
  /\ run >= Def.bits + VALID_BITS + 1 /\ Asked
  /\ TruePosition \in 0 .. Def.length - 1
  => timecoder_get_position(tc) = TruePosition

(* A definition that may be used has a whole table, in which every place of
   the record is found by the bits that are read there; no definition is in
   use before (build_lookup(), timecoder_set_definition()). *)
TablesComplete ==
  /\ lookup[tc.def]
  /\ \A d \in Defs : lookup[d] =>
       \A n \in 0 .. timecodes[d].length - 1 : lut_lookup(lut[d], Window[d][n]) = n

=============================================================================
