---------------------------------- MODULE Dicer ----------------------------------
(***************************************************************************)
(* A Novation Dicer (dicer.c, midi.c): buttons that set, jump to and clear *)
(* the cue points of up to two decks, and the LEDs that show them.         *)
(*                                                                         *)
(* Each unit has an LED per button in memory.  The realtime thread reads    *)
(* events until there are none, then writes commands for the LEDs that the *)
(* hardware has not been told of into obuf, and as much of obuf to the     *)
(* MIDI port as that takes.  A command is a status byte, which names a     *)
(* LED in one mode, and a data byte, its colour (address and note of the   *)
(* real one always travel together in the status here).                    *)
(***************************************************************************)
EXTENDS DeckCues, SequencesExt

CONSTANTS
  Units,       (* the two halves; the one without a deck does nothing      *)
  Order,       (* the LEDs <<unit, button>> as sync_all_leds() visits them *)
  Modes,       (* (cue, loop, roll) x (shift, non-shift)                   *)
  OBUF,        (* sizeof obuf, in bytes                                    *)
  ShortWrites  (* the port may take less than half of what it is given     *)

ASSUME DicerAssumption ==
  /\ Decks \subseteq Units /\ Order \in Seq(Units \X Buttons)
  /\ Modes \in Nat \ {0}
  /\ OBUF \in Nat
  /\ ShortWrites \in BOOLEAN

Leds == Units \X Buttons
Led == [ON : BOOLEAN, PRESSED : BOOLEAN, SYNCED : BOOLEAN]

VARIABLES
  led,      (* led[<<d, b>>]                                               *)
  obuf,     (* the ofill bytes that wait to be written                     *)
  status,   (* "ok", "fault" (the controller is disabled), "cleared"       *)
  device    (* the hardware: what each LED shows in each mode, and the     *)
            (* one that the last status byte selected, or << >>            *)

vars == <<deckVars, led, obuf, status, device>>

Off == [ON |-> FALSE, PRESSED |-> FALSE]
Shows(l) == [ON |-> l.ON, PRESSED |-> l.PRESSED]

Init ==
  /\ InitCues
  /\ led = [x \in Leds |-> [ON |-> FALSE, PRESSED |-> FALSE, SYNCED |-> FALSE]]
  /\ obuf = << >>
  /\ status = "ok"
  /\ \E lit \in {Off, [ON |-> TRUE, PRESSED |-> FALSE]} :
       device = [shows |-> [x \in Leds \X (1 .. Modes) |-> lit], selected |-> << >>]

-----------------------------------------------------------------------------
(* Buttons.                                                                *)

(* Mutant: the change of a synced LED is not written.                      *)
WithoutUnsync(l, flags) ==
  IF Shows(l) = flags THEN l
  ELSE [ON |-> flags.ON, PRESSED |-> flags.PRESSED, SYNCED |-> l.SYNCED]

(* set_led(): the hardware is told only if the flags change.               *)
With(l, flags) ==
  IF Shows(l) = flags THEN l
  ELSE [ON |-> flags.ON, PRESSED |-> flags.PRESSED, SYNCED |-> FALSE]

Lit(l, on) == With(l, [ON |-> on, PRESSED |-> l.PRESSED])
Held(l, on) == With(l, [ON |-> l.ON, PRESSED |-> on])

LightsUp(x, on, pressed) == led' = [led EXCEPT ![x] = Lit(Held(@, pressed), on)]

(* Mutant: the LED stays lit when the cue point is cleared.                *)
ClearCueLit(d, b) ==
  /\ UnsetCue(d, b)
  /\ led' = [led EXCEPT ![<<d, b>>] = Held(@, TRUE)]

(* event_decoded(): the buttons of a unit, with and without shift.         *)
ClearCue(d, b) == UnsetCue(d, b) /\ LightsUp(<<d, b>>, FALSE, TRUE)

PressCue(d, b) == Cue(d, b) /\ LightsUp(<<d, b>>, TRUE, TRUE)

PressLoop(d, b) == PunchIn(d, b) /\ LightsUp(<<d, b>>, TRUE, TRUE)

ReleaseLoop(d, b) ==
  /\ PunchOut(d)
  /\ led' = [led EXCEPT ![<<d, b>>] = Held(@, FALSE)]

(* The roll page, and every release but that of a loop button.             *)
OtherEvent(d, b) ==
  /\ \E on \in BOOLEAN : led' = [led EXCEPT ![<<d, b>>] = Held(@, on)]
  /\ UNCHANGED deckVars

(* realtime(), midi_read() returned an event, and event().                 *)
Event(d, b) ==
  /\ status = "ok"
  /\ ClearCue(d, b) \/ PressCue(d, b) \/ PressLoop(d, b) \/ ReleaseLoop(d, b) \/ OtherEvent(d, b)
  /\ UNCHANGED <<obuf, status, device>>

(* midi_read() fails: controller_handle() never calls the Dicer again.     *)
ReadError ==
  /\ status = "ok"
  /\ status' = "fault"
  /\ UNCHANGED <<deckVars, led, obuf, device>>

-----------------------------------------------------------------------------
(* LEDs.                                                                   *)

(* led_cmd() and sync_one_led(): all the commands of LED x.                *)
Commands(x, leds) ==
  FlattenSeq([mode \in 1 .. Modes |->
    <<[led |-> x, mode |-> mode], Shows(leds[x])>>])

(* sync_one_dicer() for both units: the LEDs that are not synced and fit.  *)
Fitting(leds, room) ==
  FoldLeft(LAMBDA fit, x :
             IF leds[x].SYNCED \/ Len(fit) >= room \div (2 * Modes) THEN fit ELSE Append(fit, x),
           << >>, Order)

(* Mutant: an LED that did not fit counts as synced.                        *)
MarkedAll(leds, told) == [x \in Leds |-> [leds[x] EXCEPT !.SYNCED = TRUE]]
Marked(leds, told) == [x \in Leds |->
  IF x \in told THEN [leds[x] EXCEPT !.SYNCED = TRUE] ELSE leds[x]]

(* What remains of the buffer when z bytes were written: memmove() is told *)
(* to move z bytes, not the ofill - z that remain.                         *)
Remaining(bytes, z) ==
  [i \in 1 .. Len(bytes) - z |-> IF i <= z THEN bytes[i + z] ELSE bytes[i]]

(* The device: a colour goes to the LED that was addressed last.           *)
Receive(dev, byte) ==
  IF "mode" \in DOMAIN byte
  THEN [dev EXCEPT !.selected = <<byte.led, byte.mode>>]
  ELSE IF dev.selected = << >> THEN dev
       ELSE [dev EXCEPT !.shows[dev.selected] = byte]

Written(bytes) == FoldLeft(Receive, device, bytes)

Taken(n) == {z \in 0 .. n : ShortWrites \/ z = 0 \/ 2 * z >= n}

(* sync_all_leds(), of which the port takes z bytes; a z of 0 is also an   *)
(* error of midi_write(), which returns without touching the buffer.       *)
SyncAllLeds(leds) ==
  \E fit \in {Fitting(leds, OBUF - Len(obuf))} :
    /\ led' = Marked(leds, ToSet(fit))
    /\ \E bytes \in {obuf \o FlattenSeq([i \in DOMAIN fit |-> Commands(fit[i], leds)])} :
         \E z \in Taken(Len(bytes)) :
           /\ obuf' = Remaining(bytes, z)
           /\ device' = Written(SubSeq(bytes, 1, z))

(* realtime(), midi_read() returned nothing.                               *)
Sync == status = "ok" /\ SyncAllLeds(led) /\ UNCHANGED <<deckVars, status>>

(* The port takes all that there is.                                       *)
Drain == Sync /\ obuf' = << >>

(* clear(): the LEDs are put out, as far as the port takes it.             *)
Clear ==
  /\ status # "cleared"
  /\ status' = "cleared"
  /\ SyncAllLeds([x \in Leds |-> Lit(led[x], FALSE)])
  /\ UNCHANGED deckVars

-----------------------------------------------------------------------------
Press == \E d \in Decks, b \in Buttons : Event(d, b)
Elsewhere ==
  /\ status = "ok"                                            (* bound      *)
  /\ \E d \in Decks : MovePosition(d) \/ MoveOffset(d)
  /\ UNCHANGED <<led, obuf, status, device>>

Next == Press \/ ReadError \/ Sync \/ Clear \/ Elsewhere

Spec == Init /\ [][Next]_vars
FairSpec == Spec /\ SF_vars(Drain)

LedsTypeOK ==
  /\ led \in [Leds -> Led]
  /\ status \in {"ok", "fault", "cleared"}

(* Values are of their types, and obuf is never overrun.                   *)
TypeOK == CuesTypeOK /\ LedsTypeOK /\ Len(obuf) <= OBUF

(* A button is lit exactly if its cue point is set, whichever page and     *)
(* whatever order set, used and cleared it (event_decoded; the FIXME there *)
(* about being the only operator of the cue points).                       *)
LedsShowCues ==
  status # "cleared" =>
    \A d \in Decks, b \in Buttons : led[<<d, b>>].ON <=> cues[d][b] # CUE_UNSET

(* What the hardware has been sent, with what waits in obuf, shows every   *)
(* LED that is marked as synced as it is in memory (sync_all_leds).        *)
SyncedIsShown ==
  LET shown == Written(obuf).shows
  IN  \A x \in Leds, mode \in 1 .. Modes :
        led[x].SYNCED => shown[<<x, mode>>] = Shows(led[x])

(* When nobody presses a button any more, the hardware comes to show what  *)
(* is in memory, although the buffer may fill and writes may be short      *)
(* (sync_all_leds tops up a buffer that is not empty).                     *)
Settled == \A x \in Leds, mode \in 1 .. Modes : device.shows[<<x, mode>>] = Shows(led[x])
LedsSettle == <>[][~Press]_vars => <>[](Settled \/ status # "ok")
=============================================================================
