--------------------------------- MODULE Player ---------------------------------
(***************************************************************************)
(* The transport of one deck (player.c): the needle or the application     *)
(* drives it, in tracking or in relative mode, with a loop, a cue point    *)
(* and a track that the control worker changes under it.                   *)
(*                                                                         *)
(* The realtime thread carries out the commands of the control socket and  *)
(* player_collect(), one at a time.  A handler is cut where it returns     *)
(* from player_set_relative_mode(), and player_collect() where it has let  *)
(* go of the spin lock, because the worker's player_set_track() may come   *)
(* in between.  The worker holds the spin lock for the first part of       *)
(* player_set_track(); the fields after it are written without.            *)
(*                                                                         *)
(* Time and positions are in whole seconds and one buffer is one second    *)
(* long, so that pitch is also the distance a buffer covers.  Corrections  *)
(* smaller than SKIP_THRESHOLD (sync_pitch) are left out.                  *)
(***************************************************************************)
EXTENDS Integers

CONSTANTS
  Position,     (* the positions considered, an interval of Int            *)
  CueOffset,    (* --cue-offset, where the record's track start is         *)
  Safe,         (* timecoder_get_safe(): beyond is the runout              *)
  Pitches,      (* pitches of the needle, 0 when it is still               *)
  Seconds,      (* the arguments of SEEK, RELOCATE and SET_CUE             *)
  LoopRanges,   (* the arguments of LOOP                                   *)
  StoppedTicks, (* NEEDLE_STOPPED_SECONDS, in buffers                      *)
  Unreadable,   (* no position can be decoded (timecode == -1)             *)
  Patient,      (* the client waits for a load to end before it sends a    *)
                (* command that moves the transport, and conversely        *)
  Sdl           (* the interface runs (not --no-interface)                 *)

ASSUME PlayerAssumption ==
  /\ Position \subseteq Int /\ CueOffset \in Position /\ 0 \in Position
  /\ Safe \in Int
  /\ Pitches \subseteq Int /\ {0, 1} \subseteq Pitches
  /\ Seconds \subseteq Int
  /\ \A range \in LoopRanges : range[1] \in Int /\ range[2] \in Int
  /\ StoppedTicks \in Nat \ {0}
  /\ Unreadable \notin Int
  /\ {Patient, Sdl} \subseteq BOOLEAN

VARIABLES
  position, offset, pitch,
  timecode_control, recalibrate, timecode_valid, position_known,
  relative_mode, relative_playing,
  loop_active, loop_start, loop_end, cue_point,
  stopped_for,      (* in buffers                                          *)
  wpc,              (* the worker in player_set_track(), or "idle"         *)
  rpc,              (* the realtime thread in a handler, or "ready"        *)
  arg,              (* the range of the LOOP being handled                 *)
  readpos,          (* pl->position as player_collect() read it            *)
  was_in_loop,
  last              (* history: what was last asked of the transport       *)

place == <<position, offset>>
needle == <<timecode_valid, position_known, stopped_for>>
mode == <<relative_mode, relative_playing>>
loop == <<loop_active, loop_start, loop_end>>
vars == <<position, offset, pitch, timecode_control, recalibrate,
          timecode_valid, position_known, relative_mode, relative_playing,
          loop_active, loop_start, loop_end, cue_point, stopped_for, wpc, rpc,
          arg, readpos, was_in_loop, last>>

WorkerPCs == {"idle", "swap", "stop", "unloop", "recue"}
RtPCs == {"ready", "play", "playCue", "pause", "loop", "read", "advance"}
Asked == {"none", "load", "play", "pause", "hold", "mode", "internal"}

NoLoop == <<0, 0>>
Ranges == LoopRanges \cup {NoLoop}

Init ==
  /\ position = 0 /\ offset = CueOffset /\ pitch = 0
  /\ timecode_control = TRUE /\ recalibrate = FALSE
  /\ timecode_valid = FALSE /\ position_known = FALSE
  /\ relative_mode = FALSE /\ relative_playing = FALSE
  /\ loop_active = FALSE /\ loop_start = 0 /\ loop_end = 0
  /\ cue_point = CueOffset
  /\ stopped_for = 0
  /\ wpc = "idle" /\ rpc = "ready"
  /\ arg = NoLoop /\ readpos = 0 /\ was_in_loop = FALSE
  /\ last = "none"

Active == pitch # 0                     (* player_is_active()              *)
SpinLocked == wpc = "swap"

(* What was last asked, when the offset is moved: no longer a fresh load.  *)
Moved == IF last = "load" THEN "none" ELSE last
SmallerOf(a, b) == IF a < b THEN a ELSE b

(***************************************************************************)
(* The handlers of the control socket, on the realtime thread.             *)
(***************************************************************************)
Ready == rpc = "ready" /\ (Patient => wpc = "idle")

(* Mutant: leaving tracking stops the deck.                                *)
SetRelativeModeStops(on) ==
  /\ relative_mode' = on
  /\ UNCHANGED relative_playing
  /\ IF on THEN UNCHANGED <<offset, recalibrate, loop_active>>
     ELSE /\ offset' = CueOffset
          /\ recalibrate' = TRUE
          /\ loop_active' = FALSE

(* player_set_relative_mode()                                              *)
SetRelativeMode(on) ==
  /\ relative_mode' = on
  /\ relative_playing' = (relative_playing \/ (on /\ ~relative_mode /\ Active))
  /\ IF on THEN UNCHANGED <<offset, recalibrate, loop_active>>
     ELSE /\ offset' = CueOffset
          /\ recalibrate' = TRUE
          /\ loop_active' = FALSE

HandleRelative(on) ==
  /\ Ready
  /\ SetRelativeMode(on)
  /\ last' = IF on = relative_mode THEN last ELSE "mode"
  /\ UNCHANGED <<position, pitch, timecode_control, needle, loop_start,
                 loop_end, cue_point, wpc, rpc, arg, readpos, was_in_loop>>

(* PLAY, PLAY_CUE, PAUSE and LOOP begin by leaving tracking.               *)
Demote(to) ==
  /\ Ready
  /\ rpc' = to
  /\ SetRelativeMode(TRUE)
  /\ last' = IF relative_mode THEN last ELSE "mode"
  /\ UNCHANGED <<position, pitch, timecode_control, needle, loop_start,
                 loop_end, cue_point, wpc, readpos, was_in_loop>>

BeginPlay == Demote("play") /\ UNCHANGED arg
BeginPlayCue == Demote("playCue") /\ UNCHANGED arg
BeginPause == Demote("pause") /\ UNCHANGED arg
BeginLoop(range) == Demote("loop") /\ arg' = range

(* Mutant: the deck is left paused.                                        *)
PlayPaused ==
  /\ rpc = "play" /\ rpc' = "ready"
  /\ pitch' = 1
  /\ last' = "play"
  /\ UNCHANGED <<place, timecode_control, recalibrate, needle, mode, loop,
                 cue_point, wpc, arg, readpos, was_in_loop>>

Play ==
  /\ rpc = "play" /\ rpc' = "ready"
  /\ relative_playing' = TRUE
  /\ pitch' = 1
  /\ last' = "play"
  /\ UNCHANGED <<place, timecode_control, recalibrate, needle, relative_mode,
                 loop, cue_point, wpc, arg, readpos, was_in_loop>>

(* player_cue_play(): the jump is dropped if the worker has the spin lock. *)
PlayCue ==
  /\ rpc = "playCue" /\ rpc' = "ready"
  /\ position' = IF SpinLocked THEN position ELSE cue_point
  /\ relative_playing' = TRUE
  /\ pitch' = 1
  /\ last' = "play"
  /\ UNCHANGED <<offset, timecode_control, recalibrate, needle, relative_mode,
                 loop, cue_point, wpc, arg, readpos, was_in_loop>>

Pause ==
  /\ rpc = "pause" /\ rpc' = "ready"
  /\ relative_playing' = FALSE
  /\ last' = "pause"
  /\ UNCHANGED <<place, pitch, timecode_control, recalibrate, needle,
                 relative_mode, loop, cue_point, wpc, arg, readpos, was_in_loop>>

(* player_set_loop(), after player_set_relative_mode()                     *)
Loop ==
  /\ rpc = "loop" /\ rpc' = "ready"
  /\ loop_start' = offset + arg[1] /\ loop_end' = offset + arg[2]
  /\ loop_active' = TRUE
  /\ arg' = NoLoop
  /\ UNCHANGED <<place, pitch, timecode_control, recalibrate, needle, mode,
                 cue_point, wpc, readpos,
                 was_in_loop, last>>

ClearLoop ==
  /\ Ready
  /\ loop_active' = FALSE
  /\ UNCHANGED <<place, pitch, timecode_control, recalibrate, needle, mode,
                 loop_start, loop_end, cue_point, wpc, rpc, arg, readpos,
                 was_in_loop, last>>

(* player_jump_to_position(), for SEEK and GOTO_CUE                        *)
JumpAndHold(to) ==
  /\ Ready
  /\ to \in Position                              (* bound                 *)
  /\ position' = IF SpinLocked THEN position ELSE to
  /\ relative_playing' = FALSE
  /\ last' = "hold"
  /\ UNCHANGED <<offset, pitch, timecode_control, recalibrate, needle,
                 relative_mode, loop, cue_point, wpc, rpc, arg, readpos, was_in_loop>>

Seek(s) == JumpAndHold(offset + s)
GotoCue == JumpAndHold(cue_point)

Relocate(s) ==
  /\ Ready /\ ~SpinLocked
  /\ offset + s \in Position                      (* bound                 *)
  /\ position' = offset + s
  /\ UNCHANGED <<offset, pitch, timecode_control, recalibrate, needle, mode,
                 loop, cue_point, wpc, rpc, arg, readpos,
                 was_in_loop, last>>

SetCue(s) ==
  /\ Ready
  /\ offset + s \in Position                      (* bound                 *)
  /\ cue_point' = offset + s
  /\ UNCHANGED <<place, pitch, timecode_control, recalibrate, needle, mode,
                 loop, wpc, rpc, arg, readpos,
                 was_in_loop, last>>

(* A cue button of a Dicer: deck_cue() calls player_seek_to(), which moves *)
(* the offset instead of the position.                                     *)
SeekTo(s) ==
  /\ Ready
  /\ position - s \in Position                    (* bound                 *)
  /\ offset' = position - s
  /\ last' = Moved
  /\ UNCHANGED <<position, pitch, timecode_control, recalibrate, needle, mode,
                 loop, cue_point, wpc, rpc, arg, readpos, was_in_loop>>

(***************************************************************************)
(* player_collect(), for one buffer.                                       *)
(***************************************************************************)

(* sync_to_timecode() and retarget(), tracking, when the needle reads tc.  *)
FollowNeedle(tc, p) ==
  /\ pitch' = p
  /\ \/ /\ tc = Unreadable
        /\ stopped_for' = IF p = 0 THEN SmallerOf(stopped_for + 1, StoppedTicks)
                          ELSE 0
        /\ position_known' = (position_known /\ stopped_for' < StoppedTicks)
        /\ UNCHANGED <<position, recalibrate>>
     \/ /\ tc # Unreadable /\ tc > Safe
        /\ position_known' = FALSE
        /\ UNCHANGED <<position, recalibrate, stopped_for>>
     \/ /\ tc # Unreadable /\ tc <= Safe
        /\ position' = tc
        /\ recalibrate' = FALSE
        /\ position_known' = TRUE
        /\ stopped_for' = 0

(* sync_to_timecode_relative()                                             *)
Modulate(tc, p) ==
  /\ \/ ~relative_playing /\ pitch' = 0
     \/ relative_playing /\ tc # Unreadable /\ pitch' = p
     \/ relative_playing /\ tc = Unreadable /\ UNCHANGED pitch
  /\ UNCHANGED <<position, recalibrate, position_known, stopped_for>>

(* Up to the last use of the spin lock.                                    *)
Collect(tc, p) ==
  /\ rpc = "ready" /\ rpc' = "read"
  /\ \/ relative_mode /\ Modulate(tc, p) /\ timecode_valid' = (tc # Unreadable)
     \/ /\ ~relative_mode /\ timecode_control
        /\ FollowNeedle(tc, p)
        /\ timecode_valid' = (tc # Unreadable)
     \/ /\ ~relative_mode /\ ~timecode_control
        /\ UNCHANGED <<pitch, position, recalibrate, position_known, stopped_for,
                       timecode_valid>>
  /\ UNCHANGED <<offset, timecode_control, mode, loop, cue_point, wpc, arg,
                 readpos, was_in_loop, last>>

(* was_in_loop, and the read of position in position += r.                 *)
ReadPosition ==
  /\ rpc = "read" /\ rpc' = "advance"
  /\ readpos' = position
  /\ was_in_loop' = (relative_mode /\ loop_active
                      /\ loop_start <= position /\ position < loop_end)
  /\ UNCHANGED <<place, pitch, timecode_control, recalibrate, needle, mode, loop,
                 cue_point, wpc, arg, last>>

(* Mutant: a position just at the end of the loop is left there.           *)
WrappedPast(x) ==
  LET length == loop_end - loop_start
  IN  IF length <= 0 THEN x
      ELSE IF x > loop_end THEN loop_start + ((x - loop_start) % length)
      ELSE IF x < loop_start THEN loop_end - ((loop_start - x) % length)
      ELSE x

(* A buffer shorter than the loop; backwards by a whole number of loops    *)
(* would land on loop_end.                                                 *)
Wrapped(x) ==
  LET length == loop_end - loop_start
  IN  IF length <= 0 THEN x
      ELSE IF x >= loop_end THEN loop_start + ((x - loop_start) % length)
      ELSE IF x < loop_start THEN loop_end - ((loop_start - x) % length)
      ELSE x

(* Mutant: the position is wrapped whether or not it was inside.           *)
AdvanceAlwaysWraps ==
  /\ rpc = "advance" /\ rpc' = "ready"
  /\ position' = IF loop_active THEN Wrapped(readpos + pitch) ELSE readpos + pitch
  /\ position' \in Position
  /\ readpos' = 0 /\ was_in_loop' = FALSE
  /\ UNCHANGED <<offset, pitch, timecode_control, recalibrate, needle, mode, loop,
                 cue_point, wpc, arg, last>>

Advance ==
  /\ rpc = "advance" /\ rpc' = "ready"
  /\ position' = IF was_in_loop THEN Wrapped(readpos + pitch) ELSE readpos + pitch
  /\ position' \in Position                        (* bound                 *)
  /\ readpos' = 0 /\ was_in_loop' = FALSE
  /\ UNCHANGED <<offset, pitch, timecode_control, recalibrate, needle, mode, loop,
                 cue_point, wpc, arg, last>>

(***************************************************************************)
(* The interface, on the SDL thread.                                       *)
(***************************************************************************)
ToggleTimecodeControl ==
  /\ timecode_control' = ~timecode_control
  /\ recalibrate' = (recalibrate \/ ~timecode_control)
  /\ UNCHANGED <<place, pitch, needle, mode, loop, cue_point, wpc, rpc, arg,
                 readpos, was_in_loop, last>>

SetInternalPlayback ==
  /\ timecode_control' = FALSE
  /\ pitch' = 1
  /\ last' = "internal"
  /\ UNCHANGED <<place, recalibrate, needle, mode, loop, cue_point, wpc, rpc,
                 arg, readpos, was_in_loop>>

(* deck_recue()                                                            *)
Recue ==
  /\ Patient => wpc = "idle"
  /\ offset' = position
  /\ last' = Moved
  /\ UNCHANGED <<position, pitch, timecode_control, recalibrate, needle, mode,
                 loop, cue_point, wpc, rpc, arg, readpos, was_in_loop>>

(***************************************************************************)
(* player_set_track(), on the control worker.                              *)
(***************************************************************************)
LockSpin ==
  /\ wpc = "idle" /\ wpc' = "swap"
  /\ Patient => rpc \in {"ready", "read", "advance"}
  /\ UNCHANGED <<place, pitch, timecode_control, recalibrate, needle, mode, loop,
                 cue_point, rpc, arg, readpos, was_in_loop, last>>

(* Mutant: the offset is only put back when the deck is tracking.          *)
SwapKeepsOffset ==
  /\ wpc = "swap" /\ wpc' = "stop"
  /\ offset' = IF relative_mode THEN offset ELSE CueOffset
  /\ relative_mode' = FALSE
  /\ position' = IF timecode_valid THEN position ELSE offset'
  /\ UNCHANGED <<pitch, timecode_control, recalibrate, needle, relative_playing,
                 loop, cue_point, rpc, arg, readpos, was_in_loop, last>>

Swap ==
  /\ wpc = "swap" /\ wpc' = "stop"
  /\ offset' = CueOffset
  /\ relative_mode' = FALSE
  /\ position' = IF timecode_valid THEN position ELSE offset'
  /\ UNCHANGED <<pitch, timecode_control, recalibrate, needle, relative_playing,
                 loop, cue_point, rpc, arg, readpos, was_in_loop, last>>

StopPlaying ==
  /\ wpc = "stop" /\ wpc' = "unloop"
  /\ relative_playing' = FALSE
  /\ UNCHANGED <<place, pitch, timecode_control, recalibrate, needle,
                 relative_mode, loop, cue_point, rpc, arg, readpos, was_in_loop,
                 last>>

Unloop ==
  /\ wpc = "unloop" /\ wpc' = "recue"
  /\ loop_active' = FALSE
  /\ UNCHANGED <<place, pitch, timecode_control, recalibrate, needle, mode,
                 loop_start, loop_end, cue_point, rpc, arg, readpos, was_in_loop,
                 last>>

ResetCue ==
  /\ wpc = "recue" /\ wpc' = "idle"
  /\ cue_point' = offset
  /\ last' = "load"
  /\ UNCHANGED <<place, pitch, timecode_control, recalibrate, needle, mode, loop,
                 rpc, arg, readpos, was_in_loop>>

(***************************************************************************)
(* Specification.                                                          *)
(***************************************************************************)
Timecodes == {t \in Position : t >= 0} \cup {Unreadable}

Transport ==
  \/ \E on \in BOOLEAN : HandleRelative(on)
  \/ BeginPlay \/ Play
  \/ BeginPlayCue \/ PlayCue
  \/ BeginPause \/ Pause
  \/ \E range \in LoopRanges : BeginLoop(range)
  \/ Loop \/ ClearLoop
  \/ \E s \in Seconds : Seek(s) \/ Relocate(s) \/ SetCue(s) \/ SeekTo(s)
  \/ GotoCue

Buffer ==
  \/ \E tc \in Timecodes, p \in Pitches : Collect(tc, p)
  \/ ReadPosition
  \/ Advance

Interface ==
  /\ Sdl
  /\ ToggleTimecodeControl \/ SetInternalPlayback \/ Recue

SetTrack == LockSpin \/ Swap \/ StopPlaying \/ Unloop \/ ResetCue

Next == Transport \/ Buffer \/ Interface \/ SetTrack

Spec == Init /\ [][Next]_vars

(***************************************************************************)
(* Properties.                                                             *)
(***************************************************************************)
Quiet == rpc = "ready" /\ wpc = "idle"
Inside(x) == loop_start <= x /\ x < loop_end

(* The types of the variables.                                             *)
TypeOK ==
  /\ {position, offset, cue_point, readpos} \subseteq Position
  /\ pitch \in Pitches
  /\ {loop_start, loop_end} \subseteq Int
  /\ {timecode_control, recalibrate, timecode_valid, position_known,
      relative_mode, relative_playing, loop_active, was_in_loop} \subseteq BOOLEAN
  /\ stopped_for \in 0..StoppedTicks
  /\ wpc \in WorkerPCs /\ rpc \in RtPCs /\ arg \in Ranges /\ last \in Asked

(* Once no command or load is under way a loop is only armed with the      *)
(* deck out of tracking: "A loop cannot run with tracking on"              *)
(* (player_set_relative_mode()), and every command and load must keep the  *)
(* two fields in step though they write them separately.                   *)
LoopNeedsRelative == Quiet /\ loop_active => relative_mode

(* A load that no command overlaps leaves the deck tracking, paused, with  *)
(* the record's own calibration and no loop, whatever the last track was   *)
(* doing and however player_collect() interleaves with player_set_track(). *)
FreshAfterLoad ==
  Quiet /\ last = "load" =>
    /\ ~relative_mode /\ ~relative_playing /\ ~loop_active
    /\ offset = CueOffset

(* The last of PLAY, PLAY_CUE, PAUSE, SEEK and GOTO_CUE decides whether    *)
(* the deck plays in relative mode; no buffer, mode change that is not a   *)
(* change, loop or interface key undoes it.                                *)
TransportObeyed ==
  Quiet =>
    /\ last = "play" => relative_mode /\ relative_playing
    /\ last = "pause" => relative_mode /\ ~relative_playing
    /\ last = "hold" => ~relative_playing

(* In relative mode a needle that gives no signal never stops a deck: only *)
(* PAUSE, SEEK and GOTO_CUE do.  In particular taking a deck out of        *)
(* tracking, for a loop or by hand, while the needle turns and then        *)
(* lifting the needle lets it play on.                                     *)
LiftedNeedleHolds ==
  [][rpc = "ready" /\ rpc' = "read" /\ relative_mode /\ ~timecode_valid'
       /\ pitch # 0 /\ pitch' = 0
     => last \in {"pause", "hold", "internal"}]_vars

(* A buffer that starts inside an armed loop in relative mode ends inside  *)
(* it, at whatever pitch and even when the track changes meanwhile, as     *)
(* long as the loop is longer than a buffer (player_set_loop(): "over      *)
(* [start_seconds, end_seconds)").                                         *)
LoopHolds ==
  [][rpc = "advance" /\ rpc' = "ready" /\ relative_mode /\ loop_active
       /\ Inside(readpos) => Inside(position')]_vars

(* A jump that lands outside an armed loop plays on, and is not wrapped    *)
(* into it.                                                                *)
OutsidePlaysOn ==
  [][rpc = "advance" /\ rpc' = "ready" /\ readpos = position /\ loop_active
       /\ ~Inside(readpos) => position' = position + pitch]_vars

(* Without a needle, the buffer during which the track changes goes on     *)
(* from the new track's start.                                             *)
ResetNotLost ==
  [][rpc = "advance" /\ rpc' = "ready" /\ wpc # "idle" /\ ~timecode_valid
       /\ readpos # position => position' = position + pitch]_vars
=============================================================================
