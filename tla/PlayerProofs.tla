----------------------------- MODULE PlayerProofs -----------------------------
(***************************************************************************)
(* What holds of the player for all positions, pitches, loops and times.   *)
(* The first part needs no hypothesis.  The second is about a client that  *)
(* waits for its loads (Patient): without it a load and a command can each *)
(* undo half of the other.                                                 *)
(***************************************************************************)
EXTENDS Player, TLAPS

(***************************************************************************)
(* Loops.                                                                  *)
(***************************************************************************)

(* What player_collect() has read of the loop is still true when it stores *)
(* the position: the loop may be dropped by a load meanwhile, not moved.   *)
ReadInLoop ==
  rpc = "advance" =>
    /\ was_in_loop => Inside(readpos)
    /\ relative_mode /\ loop_active /\ Inside(readpos) => was_in_loop

(* A loop is as long as a client asked for.                                *)
LoopLength ==
  /\ rpc = "loop" => arg \in LoopRanges
  /\ loop_active => \E range \in LoopRanges :
                      loop_end - loop_start = range[2] - range[1]

LInv == TypeOK /\ ReadInLoop /\ LoopLength

(* No buffer is as long as a loop, turned backwards.                       *)
LoopsOutlastBuffers ==
  \A range \in LoopRanges, p \in Pitches :
    range[1] < range[2] => 0 < p + (range[2] - range[1])

(***************************************************************************)
(* A client that waits for its loads.                                      *)
(***************************************************************************)
Handling == rpc \in {"play", "playCue", "pause", "loop"}
Untouched == wpc \in {"idle", "swap"}     (* no load has written a field   *)

(* A handler is past player_set_relative_mode() and no load is under way.  *)
HandlersAlone == Handling => wpc = "idle" /\ relative_mode

(* What player_set_track() has done so far stays done.                     *)
LoadProgress ==
  /\ ~Untouched => ~relative_mode /\ offset = CueOffset
  /\ wpc \in {"unloop", "recue"} => ~relative_playing
  /\ wpc = "recue" => ~loop_active

LoopOnlyRelative == loop_active => relative_mode \/ wpc \in {"stop", "unloop"}

StillFresh ==
  Untouched /\ last = "load" =>
    /\ ~relative_mode /\ ~relative_playing /\ ~loop_active
    /\ offset = CueOffset

Obeyed ==
  Untouched =>
    /\ last = "play" => relative_mode /\ relative_playing
    /\ last = "pause" => relative_mode /\ ~relative_playing
    /\ last = "hold" => ~relative_playing

(* A deck held in relative mode that still moves was just told to stop.    *)
HeldOnRequest ==
  relative_mode /\ ~relative_playing /\ pitch # 0
    => last \in {"pause", "hold", "internal"}

CInv ==
  /\ HandlersAlone /\ LoadProgress /\ LoopOnlyRelative
  /\ StillFresh /\ Obeyed /\ HeldOnRequest

(***************************************************************************)
(* Every step keeps the parts of the invariants.                           *)
(***************************************************************************)

(* Every step keeps the types.                                             *)
LEMMA TypeStep ==
  ASSUME LInv, [Next]_vars
  PROVE  TypeOK'
<1> USE PlayerAssumption DEF LInv, TypeOK, LoopLength, place, needle, mode, loop,
      WorkerPCs, RtPCs, Asked, Ranges, NoLoop, Ready
<1>1. ASSUME NEW on \in BOOLEAN, HandleRelative(on) PROVE TypeOK'
  BY <1>1 DEF HandleRelative, SetRelativeMode, Active
<1>2. ASSUME BeginPlay PROVE TypeOK'
  BY <1>2 DEF BeginPlay, Demote, SetRelativeMode, Active
<1>3. ASSUME BeginPlayCue PROVE TypeOK'
  BY <1>3 DEF BeginPlayCue, Demote, SetRelativeMode, Active
<1>4. ASSUME BeginPause PROVE TypeOK'
  BY <1>4 DEF BeginPause, Demote, SetRelativeMode, Active
<1>5. ASSUME NEW range \in LoopRanges, BeginLoop(range) PROVE TypeOK'
  BY <1>5 DEF BeginLoop, Demote, SetRelativeMode, Active
<1>6. ASSUME Play PROVE TypeOK'
  BY <1>6 DEF Play
<1>7. ASSUME PlayCue PROVE TypeOK'
  BY <1>7 DEF PlayCue
<1>8. ASSUME Pause PROVE TypeOK'
  BY <1>8 DEF Pause
<1>9. ASSUME Loop PROVE TypeOK'
  BY <1>9 DEF Loop
<1>10. ASSUME ClearLoop PROVE TypeOK'
  BY <1>10 DEF ClearLoop
<1>11. ASSUME NEW to, JumpAndHold(to) PROVE TypeOK'
  BY <1>11 DEF JumpAndHold
<1>12. ASSUME NEW s \in Seconds, Relocate(s) PROVE TypeOK'
  BY <1>12 DEF Relocate
<1>13. ASSUME NEW s \in Seconds, SetCue(s) PROVE TypeOK'
  BY <1>13 DEF SetCue
<1>14. ASSUME NEW s \in Seconds, SeekTo(s) PROVE TypeOK'
  BY <1>14 DEF SeekTo, Moved
<1>15. ASSUME NEW tc \in Timecodes, NEW p \in Pitches, Collect(tc, p)
      PROVE  TypeOK'
  <2>2. position' \in Position /\ pitch' \in Pitches
    BY <1>15 DEF Collect, FollowNeedle, Modulate, Timecodes
  <2>3. stopped_for' \in 0..StoppedTicks
    BY <1>15 DEF Collect, FollowNeedle, Modulate, SmallerOf
  <2>4. {timecode_valid, position_known, recalibrate}' \subseteq BOOLEAN
    BY <1>15 DEF Collect, FollowNeedle, Modulate
  <2>. QED BY <1>15, <2>2, <2>3, <2>4 DEF Collect
<1>16. ASSUME ReadPosition PROVE TypeOK'
  BY <1>16 DEF ReadPosition
<1>17. ASSUME Advance PROVE TypeOK'
  BY <1>17 DEF Advance
<1>18. ASSUME ToggleTimecodeControl PROVE TypeOK'
  BY <1>18 DEF ToggleTimecodeControl
<1>19. ASSUME SetInternalPlayback PROVE TypeOK'
  BY <1>19 DEF SetInternalPlayback
<1>20. ASSUME Recue PROVE TypeOK'
  BY <1>20 DEF Recue, Moved
<1>21. ASSUME LockSpin PROVE TypeOK'
  BY <1>21 DEF LockSpin
<1>22. ASSUME Swap PROVE TypeOK'
  BY <1>22 DEF Swap
<1>23. ASSUME StopPlaying PROVE TypeOK'
  BY <1>23 DEF StopPlaying
<1>24. ASSUME Unloop PROVE TypeOK'
  BY <1>24 DEF Unloop
<1>25. ASSUME ResetCue PROVE TypeOK'
  BY <1>25 DEF ResetCue
<1>26. CASE UNCHANGED vars
  BY <1>26 DEF vars
<1>27. CASE Transport
  BY <1>27, <1>1, <1>2, <1>3, <1>4, <1>5, <1>6, <1>7, <1>8, <1>9, <1>10,
     <1>11, <1>12, <1>13, <1>14 DEF Transport, Seek, GotoCue
<1>28. CASE Buffer
  BY <1>28, <1>15, <1>16, <1>17 DEF Buffer
<1>29. CASE Interface
  BY <1>29, <1>18, <1>19, <1>20 DEF Interface
<1>30. CASE SetTrack
  BY <1>30, <1>21, <1>22, <1>23, <1>24, <1>25 DEF SetTrack
<1>. QED BY <1>26, <1>27, <1>28, <1>29, <1>30 DEF Next

(* Every step keeps what is known of the loop.                             *)
LEMMA LoopStep ==
  ASSUME LInv, [Next]_vars
  PROVE  ReadInLoop' /\ LoopLength'
<1> USE PlayerAssumption DEF LInv, TypeOK, ReadInLoop, LoopLength, Inside, place,
      needle, mode, loop, Ready
<1>1. ASSUME NEW on \in BOOLEAN, HandleRelative(on) PROVE ReadInLoop' /\ LoopLength'
  BY <1>1 DEF HandleRelative, SetRelativeMode, Active
<1>2. ASSUME BeginPlay PROVE ReadInLoop' /\ LoopLength'
  BY <1>2 DEF BeginPlay, Demote, SetRelativeMode, Active
<1>3. ASSUME BeginPlayCue PROVE ReadInLoop' /\ LoopLength'
  BY <1>3 DEF BeginPlayCue, Demote, SetRelativeMode, Active
<1>4. ASSUME BeginPause PROVE ReadInLoop' /\ LoopLength'
  BY <1>4 DEF BeginPause, Demote, SetRelativeMode, Active
<1>5. ASSUME NEW range \in LoopRanges, BeginLoop(range) PROVE ReadInLoop' /\ LoopLength'
  BY <1>5 DEF BeginLoop, Demote, SetRelativeMode, Active
<1>6. ASSUME Play PROVE ReadInLoop' /\ LoopLength'
  BY <1>6 DEF Play
<1>7. ASSUME PlayCue PROVE ReadInLoop' /\ LoopLength'
  BY <1>7 DEF PlayCue
<1>8. ASSUME Pause PROVE ReadInLoop' /\ LoopLength'
  BY <1>8 DEF Pause
<1>9. ASSUME Loop PROVE ReadInLoop' /\ LoopLength'
  <2>1. arg \in LoopRanges /\ arg[1] \in Int /\ arg[2] \in Int /\ offset \in Int
    BY <1>9 DEF Loop
  <2>2. loop_end' - loop_start' = arg[2] - arg[1]
    BY <1>9, <2>1 DEF Loop
  <2>. QED BY <1>9, <2>1, <2>2 DEF Loop
<1>10. ASSUME ClearLoop PROVE ReadInLoop' /\ LoopLength'
  BY <1>10 DEF ClearLoop
<1>11. ASSUME NEW to, JumpAndHold(to) PROVE ReadInLoop' /\ LoopLength'
  BY <1>11 DEF JumpAndHold
<1>12. ASSUME NEW s \in Seconds, Relocate(s) PROVE ReadInLoop' /\ LoopLength'
  BY <1>12 DEF Relocate
<1>13. ASSUME NEW s \in Seconds, SetCue(s) PROVE ReadInLoop' /\ LoopLength'
  BY <1>13 DEF SetCue
<1>14. ASSUME NEW s \in Seconds, SeekTo(s) PROVE ReadInLoop' /\ LoopLength'
  BY <1>14 DEF SeekTo, Moved
<1>15. ASSUME NEW tc \in Timecodes, NEW p \in Pitches, Collect(tc, p) PROVE ReadInLoop' /\ LoopLength'
  BY <1>15 DEF Collect, FollowNeedle, Modulate, Timecodes, SmallerOf
<1>16. ASSUME ReadPosition PROVE ReadInLoop' /\ LoopLength'
  BY <1>16 DEF ReadPosition
<1>17. ASSUME Advance PROVE ReadInLoop' /\ LoopLength'
  BY <1>17 DEF Advance
<1>18. ASSUME ToggleTimecodeControl PROVE ReadInLoop' /\ LoopLength'
  BY <1>18 DEF ToggleTimecodeControl
<1>19. ASSUME SetInternalPlayback PROVE ReadInLoop' /\ LoopLength'
  BY <1>19 DEF SetInternalPlayback
<1>20. ASSUME Recue PROVE ReadInLoop' /\ LoopLength'
  BY <1>20 DEF Recue, Moved
<1>21. ASSUME LockSpin PROVE ReadInLoop' /\ LoopLength'
  BY <1>21 DEF LockSpin
<1>22. ASSUME Swap PROVE ReadInLoop' /\ LoopLength'
  BY <1>22 DEF Swap
<1>23. ASSUME StopPlaying PROVE ReadInLoop' /\ LoopLength'
  BY <1>23 DEF StopPlaying
<1>24. ASSUME Unloop PROVE ReadInLoop' /\ LoopLength'
  BY <1>24 DEF Unloop
<1>25. ASSUME ResetCue PROVE ReadInLoop' /\ LoopLength'
  BY <1>25 DEF ResetCue
<1>26. CASE UNCHANGED vars
  BY <1>26 DEF vars
<1>27. CASE Transport
  BY <1>27, <1>1, <1>2, <1>3, <1>4, <1>5, <1>6, <1>7, <1>8, <1>9, <1>10,
     <1>11, <1>12, <1>13, <1>14 DEF Transport, Seek, GotoCue
<1>28. CASE Buffer
  BY <1>28, <1>15, <1>16, <1>17 DEF Buffer
<1>29. CASE Interface
  BY <1>29, <1>18, <1>19, <1>20 DEF Interface
<1>30. CASE SetTrack
  BY <1>30, <1>21, <1>22, <1>23, <1>24, <1>25 DEF SetTrack
<1>. QED BY <1>26, <1>27, <1>28, <1>29, <1>30 DEF Next

(* Every step keeps what is known of a client that waits for its loads.    *)
LEMMA ClientStep ==
  ASSUME Patient, TypeOK, CInv, [Next]_vars
  PROVE  CInv'
<1> USE PlayerAssumption DEF TypeOK, CInv, HandlersAlone, LoadProgress,
      LoopOnlyRelative, StillFresh, Obeyed, HeldOnRequest, Handling, Untouched,
      place, needle, mode, loop, Ready
<1>1. ASSUME NEW on \in BOOLEAN, HandleRelative(on) PROVE CInv'
  BY <1>1 DEF HandleRelative, SetRelativeMode, Active
<1>2. ASSUME BeginPlay PROVE CInv'
  BY <1>2 DEF BeginPlay, Demote, SetRelativeMode, Active
<1>3. ASSUME BeginPlayCue PROVE CInv'
  BY <1>3 DEF BeginPlayCue, Demote, SetRelativeMode, Active
<1>4. ASSUME BeginPause PROVE CInv'
  BY <1>4 DEF BeginPause, Demote, SetRelativeMode, Active
<1>5. ASSUME NEW range \in LoopRanges, BeginLoop(range) PROVE CInv'
  BY <1>5 DEF BeginLoop, Demote, SetRelativeMode, Active
<1>6. ASSUME Play PROVE CInv'
  BY <1>6 DEF Play
<1>7. ASSUME PlayCue PROVE CInv'
  BY <1>7 DEF PlayCue
<1>8. ASSUME Pause PROVE CInv'
  BY <1>8 DEF Pause
<1>9. ASSUME Loop PROVE CInv'
  BY <1>9 DEF Loop
<1>10. ASSUME ClearLoop PROVE CInv'
  BY <1>10 DEF ClearLoop
<1>11. ASSUME NEW to, JumpAndHold(to) PROVE CInv'
  BY <1>11 DEF JumpAndHold
<1>12. ASSUME NEW s \in Seconds, Relocate(s) PROVE CInv'
  BY <1>12 DEF Relocate
<1>13. ASSUME NEW s \in Seconds, SetCue(s) PROVE CInv'
  BY <1>13 DEF SetCue
<1>14. ASSUME NEW s \in Seconds, SeekTo(s) PROVE CInv'
  BY <1>14 DEF SeekTo, Moved
<1>15. ASSUME NEW tc \in Timecodes, NEW p \in Pitches, Collect(tc, p) PROVE CInv'
  BY <1>15 DEF Collect, FollowNeedle, Modulate, Timecodes, SmallerOf
<1>16. ASSUME ReadPosition PROVE CInv'
  BY <1>16 DEF ReadPosition
<1>17. ASSUME Advance PROVE CInv'
  BY <1>17 DEF Advance
<1>18. ASSUME ToggleTimecodeControl PROVE CInv'
  BY <1>18 DEF ToggleTimecodeControl
<1>19. ASSUME SetInternalPlayback PROVE CInv'
  BY <1>19 DEF SetInternalPlayback
<1>20. ASSUME Recue PROVE CInv'
  BY <1>20 DEF Recue, Moved
<1>21. ASSUME LockSpin PROVE CInv'
  BY <1>21 DEF LockSpin
<1>22. ASSUME Swap PROVE CInv'
  BY <1>22 DEF Swap
<1>23. ASSUME StopPlaying PROVE CInv'
  BY <1>23 DEF StopPlaying
<1>24. ASSUME Unloop PROVE CInv'
  BY <1>24 DEF Unloop
<1>25. ASSUME ResetCue PROVE CInv'
  BY <1>25 DEF ResetCue
<1>26. CASE UNCHANGED vars
  BY <1>26 DEF vars
<1>27. CASE Transport
  BY <1>27, <1>1, <1>2, <1>3, <1>4, <1>5, <1>6, <1>7, <1>8, <1>9, <1>10,
     <1>11, <1>12, <1>13, <1>14 DEF Transport, Seek, GotoCue
<1>28. CASE Buffer
  BY <1>28, <1>15, <1>16, <1>17 DEF Buffer
<1>29. CASE Interface
  BY <1>29, <1>18, <1>19, <1>20 DEF Interface
<1>30. CASE SetTrack
  BY <1>30, <1>21, <1>22, <1>23, <1>24, <1>25 DEF SetTrack
<1>. QED BY <1>26, <1>27, <1>28, <1>29, <1>30 DEF Next

(* Only Advance ends a buffer, and only Collect begins one.                *)
LEMMA OnlyAdvance ==
  ASSUME [Next]_vars, rpc = "advance", rpc' = "ready"
  PROVE  Advance
<1>1. CASE Transport
  BY <1>1 DEF Transport, HandleRelative, BeginPlay, BeginPlayCue, BeginPause,
     BeginLoop, Demote, Play, PlayCue, Pause, Loop, ClearLoop, Seek, GotoCue,
     JumpAndHold, Relocate, SetCue, SeekTo, Ready
<1>2. CASE Buffer
  BY <1>2 DEF Buffer, Collect, ReadPosition
<1>3. CASE Interface
  BY <1>3 DEF Interface, ToggleTimecodeControl, SetInternalPlayback, Recue
<1>4. CASE SetTrack
  BY <1>4 DEF SetTrack, LockSpin, Swap, StopPlaying, Unloop, ResetCue
<1>. QED BY <1>1, <1>2, <1>3, <1>4 DEF Next, vars

(* See above.                                                              *)
LEMMA OnlyCollect ==
  ASSUME [Next]_vars, rpc = "ready", rpc' = "read"
  PROVE  \E tc \in Timecodes, p \in Pitches : Collect(tc, p)
<1>1. CASE Transport
  BY <1>1 DEF Transport, HandleRelative, BeginPlay, BeginPlayCue, BeginPause,
     BeginLoop, Demote, Play, PlayCue, Pause, Loop, ClearLoop, Seek, GotoCue,
     JumpAndHold, Relocate, SetCue, SeekTo, Ready
<1>2. CASE Buffer
  BY <1>2 DEF Buffer, ReadPosition, Advance
<1>3. CASE Interface
  BY <1>3 DEF Interface, ToggleTimecodeControl, SetInternalPlayback, Recue
<1>4. CASE SetTrack
  BY <1>4 DEF SetTrack, LockSpin, Swap, StopPlaying, Unloop, ResetCue
<1>. QED BY <1>1, <1>2, <1>3, <1>4 DEF Next, vars

(***************************************************************************)
(* Theorems.                                                               *)
(***************************************************************************)

(* The types and the facts about loops are an inductive invariant, whoever *)
(* sends commands while a track is being loaded.                           *)
THEOREM LoopInvariant == Spec => []LInv
<1>1. ASSUME Init PROVE LInv
  <2>. USE <1>1 DEF Init
  <2>1. /\ {position, offset, cue_point, readpos} \subseteq Position
        /\ pitch \in Pitches /\ {loop_start, loop_end} \subseteq Int
        /\ stopped_for \in 0..StoppedTicks
    BY PlayerAssumption
  <2>2. TypeOK
    BY <2>1 DEF TypeOK, WorkerPCs, RtPCs, Asked, Ranges, NoLoop
  <2>. QED BY <2>2 DEF LInv, ReadInLoop, LoopLength
<1>2. LInv /\ [Next]_vars => LInv'
  BY TypeStep, LoopStep DEF LInv
<1>. QED BY <1>1, <1>2, PTL DEF Spec

(* Type correctness of the player.                                         *)
THEOREM TypeCorrect == Spec => []TypeOK
<1>1. LInv => TypeOK
  BY DEF LInv
<1>. QED BY <1>1, LoopInvariant, PTL

(* The remainder that wraps a position is a place inside the loop.         *)
LEMMA WrappedInside ==
  ASSUME LInv, LoopsOutlastBuffers, loop_active, Inside(readpos)
  PROVE  Inside(Wrapped(readpos + pitch))
<1>. DEFINE length == loop_end - loop_start
            x == readpos + pitch
<1>1. PICK range \in LoopRanges : length = range[2] - range[1]
  BY DEF LInv, LoopLength
<1>2. /\ readpos \in Int /\ pitch \in Int /\ loop_start \in Int /\ loop_end \in Int
      /\ length \in Int /\ x \in Int /\ range[1] \in Int /\ range[2] \in Int
  <2>1. readpos \in Int /\ pitch \in Int /\ loop_start \in Int /\ loop_end \in Int
    BY PlayerAssumption DEF LInv, TypeOK
  <2>. QED BY <2>1, PlayerAssumption
<1>3. 0 < length /\ range[1] < range[2]
  BY <1>1, <1>2 DEF Inside
<1>4. 0 < pitch + length
  BY <1>1, <1>3 DEF LoopsOutlastBuffers, LInv, TypeOK
<1>5. CASE loop_end <= x
  <2>1. (x - loop_start) % length \in 0..(length - 1)
    BY <1>2, <1>3
  <2>2. Wrapped(x) = loop_start + ((x - loop_start) % length)
    BY <1>2, <1>3, <1>5 DEF Wrapped
  <2>. HIDE DEF x, length
  <2>3. Inside(loop_start + ((x - loop_start) % length))
    BY <1>2, <2>1 DEF Inside, length
  <2>. QED BY <2>2, <2>3 DEF x
<1>6. CASE x < loop_start
  <2>1. loop_start - x \in 1..(length - 1)
    BY <1>2, <1>4, <1>6 DEF Inside
  <2>2. (loop_start - x) % length = loop_start - x
    BY <1>2, <1>3, <2>1
  <2>3. Wrapped(x) = loop_end - (loop_start - x)
    BY <1>2, <1>3, <1>6, <2>2 DEF Wrapped
  <2>. QED BY <1>2, <2>1, <2>3 DEF Inside
<1>7. CASE loop_start <= x /\ x < loop_end
  BY <1>2, <1>3, <1>7 DEF Wrapped, Inside
<1>. QED BY <1>2, <1>5, <1>6, <1>7

(* A loop longer than a buffer holds the position, whatever the needle     *)
(* does and even when the track changes meanwhile.                         *)
THEOREM LoopsHold ==
  ASSUME LoopsOutlastBuffers
  PROVE  Spec => LoopHolds
<1>1. ASSUME LInv, [Next]_vars
      PROVE  [rpc = "advance" /\ rpc' = "ready" /\ relative_mode /\ loop_active
                /\ Inside(readpos) => Inside(position')]_vars
  <2>. SUFFICES ASSUME rpc = "advance", rpc' = "ready", relative_mode,
                       loop_active, Inside(readpos)
                PROVE  Inside(position')
    OBVIOUS
  <2>1. Advance
    BY <1>1, OnlyAdvance
  <2>2. was_in_loop
    BY <1>1 DEF LInv, ReadInLoop
  <2>. QED BY <1>1, <2>1, <2>2, WrappedInside DEF Advance
<1>. QED BY <1>1, LoopInvariant, PTL DEF Spec, LoopHolds

(* A jump outside a loop is not dragged into it.                           *)
THEOREM JumpsOutsidePlayOn == Spec => OutsidePlaysOn
<1>1. ASSUME LInv, [Next]_vars
      PROVE  [rpc = "advance" /\ rpc' = "ready" /\ readpos = position
                /\ loop_active /\ ~Inside(readpos)
              => position' = position + pitch]_vars
  <2>. SUFFICES ASSUME rpc = "advance", rpc' = "ready", readpos = position,
                       ~Inside(readpos)
                PROVE  position' = position + pitch
    OBVIOUS
  <2>1. Advance
    BY <1>1, OnlyAdvance
  <2>2. ~was_in_loop
    BY <1>1 DEF LInv, ReadInLoop
  <2>. QED BY <2>1, <2>2 DEF Advance
<1>. QED BY <1>1, LoopInvariant, PTL DEF Spec, OutsidePlaysOn

(* The facts about a client that waits for its loads are invariant.        *)
THEOREM ClientInvariant ==
  ASSUME Patient
  PROVE  Spec => []CInv
<1>1. Init => CInv
  BY DEF Init, CInv, HandlersAlone, LoadProgress, LoopOnlyRelative, StillFresh,
         Obeyed, HeldOnRequest, Handling, Untouched
<1>2. TypeOK /\ CInv /\ [Next]_vars => CInv'
  BY ClientStep
<1>. QED BY <1>1, <1>2, TypeCorrect, PTL DEF Spec

(* A loop is never left armed on a tracking deck.                          *)
THEOREM LoopLeavesTracking ==
  ASSUME Patient
  PROVE  Spec => []LoopNeedsRelative
<1>1. CInv => LoopNeedsRelative
  BY DEF CInv, LoopOnlyRelative, LoopNeedsRelative, Quiet
<1>. QED BY <1>1, ClientInvariant, PTL

(* A load leaves the deck tracking, paused and calibrated.                 *)
THEOREM LoadsFresh ==
  ASSUME Patient
  PROVE  Spec => []FreshAfterLoad
<1>1. CInv => FreshAfterLoad
  BY DEF CInv, StillFresh, FreshAfterLoad, Quiet, Untouched
<1>. QED BY <1>1, ClientInvariant, PTL

(* The last transport command decides whether the deck plays.              *)
THEOREM CommandsObeyed ==
  ASSUME Patient
  PROVE  Spec => []TransportObeyed
<1>1. CInv => TransportObeyed
  BY DEF CInv, Obeyed, TransportObeyed, Quiet, Untouched
<1>. QED BY <1>1, ClientInvariant, PTL

(* Lifting the needle never stops a deck that the application drives.      *)
THEOREM LiftingHolds ==
  ASSUME Patient
  PROVE  Spec => LiftedNeedleHolds
<1>1. ASSUME CInv, [Next]_vars
      PROVE  [rpc = "ready" /\ rpc' = "read" /\ relative_mode
                /\ ~timecode_valid' /\ pitch # 0 /\ pitch' = 0
              => last \in {"pause", "hold", "internal"}]_vars
  <2>. SUFFICES ASSUME rpc = "ready", rpc' = "read", relative_mode,
                       ~timecode_valid', pitch # 0, pitch' = 0
                PROVE  last \in {"pause", "hold", "internal"}
    OBVIOUS
  <2>1. PICK tc \in Timecodes, p \in Pitches : Collect(tc, p)
    BY <1>1, OnlyCollect
  <2>2. ~relative_playing
    BY <2>1 DEF Collect, Modulate
  <2>. QED BY <1>1, <2>2 DEF CInv, HeldOnRequest
<1>. QED BY <1>1, ClientInvariant, PTL DEF Spec, LiftedNeedleHolds
=============================================================================
