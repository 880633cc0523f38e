----------------------------- MODULE EngineProofs -----------------------------
(***************************************************************************)
(* The threads of the program for any devices, in any order.               *)
(***************************************************************************)
EXTENDS Engine, FiniteSetTheorems, TLAPS

(***************************************************************************)
(* The order of main() as an invariant.                                    *)
(***************************************************************************)
Early == {"launch", "handshake", "failed"}
Rolling == {"mlock", "interface", "rig", "interface_stop", "stop"}
Clearing == {"deck_clear", "controller_clear", "free"}
Late == {"join"} \cup Clearing

(* Which turns of the devices have a JACK device that is started.          *)
StartedTurns == {k \in Turns : dv[k] \in Jack /\ started[dv[k]]}

StartedSoFar(k) ==
  /\ main.pc \in Early \cup Late => ~started[dv[k]]
  /\ main.pc = "start" => (started[dv[k]] <=> k < main.n)
  /\ main.pc \in Rolling => started[dv[k]]
  /\ main.pc = "device_stop" => (started[dv[k]] <=> k >= main.n)
  /\ main.pc = "deactivate" => (started[dv[k]] <=> k > main.n)

(* The client is active while a deck is started, and its callback only runs
   then or while it is waited for.                                         *)
JackInv ==
  /\ \A k \in Turns : dv[k] \in Jack => StartedSoFar(k)
  /\ nstarted = Cardinality(StartedTurns)
  /\ active <=> nstarted > 0
  /\ callback.pc # "idle" => active \/ main.pc \in {"deactivate", "aborted"}
  /\ main.pc = "exit" => callback.pc = "idle" /\ ~active

(* Who has ended when main() clears.                                       *)
EndInv ==
  /\ main.pc \in Clearing => rt.pc = "ended"
  /\ interface = "running" => main.pc \in {"rig", "interface_stop"}
  /\ cleared # {} => main.pc \in Clearing \cup {"exit"} /\ rt.pc = "ended"
  /\ main.pc = "free" => worker = "ended"
  /\ "rig" \in cleared => worker = "ended"

(* What has become of the handshake.                                       *)
HandshakeInv ==
  /\ main.pc = "launch" => rt.pc = "none" /\ sem = 0 /\ priority = "default"
  /\ rt.pc = "prioritise" => priority = "default"
  /\ rt.pc \in {"prioritise", "declare"} => main.pc = "handshake" /\ sem = 0
  /\ main.pc \in {"launch", "handshake"} => nstarted = 0
  /\ priority = "refused" =>
       /\ finished /\ nstarted = 0
       /\ rt.pc \in {"declare", "poll", "ended"}
       /\ main.pc \in {"handshake", "failed", "exit"}

Still(c) == c.capture \in {"prepared", "gone"}

(* Nothing has been captured before the handshake, or without priority.    *)
StillInv ==
  main.pc \in Early \/ priority = "refused" => \A d \in Alsa : Still(card[d])

(***************************************************************************)
(* Types.                                                                  *)
(***************************************************************************)
(* There are devices.                                                      *)
LEMMA SomeDevice == Len(dv) \in Nat \ {0}
<1>1. dv \in Seq(Devices) /\ dv # << >> BY EngineAssumption
<1> QED BY <1>1

(* The turns of a loop stay within the devices.                            *)
LEMMA TurnType ==
  ASSUME NEW S, NEW thread \in AtTurns(S), NEW after \in S
  PROVE  /\ At(after) \in AtTurns(S)
         /\ \A pc \in S : [thread EXCEPT !.pc = pc] \in AtTurns(S)
         /\ Turn(thread, after) \in AtTurns(S)
<1>1. At(after) \in AtTurns(S) BY SomeDevice DEF At, AtTurns, Turns
<1>2. thread.n < Len(dv) => [thread EXCEPT !.n = @ + 1] \in AtTurns(S)
  BY SomeDevice DEF Turns, AtTurns
<1>3. \A pc \in S : [thread EXCEPT !.pc = pc] \in AtTurns(S) BY DEF AtTurns
<1> QED BY <1>1, <1>2, <1>3 DEF Turn

(* Where the turns of a loop lead.                                         *)
LEMMA TurnGoes ==
  ASSUME NEW S, NEW thread \in AtTurns(S), NEW after
  PROVE  /\ thread.n \in Turns /\ thread.pc \in S
         /\ thread.n < Len(dv) => /\ Turn(thread, after).pc = thread.pc
                                  /\ Turn(thread, after).n = thread.n + 1
         /\ thread.n >= Len(dv) => /\ thread.n = Len(dv)
                                   /\ Turn(thread, after) = At(after)
  BY SomeDevice DEF AtTurns, Turns, Turn, At

LEMMA AtGoes == \A pc : At(pc).pc = pc /\ At(pc).n = 1
  BY DEF At

LEMMA PcGoes ==
  ASSUME NEW S, NEW thread \in AtTurns(S), NEW pc \in S
  PROVE  /\ [thread EXCEPT !.pc = pc] \in AtTurns(S)
         /\ [thread EXCEPT !.pc = pc].pc = pc
         /\ [thread EXCEPT !.pc = pc].n = thread.n
  BY DEF AtTurns

(* Every turn is that of a device.                                         *)
LEMMA TurnDevice == \A k \in Turns : dv[k] \in Alsa \/ dv[k] \in Jack
  BY EngineAssumption DEF Turns, Devices

(* A ring holds something.                                                 *)
LEMMA RingPositive == Ring \in Nat \ {0}
  BY EngineAssumption DEF Ring

(* The streams of one device change.                                       *)
LEMMA PutType ==
  ASSUME TypeOK, NEW d \in Alsa, NEW c \in Card, Put(d, c)
  PROVE  card' \in [Alsa -> Card]
  BY DEF TypeOK, Put

LEMMA PutGoes ==
  ASSUME TypeOK, NEW d \in Alsa, NEW c, Put(d, c)
  PROVE  card'[d] = c /\ \A e \in Alsa \ {d} : card'[e] = card[e]
  BY DEF TypeOK, Put

(* Every step keeps the types.                                             *)
LEMMA TypeStep ==
  ASSUME TypeOK, [Next]_vars
  PROVE  TypeOK'
<1> USE SomeDevice DEF TypeOK, cardVars, jackVars, otherVars, MainPCs, RtPCs,
      Streams, Goto
<1>0. \A pc \in MainPCs : At(pc) \in AtTurns(MainPCs)
  BY TurnType
<1>R. \A pc \in RtPCs : At(pc) \in AtTurns(RtPCs)
  BY TurnType
<1>1. CASE Launch BY <1>1, <1>0, <1>R DEF Launch
<1>2. CASE Handshake BY <1>2, <1>0 DEF Handshake
<1>3. CASE LaunchFailed BY <1>3, <1>0 DEF LaunchFailed
<1>4. CASE DeviceStart
  <2>1. PICK d \in Devices : \/ d \in Alsa /\ StartAlsa(d)
                             \/ d \in Jack /\ StartJack(d)
    BY <1>4 DEF DeviceStart, Devices
  <2>2. Turn(main, "mlock") \in AtTurns(MainPCs) BY TurnType
  <2>3. CASE d \in Alsa /\ StartAlsa(d)
    <3>1. main' \in AtTurns(MainPCs) BY <1>0, <2>2, <2>3 DEF StartAlsa
    <3>2. card' \in [Alsa -> Card]
      <4>1. [card[d] EXCEPT !.capture = "running"] \in Card BY <2>3 DEF Card
      <4> QED BY <2>3, <4>1, PutType DEF StartAlsa
    <3> QED BY <1>4, <2>3, <3>1, <3>2 DEF DeviceStart, StartAlsa
  <2>4. CASE d \in Jack /\ StartJack(d)
    BY <1>4, <2>2, <2>4 DEF DeviceStart, StartJack
  <2> QED BY <2>1, <2>3, <2>4
<1>5. CASE StartUp BY <1>5, <1>0 DEF StartUp, Prepare
<1>6. CASE RigEnds BY <1>6, <1>0 DEF RigEnds
<1>7. CASE InterfaceStop BY <1>7, <1>0 DEF InterfaceStop
<1>8. CASE Finish BY <1>8, <1>0 DEF Finish
<1>9. CASE DeviceStop
  <2>1. /\ Turn(main, "join") \in AtTurns(MainPCs)
        /\ [main EXCEPT !.pc = "deactivate"] \in AtTurns(MainPCs)
    BY TurnType
  <2>2. PICK d \in Devices : \/ d \in Jack /\ StopJack(d)
                             \/ d \in Alsa /\ main' = Turn(main, "join")
                                /\ UNCHANGED <<started, nstarted, active>>
    BY <1>9 DEF DeviceStop, Devices
  <2>3. CASE d \in Jack /\ StopJack(d) BY <1>9, <2>1, <2>3 DEF DeviceStop, StopJack
  <2>4. CASE main' = Turn(main, "join") /\ UNCHANGED <<started, nstarted, active>>
    BY <1>9, <2>1, <2>4 DEF DeviceStop
  <2> QED BY <2>2, <2>3, <2>4
<1>10. CASE Deactivate
  <2>1. [main EXCEPT !.pc = "device_stop"] \in AtTurns(MainPCs)
    BY TurnType
  <2>2. Turn([main EXCEPT !.pc = "device_stop"], "join") \in AtTurns(MainPCs)
    BY <2>1, TurnType
  <2> QED BY <1>10, <2>2 DEF Deactivate
<1>11. CASE Join BY <1>11, <1>0 DEF Join
<1>12. CASE DeckClear
  <2>1. Turn(main, "controller_clear") \in AtTurns(MainPCs) BY TurnType
  <2>2. dv[main.n] \in Devices BY TurnDevice DEF Devices, AtTurns
  <2> QED BY <1>12, <2>1, <2>2 DEF DeckClear
<1>13. CASE ControllerClear BY <1>13, <1>0 DEF ControllerClear
<1>14. CASE Free BY <1>14, <1>0 DEF Free
<1>15. CASE Prioritise BY <1>15, <1>R DEF Prioritise
<1>16. CASE Declare BY <1>16, <1>R DEF Declare
<1>17. CASE Poll BY <1>17, <1>R DEF Poll, Revents
<1>18. CASE ControllerHandle BY <1>18, <1>R DEF ControllerHandle
<1>19. ASSUME NEW d \in Devices, Skip(d) PROVE TypeOK'
  <2>1. Turn(rt, "poll") \in AtTurns(RtPCs) BY TurnType
  <2> QED BY <1>19, <2>1 DEF Skip
<1>A. Turn([rt EXCEPT !.pc = "capture"], "poll") \in AtTurns(RtPCs)
  <2>1. [rt EXCEPT !.pc = "capture"] \in AtTurns(RtPCs) BY TurnType
  <2> QED BY <2>1, TurnType
<1>20. ASSUME NEW d \in Alsa, Capture(d) PROVE TypeOK'
  <2>1. [rt EXCEPT !.pc = "playback"] \in AtTurns(RtPCs) BY TurnType
  <2>2. rt' \in AtTurns(RtPCs) BY <1>20, <1>A, <2>1 DEF Capture, Disable
  <2>3. card' \in [Alsa -> Card]
    <3>1. [card[d] EXCEPT !.avail = 0,
             !.capture = IF card[d].capture = "xrun" THEN "running"
                                                     ELSE card[d].capture] \in Card
      BY DEF Card
    <3> QED BY <1>20, <3>1, PutType DEF Capture
  <2> QED BY <1>20, <2>2, <2>3 DEF Capture, Disable
<1>21. ASSUME NEW d \in Alsa, Playback(d) PROVE TypeOK'
  <2>1. rt' \in AtTurns(RtPCs) BY <1>21, <1>A DEF Playback, Disable
  <2>2. card' \in [Alsa -> Card] /\ written' \in [Alsa -> Nat]
    <3>1. CASE Fill(d)
      <4>0. card[d] \in Card /\ Ring \in 0 .. Ring BY RingPositive
      <4>1. Ring - card[d].fill \in Nat BY RingPositive DEF Card
      <4>2. written' \in [Alsa -> Nat] BY <3>1, <4>1 DEF Fill
      <4>3. \A s \in Streams : [card[d] EXCEPT !.fill = Ring, !.playback = s] \in Card
        BY <4>0 DEF Card
      <4>4. PICK s \in Streams :
              Put(d, [card[d] EXCEPT !.fill = Ring, !.playback = s])
        BY <3>1, <4>0 DEF Fill, Card
      <4>5. card' \in [Alsa -> Card] BY <4>3, <4>4, PutType
      <4> QED BY <4>2, <4>5
    <3>2. CASE Recover(d)
      <4>0. card[d] \in Card /\ 0 \in 0 .. Ring BY RingPositive
      <4>1. [card[d] EXCEPT !.playback = "prepared", !.fill = 0] \in Card
        BY <4>0 DEF Card
      <4> QED BY <3>2, <4>1, PutType DEF Recover
    <3>3. CASE UNCHANGED <<card, written>> BY <3>3
    <3> QED BY <1>21, <3>1, <3>2, <3>3 DEF Playback
  <2>3. fault' \in [Devices -> BOOLEAN] BY <1>21 DEF Playback, Disable
  <2> QED BY <1>21, <2>1, <2>2, <2>3 DEF Playback
<1>22. CASE ProcessCallback
  BY <1>22 DEF ProcessCallback, CallbackNext, At, AtTurns, Turns
<1>23. CASE InterfaceEnds BY <1>23 DEF InterfaceEnds
<1>24. CASE WorkerStep BY <1>24 DEF WorkerStep
<1>25. ASSUME NEW d \in Alsa, Period(d) PROVE TypeOK'
  <2>1. card' \in [Alsa -> Card]
    <3>1. card[d] \in Card /\ 0 \in 0 .. Ring BY RingPositive
    <3>2. PICK c \in Card : Put(d, c)
      <4>1. CASE Put(d, [card[d] EXCEPT !.avail = card[d].avail + 1])
        <5>1. card[d].avail + 1 \in Nat BY <3>1 DEF Card
        <5>2. [card[d] EXCEPT !.avail = card[d].avail + 1] \in Card
          BY <3>1, <5>1 DEF Card
        <5> QED BY <4>1, <5>2
      <4>2. CASE Put(d, [card[d] EXCEPT !.capture = "xrun"])
        BY <3>1, <4>2 DEF Card
      <4>3. CASE /\ card[d].fill > 1
                 /\ Put(d, [card[d] EXCEPT !.fill = card[d].fill - 1])
        <5>1. card[d].fill - 1 \in 0 .. Ring BY <3>1, <4>3, RingPositive DEF Card
        <5>2. [card[d] EXCEPT !.fill = card[d].fill - 1] \in Card
          BY <3>1, <5>1 DEF Card
        <5> QED BY <4>3, <5>2
      <4>4. CASE Put(d, [card[d] EXCEPT !.fill = 0, !.playback = "xrun"])
        BY <3>1, <4>4 DEF Card
      <4> QED BY <1>25, <4>1, <4>2, <4>3, <4>4 DEF Period
    <3> QED BY <3>2, PutType
  <2> QED BY <1>25, <2>1 DEF Period
<1>26. ASSUME NEW d \in Alsa, Unplug(d) PROVE TypeOK'
  <2>1. card' \in [Alsa -> Card] BY <1>26 DEF Unplug, Card, Put
  <2> QED BY <1>26, <2>1 DEF Unplug
<1>27. CASE UNCHANGED vars BY <1>27 DEF vars
<1> QED
  BY <1>1, <1>2, <1>3, <1>4, <1>5, <1>6, <1>7, <1>8, <1>9, <1>10, <1>11, <1>12, <1>13,
     <1>14, <1>15, <1>16, <1>17, <1>18, <1>19, <1>20, <1>21, <1>22, <1>23, <1>24,
     <1>25, <1>26, <1>27
  DEF Next, Main, Rt

(***************************************************************************)
(* Who has ended when.                                                     *)
(***************************************************************************)
(* Where a step of main() leads, with what it has waited for.              *)
LEMMA MainGoes ==
  ASSUME TypeOK, NEW after \in MainPCs
  PROVE  /\ Turn(main, after).pc \in {main.pc, after}
         /\ \A pc \in MainPCs :
              Turn([main EXCEPT !.pc = pc], after).pc \in {pc, after}
<1>1. main \in AtTurns(MainPCs) BY DEF TypeOK
<1>2. \A pc \in MainPCs : /\ [main EXCEPT !.pc = pc] \in AtTurns(MainPCs)
                         /\ [main EXCEPT !.pc = pc].pc = pc
  BY <1>1, PcGoes
<1>3. \A thread \in AtTurns(MainPCs) : Turn(thread, after).pc \in {thread.pc, after}
  BY TurnGoes, AtGoes, SomeDevice DEF Turns
<1> QED BY <1>1, <1>2, <1>3

LEMMA RtGoes ==
  ASSUME TypeOK
  PROVE  /\ Turn(rt, "poll").pc \in {rt.pc, "poll"}
         /\ Turn([rt EXCEPT !.pc = "capture"], "poll").pc \in {"capture", "poll"}
         /\ [rt EXCEPT !.pc = "playback"].pc = "playback"
<1>1. rt \in AtTurns(RtPCs) BY DEF TypeOK
<1>2. \A pc \in RtPCs : /\ [rt EXCEPT !.pc = pc] \in AtTurns(RtPCs)
                       /\ [rt EXCEPT !.pc = pc].pc = pc
  BY <1>1, PcGoes
<1>3. \A thread \in AtTurns(RtPCs) : Turn(thread, "poll").pc \in {thread.pc, "poll"}
  BY TurnGoes, AtGoes, SomeDevice DEF Turns
<1> QED BY <1>1, <1>2, <1>3 DEF RtPCs

(* The clearing begins when everything that uses a deck has ended.         *)
LEMMA EndStep ==
  ASSUME TypeOK, EndInv, [Next]_vars
  PROVE  EndInv'
<1> USE AtGoes DEF EndInv, Clearing, Goto, cardVars, jackVars, otherVars
<1>t. /\ Turn(main, "mlock").pc \in {main.pc, "mlock"}
      /\ Turn(main, "join").pc \in {main.pc, "join"}
      /\ Turn(main, "controller_clear").pc \in {main.pc, "controller_clear"}
      /\ Turn([main EXCEPT !.pc = "device_stop"], "join").pc \in {"device_stop", "join"}
      /\ [main EXCEPT !.pc = "deactivate"].pc = "deactivate"
  BY MainGoes, PcGoes DEF MainPCs, TypeOK
<1>r. /\ Turn(rt, "poll").pc \in {rt.pc, "poll"}
      /\ Turn([rt EXCEPT !.pc = "capture"], "poll").pc \in {"capture", "poll"}
      /\ [rt EXCEPT !.pc = "playback"].pc = "playback"
  BY RtGoes
<1>1. CASE Launch BY <1>1 DEF Launch
<1>2. CASE Handshake BY <1>2 DEF Handshake
<1>3. CASE LaunchFailed BY <1>3 DEF LaunchFailed
<1>4. CASE DeviceStart BY <1>4, <1>t DEF DeviceStart, StartAlsa, StartJack
<1>5. CASE StartUp BY <1>5 DEF StartUp, Prepare
<1>6. CASE RigEnds BY <1>6 DEF RigEnds
<1>7. CASE InterfaceStop BY <1>7 DEF InterfaceStop
<1>8. CASE Finish BY <1>8 DEF Finish
<1>9. CASE DeviceStop BY <1>9, <1>t DEF DeviceStop, StopJack
<1>10. CASE Deactivate BY <1>10, <1>t DEF Deactivate
<1>11. CASE Join BY <1>11 DEF Join
<1>12. CASE DeckClear
  <2>1. dv[main.n] # "rig"
    BY EngineAssumption, TurnDevice DEF TypeOK, AtTurns, Devices, Services
  <2> QED BY <1>12, <1>t, <2>1 DEF DeckClear
<1>13. CASE ControllerClear BY <1>13 DEF ControllerClear
<1>14. CASE Free BY <1>14 DEF Free
<1>15. CASE Prioritise BY <1>15 DEF Prioritise
<1>16. CASE Declare BY <1>16 DEF Declare
<1>17. CASE Poll BY <1>17 DEF Poll
<1>18. CASE ControllerHandle BY <1>18 DEF ControllerHandle
<1>19. ASSUME NEW d \in Devices, Skip(d) PROVE EndInv'
  BY <1>19, <1>r DEF Skip
<1>20. ASSUME NEW d \in Alsa, Capture(d) PROVE EndInv'
  BY <1>20, <1>r DEF Capture, Disable
<1>21. ASSUME NEW d \in Alsa, Playback(d) PROVE EndInv'
  BY <1>21, <1>r DEF Playback, Disable
<1>22. CASE ProcessCallback BY <1>22 DEF ProcessCallback
<1>23. CASE InterfaceEnds BY <1>23 DEF InterfaceEnds
<1>24. CASE WorkerStep BY <1>24 DEF WorkerStep
<1>25. ASSUME NEW d \in Alsa, Period(d) PROVE EndInv'
  BY <1>25 DEF Period
<1>26. ASSUME NEW d \in Alsa, Unplug(d) PROVE EndInv'
  BY <1>26 DEF Unplug
<1>27. CASE UNCHANGED vars BY <1>27 DEF vars
<1> QED
  BY <1>1, <1>2, <1>3, <1>4, <1>5, <1>6, <1>7, <1>8, <1>9, <1>10, <1>11, <1>12, <1>13,
     <1>14, <1>15, <1>16, <1>17, <1>18, <1>19, <1>20, <1>21, <1>22, <1>23, <1>24,
     <1>25, <1>26, <1>27
  DEF Next, Main, Rt


(***************************************************************************)
(* The handshake about the priority.                                       *)
(***************************************************************************)
(* Both sides of the handshake come to the same end.                       *)
LEMMA HandshakeStep ==
  ASSUME TypeOK, HandshakeInv, [Next]_vars
  PROVE  HandshakeInv'
<1> USE AtGoes DEF HandshakeInv, Goto, cardVars, jackVars, otherVars
<1>t. /\ Turn(main, "mlock").pc \in {main.pc, "mlock"}
      /\ Turn(main, "join").pc \in {main.pc, "join"}
      /\ Turn(main, "controller_clear").pc \in {main.pc, "controller_clear"}
      /\ Turn([main EXCEPT !.pc = "device_stop"], "join").pc \in {"device_stop", "join"}
      /\ [main EXCEPT !.pc = "deactivate"].pc = "deactivate"
  BY MainGoes, PcGoes DEF MainPCs, TypeOK
<1>r. /\ Turn(rt, "poll").pc \in {rt.pc, "poll"}
      /\ Turn([rt EXCEPT !.pc = "capture"], "poll").pc \in {"capture", "poll"}
      /\ [rt EXCEPT !.pc = "playback"].pc = "playback"
  BY RtGoes
<1>1. CASE Launch BY <1>1 DEF Launch
<1>2. CASE Handshake
  <2>1. CASE finished BY <1>2, <2>1 DEF Handshake
  <2>2. CASE ~finished BY <1>2, <2>2 DEF Handshake
  <2> QED BY <2>1, <2>2
<1>3. CASE LaunchFailed BY <1>3 DEF LaunchFailed
<1>4. CASE DeviceStart BY <1>4, <1>t DEF DeviceStart, StartAlsa, StartJack
<1>5. CASE StartUp BY <1>5 DEF StartUp, Prepare
<1>6. CASE RigEnds BY <1>6 DEF RigEnds
<1>7. CASE InterfaceStop BY <1>7 DEF InterfaceStop
<1>8. CASE Finish BY <1>8 DEF Finish
<1>9. CASE DeviceStop BY <1>9, <1>t DEF DeviceStop, StopJack
<1>10. CASE Deactivate BY <1>10, <1>t DEF Deactivate
<1>11. CASE Join BY <1>11 DEF Join
<1>12. CASE DeckClear BY <1>12, <1>t DEF DeckClear
<1>13. CASE ControllerClear BY <1>13 DEF ControllerClear
<1>14. CASE Free BY <1>14 DEF Free
<1>15. CASE Prioritise BY <1>15 DEF Prioritise
<1>16. CASE Declare BY <1>16 DEF Declare
<1>17. CASE Poll BY <1>17 DEF Poll
<1>18. CASE ControllerHandle BY <1>18 DEF ControllerHandle
<1>19. ASSUME NEW d \in Devices, Skip(d) PROVE HandshakeInv'
  BY <1>19, <1>r DEF Skip
<1>20. ASSUME NEW d \in Alsa, Capture(d) PROVE HandshakeInv'
  BY <1>20, <1>r DEF Capture, Disable
<1>21. ASSUME NEW d \in Alsa, Playback(d) PROVE HandshakeInv'
  BY <1>21, <1>r DEF Playback, Disable
<1>22. CASE ProcessCallback BY <1>22 DEF ProcessCallback
<1>23. CASE InterfaceEnds BY <1>23 DEF InterfaceEnds
<1>24. CASE WorkerStep BY <1>24 DEF WorkerStep
<1>25. ASSUME NEW d \in Alsa, Period(d) PROVE HandshakeInv'
  BY <1>25 DEF Period
<1>26. ASSUME NEW d \in Alsa, Unplug(d) PROVE HandshakeInv'
  BY <1>26 DEF Unplug
<1>27. CASE UNCHANGED vars BY <1>27 DEF vars
<1> QED
  BY <1>1, <1>2, <1>3, <1>4, <1>5, <1>6, <1>7, <1>8, <1>9, <1>10, <1>11, <1>12, <1>13,
     <1>14, <1>15, <1>16, <1>17, <1>18, <1>19, <1>20, <1>21, <1>22, <1>23, <1>24,
     <1>25, <1>26, <1>27
  DEF Next, Main, Rt

(* Nothing is captured before a device is started.                         *)
LEMMA StillStep ==
  ASSUME TypeOK, HandshakeInv, StillInv, [Next]_vars
  PROVE  StillInv'
<1> USE AtGoes DEF StillInv, Still, Early, Goto, cardVars, jackVars, otherVars
<1>t. /\ Turn(main, "mlock").pc \in {main.pc, "mlock"}
      /\ Turn(main, "join").pc \in {main.pc, "join"}
      /\ Turn(main, "controller_clear").pc \in {main.pc, "controller_clear"}
      /\ Turn([main EXCEPT !.pc = "device_stop"], "join").pc \in {"device_stop", "join"}
      /\ [main EXCEPT !.pc = "deactivate"].pc = "deactivate"
  BY MainGoes, PcGoes DEF MainPCs, TypeOK
<1>r. /\ Turn(rt, "poll").pc \in {rt.pc, "poll"}
      /\ Turn([rt EXCEPT !.pc = "capture"], "poll").pc \in {"capture", "poll"}
      /\ [rt EXCEPT !.pc = "playback"].pc = "playback"
  BY RtGoes
<1>1. CASE Launch BY <1>1 DEF Launch
<1>2. CASE Handshake BY <1>2 DEF Handshake
<1>3. CASE LaunchFailed BY <1>3 DEF LaunchFailed
<1>4. CASE DeviceStart
  <2>1. main'.pc \notin Early BY <1>4, <1>t DEF DeviceStart, StartAlsa, StartJack
  <2>2. priority' # "refused" BY <1>4 DEF DeviceStart, HandshakeInv
  <2> QED BY <2>1, <2>2
<1>5. CASE StartUp BY <1>5 DEF StartUp, Prepare
<1>6. CASE RigEnds BY <1>6 DEF RigEnds
<1>7. CASE InterfaceStop BY <1>7 DEF InterfaceStop
<1>8. CASE Finish BY <1>8 DEF Finish
<1>9. CASE DeviceStop BY <1>9, <1>t DEF DeviceStop, StopJack
<1>10. CASE Deactivate BY <1>10, <1>t DEF Deactivate
<1>11. CASE Join BY <1>11 DEF Join
<1>12. CASE DeckClear BY <1>12, <1>t DEF DeckClear
<1>13. CASE ControllerClear BY <1>13 DEF ControllerClear
<1>14. CASE Free BY <1>14 DEF Free
<1>15. CASE Prioritise BY <1>15 DEF Prioritise, HandshakeInv
<1>16. CASE Declare BY <1>16 DEF Declare
<1>17. CASE Poll BY <1>17 DEF Poll
<1>18. CASE ControllerHandle BY <1>18 DEF ControllerHandle
<1>19. ASSUME NEW d \in Devices, Skip(d) PROVE StillInv'
  BY <1>19, <1>r DEF Skip
<1>20. ASSUME NEW d \in Alsa, Capture(d) PROVE StillInv'
  <2>1. UNCHANGED <<main, priority>> BY <1>20 DEF Capture
  <2>2. CASE UNCHANGED card BY <2>1, <2>2
  <2>3. CASE ~UNCHANGED card
    <3>1. priority # "refused" BY <1>20 DEF Capture, HandshakeInv
    <3>2. ASSUME main.pc \in Early PROVE \A e \in Alsa : Still(card'[e])
      <4>1. card[d].capture = "prepared"
        BY <1>20, <2>3, <3>2 DEF Capture
      <4>2. \A e \in Alsa \ {d} : card'[e] = card[e]
        BY <1>20 DEF Capture, TypeOK, Put
      <4>3. card'[d].capture \in {"prepared", "gone"}
        <5>1. card[d] \in Card BY DEF TypeOK
        <5>2. Put(d, [card[d] EXCEPT !.avail = 0, !.capture = "prepared"])
          BY <1>20, <2>3, <4>1 DEF Capture
        <5>3. [card[d] EXCEPT !.avail = 0, !.capture = "prepared"].capture = "prepared"
          BY <5>1 DEF Card
        <5> QED BY <5>2, <5>3, PutGoes
      <4> QED BY <3>2, <4>2, <4>3
    <3> QED BY <2>1, <3>1, <3>2
  <2> QED BY <1>20, <2>2, <2>3 DEF Capture
<1>21. ASSUME NEW d \in Alsa, Playback(d) PROVE StillInv'
  <2>1. UNCHANGED <<main, priority>> BY <1>21 DEF Playback
  <2>2. card'[d].capture = card[d].capture
    <3>1. card[d] \in Card BY DEF TypeOK
    <3>2. CASE Fill(d)
      <4>1. PICK s \in Streams :
              Put(d, [card[d] EXCEPT !.fill = Ring, !.playback = s])
        BY <3>1, <3>2 DEF Fill, Card, Streams
      <4>2. [card[d] EXCEPT !.fill = Ring, !.playback = s].capture = card[d].capture
        BY <3>1 DEF Card
      <4> QED BY <4>1, <4>2, PutGoes
    <3>3. CASE Recover(d)
      <4>1. [card[d] EXCEPT !.playback = "prepared", !.fill = 0].capture
              = card[d].capture
        BY <3>1 DEF Card
      <4> QED BY <3>3, <4>1, PutGoes DEF Recover
    <3> QED BY <1>21, <3>2, <3>3 DEF Playback
  <2>3. \A e \in Alsa \ {d} : card'[e] = card[e]
    BY <1>21 DEF Playback, Fill, Recover, TypeOK, Put
  <2> QED BY <2>1, <2>2, <2>3
<1>22. CASE ProcessCallback BY <1>22 DEF ProcessCallback
<1>23. CASE InterfaceEnds BY <1>23 DEF InterfaceEnds
<1>24. CASE WorkerStep BY <1>24 DEF WorkerStep
<1>25. ASSUME NEW d \in Alsa, Period(d) PROVE StillInv'
  <2>1. UNCHANGED <<main, priority>> BY <1>25 DEF Period
  <2>2. card[d].capture # "running" => card'[d].capture = card[d].capture
    <3>1. card[d] \in Card BY DEF TypeOK
    <3>2. CASE Put(d, [card[d] EXCEPT !.fill = card[d].fill - 1])
      <4>1. [card[d] EXCEPT !.fill = card[d].fill - 1].capture = card[d].capture
        BY <3>1 DEF Card
      <4> QED BY <3>2, <4>1, PutGoes
    <3>3. CASE Put(d, [card[d] EXCEPT !.fill = 0, !.playback = "xrun"])
      <4>1. [card[d] EXCEPT !.fill = 0, !.playback = "xrun"].capture = card[d].capture
        BY <3>1 DEF Card
      <4> QED BY <3>3, <4>1, PutGoes
    <3> QED BY <1>25, <3>2, <3>3 DEF Period
  <2>3. \A e \in Alsa \ {d} : card'[e] = card[e]
    BY <1>25 DEF Period, TypeOK, Put
  <2> QED BY <2>1, <2>2, <2>3
<1>26. ASSUME NEW d \in Alsa, Unplug(d) PROVE StillInv'
  <2>1. UNCHANGED <<main, priority>> BY <1>26 DEF Unplug
  <2>2. card'[d].capture = "gone" BY <1>26 DEF Unplug, TypeOK, Put, Card
  <2>3. \A e \in Alsa \ {d} : card'[e] = card[e]
    BY <1>26 DEF Unplug, TypeOK, Put
  <2> QED BY <2>1, <2>2, <2>3
<1>27. CASE UNCHANGED vars BY <1>27 DEF vars
<1> QED
  BY <1>1, <1>2, <1>3, <1>4, <1>5, <1>6, <1>7, <1>8, <1>9, <1>10, <1>11, <1>12, <1>13,
     <1>14, <1>15, <1>16, <1>17, <1>18, <1>19, <1>20, <1>21, <1>22, <1>23, <1>24,
     <1>25, <1>26, <1>27
  DEF Next, Main, Rt


(***************************************************************************)
(* The client of JACK.                                                     *)
(***************************************************************************)
(* A device has one turn.                                                  *)
LEMMA TurnUnique == \A k, m \in Turns : dv[k] = dv[m] => k = m
  BY EngineAssumption DEF Turns

LEMMA KindsDiffer == \A d \in Alsa : d \notin Jack
  BY EngineAssumption

LEMMA TurnsFinite == IsFiniteSet(StartedTurns)
<1>1. IsFiniteSet(Turns) BY SomeDevice, FS_Interval DEF Turns
<1> QED BY <1>1, FS_Subset DEF StartedTurns

(* Where no deck is started, JACK is silent.                               *)
LEMMA NothingStarted ==
  ASSUME TypeOK, JackInv, main.pc \in Early \cup Late
  PROVE  nstarted = 0 /\ ~active /\ callback.pc = "idle"
<1>1. StartedTurns = {} BY DEF JackInv, StartedSoFar, StartedTurns
<1>2. nstarted = 0 BY <1>1, FS_EmptySet DEF JackInv
<1> QED BY <1>2 DEF JackInv, Early, Late, Clearing

(* A step of main() that does not touch JACK.                              *)
LEMMA MainJack ==
  ASSUME TypeOK, JackInv, UNCHANGED <<started, nstarted, active, callback>>,
         \A k \in Turns : dv[k] \in Jack => StartedSoFar(k)',
         main'.pc = "exit" => main.pc \in Early \cup Late,
         main.pc \in {"deactivate", "aborted"} => callback.pc = "idle"
  PROVE  JackInv'
<1>1. StartedTurns' = StartedTurns BY DEF StartedTurns
<1>2. main'.pc = "exit" => callback.pc = "idle" /\ ~active BY NothingStarted
<1> QED BY <1>1, <1>2 DEF JackInv

(* The count is that of the decks that are started, the client is active while
   there are any, and main() goes on when the callback has returned.       *)
LEMMA JackStep ==
  ASSUME TypeOK, JackInv, [Next]_vars
  PROVE  JackInv'
<1> USE AtGoes DEF Goto, cardVars, jackVars, otherVars
<1>e. CASE UNCHANGED <<main, started, nstarted, active, callback>>
  BY <1>e DEF JackInv, StartedSoFar, StartedTurns
<1>n. main.n \in Turns /\ main.pc \in MainPCs BY TurnGoes DEF TypeOK
<1>s. \A k \in Turns : dv[k] \in Jack => StartedSoFar(k) BY DEF JackInv
<1>m. ASSUME NEW pc \in MainPCs, main' = At(pc),
             UNCHANGED <<started, nstarted, active, callback>>,
             \/ main.pc \in Early /\ pc \in Early \cup {"start", "exit"}
             \/ main.pc \in Rolling /\ pc \in Rolling \cup {"device_stop"}
             \/ main.pc \in Late /\ pc \in Late \cup {"exit"}
      PROVE  JackInv'
  <2>1. main'.pc = pc /\ main'.n = 1 BY <1>m
  <2>2. \A k \in Turns : k >= 1 /\ ~(k < 1) BY SomeDevice DEF Turns
  <2>3. \A k \in Turns : dv[k] \in Jack => StartedSoFar(k)'
    BY <1>m, <1>s, <2>1, <2>2 DEF StartedSoFar, Early, Rolling, Late, Clearing
  <2>4. main.pc \notin {"deactivate", "aborted"}
    BY <1>m DEF Early, Rolling, Late, Clearing
  <2>5. main'.pc = "exit" => main.pc \in Early \cup Late
    BY <1>m, <2>1 DEF Rolling
  <2> QED BY <1>m, <2>3, <2>4, <2>5, MainJack
<1> USE DEF Early, Rolling, Late, Clearing, MainPCs
<1>1. CASE Launch BY <1>1, <1>m DEF Launch
<1>2. CASE Handshake
  <2>1. CASE finished BY <1>2, <2>1, <1>m DEF Handshake
  <2>2. CASE ~finished BY <1>2, <2>2, <1>m DEF Handshake
  <2> QED BY <2>1, <2>2
<1>3. CASE LaunchFailed BY <1>3, <1>m DEF LaunchFailed
<1>5. CASE StartUp BY <1>5, <1>m DEF StartUp, Prepare
<1>6. CASE RigEnds
  <2>1. CASE interface = "none" BY <1>6, <2>1, <1>m DEF RigEnds
  <2>2. CASE interface # "none" BY <1>6, <2>2, <1>m DEF RigEnds
  <2> QED BY <2>1, <2>2
<1>7. CASE InterfaceStop BY <1>7, <1>m DEF InterfaceStop
<1>8. CASE Finish BY <1>8, <1>m DEF Finish
<1>11. CASE Join BY <1>11, <1>m DEF Join
<1>13. CASE ControllerClear BY <1>13, <1>m DEF ControllerClear
<1>14. CASE Free BY <1>14, <1>m DEF Free
<1>t. \A thread \in AtTurns(MainPCs), after \in MainPCs :
        /\ thread.n < Len(dv) => /\ Turn(thread, after).pc = thread.pc
                                 /\ Turn(thread, after).n = thread.n + 1
        /\ thread.n >= Len(dv) => /\ thread.n = Len(dv)
                                  /\ Turn(thread, after) = At(after)
  BY TurnGoes
<1>l. /\ main \in AtTurns(MainPCs) /\ Len(dv) \in Nat
      /\ \A k \in Turns : k \in Nat /\ k <= Len(dv)
  BY SomeDevice DEF TypeOK, Turns
<1>4. CASE DeviceStart
  <2>0. main.pc = "start" /\ UNCHANGED <<rt, finished>> BY <1>4 DEF DeviceStart
  <2>1. CASE dv[main.n] \in Alsa /\ StartAlsa(dv[main.n])
    <3>1. UNCHANGED <<started, nstarted, active, callback>> BY <2>1 DEF StartAlsa
    <3>2. CASE main' = At("aborted") BY <2>0, <3>1, <3>2, MainJack DEF StartedSoFar
    <3>3. CASE main' = Turn(main, "mlock")
      <4>1. \A k \in Turns : dv[k] \in Jack => k # main.n BY <2>1, KindsDiffer
      <4>2. \A k \in Turns : dv[k] \in Jack => StartedSoFar(k)'
        <5>1. CASE main.n < Len(dv)
          <6>1. main'.pc = "start" /\ main'.n = main.n + 1
            BY <1>t, <1>l, <2>0, <3>3, <5>1
          <6>2. \A k \in Turns : k # main.n => (k < main.n <=> k < main.n + 1)
            BY <1>l, <1>n
          <6> QED BY <1>s, <2>0, <3>1, <4>1, <6>1, <6>2 DEF StartedSoFar
        <5>2. CASE main.n >= Len(dv)
          <6>1. main'.pc = "mlock" /\ main.n = Len(dv)
            BY <1>t, <1>l, <3>3, <5>2
          <6>2. \A k \in Turns : k # main.n => k < main.n BY <1>l, <6>1
          <6> QED BY <1>s, <2>0, <3>1, <4>1, <6>1, <6>2 DEF StartedSoFar
        <5> QED BY <1>l, <1>n, <5>1, <5>2
      <4>3. main'.pc # "exit" BY <1>t, <1>l, <2>0, <3>3, <1>n
      <4> QED BY <2>0, <3>1, <4>2, <4>3, MainJack
    <3> QED BY <2>1, <3>2, <3>3 DEF StartAlsa
  <2>2. CASE dv[main.n] \in Jack /\ StartJack(dv[main.n])
    <3>1. /\ main' = Turn(main, "mlock") /\ active' = TRUE
          /\ nstarted' = nstarted + 1 /\ UNCHANGED callback
          /\ started' = [started EXCEPT ![dv[main.n]] = TRUE]
      BY <2>2 DEF StartJack
    <3>2. \A k \in Turns : dv[k] \in Jack =>
            started'[dv[k]] = IF k = main.n THEN TRUE ELSE started[dv[k]]
      BY <1>n, <2>2, <3>1, TurnUnique DEF TypeOK
    <3>3. ~started[dv[main.n]] BY <1>l, <1>n, <1>s, <2>0, <2>2 DEF StartedSoFar
    <3>4. StartedTurns' = StartedTurns \cup {main.n} /\ main.n \notin StartedTurns
      BY <1>n, <2>2, <3>2, <3>3 DEF StartedTurns
    <3>5. nstarted' = Cardinality(StartedTurns')
      BY <3>1, <3>4, TurnsFinite, FS_AddElement DEF JackInv
    <3>6. nstarted' > 0
      BY <3>1, TurnsFinite, FS_CardinalityType DEF JackInv
    <3>7. \A k \in Turns : dv[k] \in Jack => StartedSoFar(k)'
      <4>1. CASE main.n < Len(dv)
        <5>1. main'.pc = "start" /\ main'.n = main.n + 1
          BY <1>t, <1>l, <2>0, <3>1, <4>1
        <5>2. \A k \in Turns : k < main.n + 1 <=> k = main.n \/ k < main.n
          BY <1>l, <1>n
        <5> QED BY <1>s, <2>0, <3>2, <5>1, <5>2 DEF StartedSoFar
      <4>2. CASE main.n >= Len(dv)
        <5>1. main'.pc = "mlock" /\ main.n = Len(dv)
          BY <1>t, <1>l, <3>1, <4>2
        <5>2. \A k \in Turns : k = main.n \/ k < main.n BY <1>l, <5>1
        <5> QED BY <1>s, <2>0, <3>2, <5>1, <5>2 DEF StartedSoFar
      <4> QED BY <1>l, <1>n, <4>1, <4>2
    <3>8. main'.pc # "exit" BY <1>t, <1>l, <2>0, <3>1, <1>n
    <3> QED BY <3>1, <3>5, <3>6, <3>7, <3>8 DEF JackInv
  <2> QED BY <1>4, <2>1, <2>2 DEF DeviceStart
<1>9. CASE DeviceStop
  <2>0. main.pc = "device_stop" /\ UNCHANGED callback BY <1>9 DEF DeviceStop
  <2>1. CASE /\ dv[main.n] \in Alsa /\ main' = Turn(main, "join")
             /\ UNCHANGED <<started, nstarted, active>>
    <3>1. \A k \in Turns : dv[k] \in Jack => k # main.n BY <2>1, KindsDiffer
    <3>2. \A k \in Turns : dv[k] \in Jack => StartedSoFar(k)'
      <4>1. CASE main.n < Len(dv)
        <5>1. main'.pc = "device_stop" /\ main'.n = main.n + 1
          BY <1>t, <1>l, <2>0, <2>1, <4>1
        <5>2. \A k \in Turns : k # main.n => (k >= main.n <=> k >= main.n + 1)
          BY <1>l, <1>n
        <5> QED BY <1>s, <2>0, <2>1, <3>1, <5>1, <5>2 DEF StartedSoFar
      <4>2. CASE main.n >= Len(dv)
        <5>1. main'.pc = "join" /\ main.n = Len(dv)
          BY <1>t, <1>l, <2>1, <4>2
        <5>2. \A k \in Turns : k # main.n => ~(k >= main.n) BY <1>l, <5>1
        <5> QED BY <1>s, <2>0, <2>1, <3>1, <5>1, <5>2 DEF StartedSoFar
      <4> QED BY <1>l, <1>n, <4>1, <4>2
    <3>3. main'.pc # "exit" BY <1>t, <1>l, <2>0, <2>1, <1>n
    <3> QED BY <2>0, <2>1, <3>2, <3>3, MainJack
  <2>2. CASE dv[main.n] \in Jack /\ StopJack(dv[main.n])
    <3>1. /\ main' = IF nstarted = 1 THEN [main EXCEPT !.pc = "deactivate"]
                                     ELSE Turn(main, "join")
          /\ active' = (nstarted > 1) /\ nstarted' = nstarted - 1
          /\ started' = [started EXCEPT ![dv[main.n]] = FALSE]
      BY <2>2 DEF StopJack
    <3>2. \A k \in Turns : dv[k] \in Jack =>
            started'[dv[k]] = IF k = main.n THEN FALSE ELSE started[dv[k]]
      BY <1>n, <2>2, <3>1, TurnUnique DEF TypeOK
    <3>3. started[dv[main.n]] BY <1>l, <1>n, <1>s, <2>0, <2>2 DEF StartedSoFar
    <3>4. StartedTurns' = StartedTurns \ {main.n} /\ main.n \in StartedTurns
      BY <1>n, <2>2, <3>2, <3>3 DEF StartedTurns
    <3>5. nstarted' = Cardinality(StartedTurns')
      BY <3>1, <3>4, TurnsFinite, FS_RemoveElement DEF JackInv
    <3>6. nstarted \in Nat \ {0}
      BY <3>4, TurnsFinite, FS_CardinalityType, FS_EmptySet DEF JackInv
    <3>7. active' <=> nstarted' > 0
      <4>1. nstarted' > 0 <=> nstarted > 1 BY <3>1, <3>6
      <4> QED BY <3>1, <4>1, Zenon
    <3>8. active BY <3>6 DEF JackInv
    <3>9. CASE nstarted = 1
      <4>1. main'.pc = "deactivate" /\ main'.n = main.n
        BY <1>l, <3>1, <3>9, PcGoes
      <4>2. \A k \in Turns : k > main.n <=> k >= main.n /\ k # main.n BY <1>l, <1>n
      <4>3. \A k \in Turns : dv[k] \in Jack => StartedSoFar(k)'
        BY <1>s, <2>0, <3>2, <4>1, <4>2 DEF StartedSoFar
      <4> QED BY <3>5, <3>7, <4>1, <4>3 DEF JackInv
    <3>10. CASE nstarted # 1
      <4>0. nstarted > 1 BY <3>6, <3>10
      <4>1. main' = Turn(main, "join") /\ active' BY <3>1, <3>10, <4>0, Zenon
      <4>2. \A k \in Turns : dv[k] \in Jack => StartedSoFar(k)'
        <5>1. CASE main.n < Len(dv)
          <6>1. main'.pc = "device_stop" /\ main'.n = main.n + 1
            BY <1>t, <1>l, <2>0, <4>1, <5>1
          <6>2. \A k \in Turns : k >= main.n + 1 <=> k >= main.n /\ k # main.n
            BY <1>l, <1>n
          <6> QED BY <1>s, <2>0, <3>2, <6>1, <6>2 DEF StartedSoFar
        <5>2. CASE main.n >= Len(dv)
          <6>1. main'.pc = "join" /\ main.n = Len(dv)
            BY <1>t, <1>l, <4>1, <5>2
          <6>2. \A k \in Turns : k = main.n \/ ~(k >= main.n) BY <1>l, <6>1
          <6> QED BY <1>s, <2>0, <3>2, <6>1, <6>2 DEF StartedSoFar
        <5> QED BY <1>l, <1>n, <5>1, <5>2
      <4>3. main'.pc # "exit" BY <1>t, <1>l, <2>0, <4>1, <1>n
      <4> QED BY <3>5, <3>7, <4>1, <4>2, <4>3 DEF JackInv
    <3> QED BY <3>9, <3>10
  <2> QED BY <1>9, <2>1, <2>2 DEF DeviceStop
<1>10. CASE Deactivate
  <2>0. /\ main.pc = "deactivate" /\ callback.pc = "idle"
        /\ UNCHANGED <<started, nstarted, active, callback>>
        /\ main' = Turn([main EXCEPT !.pc = "device_stop"], "join")
    BY <1>10 DEF Deactivate
  <2>1. PICK thread \in AtTurns(MainPCs) :
          /\ thread.pc = "device_stop" /\ thread.n = main.n
          /\ main' = Turn(thread, "join")
    <3>1. /\ [main EXCEPT !.pc = "device_stop"] \in AtTurns(MainPCs)
          /\ [main EXCEPT !.pc = "device_stop"].pc = "device_stop"
          /\ [main EXCEPT !.pc = "device_stop"].n = main.n
      BY <1>l, PcGoes
    <3> QED BY <2>0, <3>1, Zenon
  <2>2. \A k \in Turns : dv[k] \in Jack => StartedSoFar(k)'
    <3>1. CASE main.n < Len(dv)
      <4>1. main'.pc = "device_stop" /\ main'.n = main.n + 1 BY <1>t, <2>1, <3>1
      <4>2. \A k \in Turns : k > main.n <=> k >= main.n + 1 BY <1>l, <1>n
      <4> QED BY <1>s, <2>0, <4>1, <4>2 DEF StartedSoFar
    <3>2. CASE main.n >= Len(dv)
      <4>1. main'.pc = "join" /\ main.n = Len(dv) BY <1>t, <2>1, <3>2
      <4>2. \A k \in Turns : ~(k > main.n) BY <1>l, <4>1
      <4> QED BY <1>s, <2>0, <4>1, <4>2 DEF StartedSoFar
    <3> QED BY <1>l, <1>n, <3>1, <3>2
  <2>3. main'.pc # "exit" BY <1>t, <1>l, <1>n, <2>1
  <2> QED BY <2>0, <2>2, <2>3, MainJack
<1>12. CASE DeckClear
  <2>0. /\ main.pc = "deck_clear" /\ UNCHANGED <<started, nstarted, active, callback>>
        /\ main' = Turn(main, "controller_clear")
    BY <1>12 DEF DeckClear
  <2>1. main'.pc \in {"deck_clear", "controller_clear"}
    BY <1>t, <1>l, <1>n, <2>0
  <2>2. \A k \in Turns : dv[k] \in Jack => StartedSoFar(k)'
    BY <1>s, <2>0, <2>1 DEF StartedSoFar
  <2> QED BY <2>0, <2>1, <2>2, MainJack
<1>22. CASE ProcessCallback
  <2>1. UNCHANGED <<main, started, nstarted, active>> BY <1>22 DEF ProcessCallback
  <2>2. callback.pc # "idle" \/ active BY <1>22 DEF ProcessCallback
  <2>3. StartedTurns' = StartedTurns BY <2>1 DEF StartedTurns
  <2>4. main.pc # "exit" BY <2>2 DEF JackInv
  <2> QED BY <2>1, <2>2, <2>3, <2>4 DEF JackInv, StartedSoFar
<1>15. CASE Prioritise BY <1>15, <1>e DEF Prioritise
<1>16. CASE Declare BY <1>16, <1>e DEF Declare
<1>17. CASE Poll BY <1>17, <1>e DEF Poll
<1>18. CASE ControllerHandle BY <1>18, <1>e DEF ControllerHandle
<1>19. ASSUME NEW d \in Devices, Skip(d) PROVE JackInv' BY <1>19, <1>e DEF Skip
<1>20. ASSUME NEW d \in Alsa, Capture(d) PROVE JackInv' BY <1>20, <1>e DEF Capture
<1>21. ASSUME NEW d \in Alsa, Playback(d) PROVE JackInv' BY <1>21, <1>e DEF Playback
<1>23. CASE InterfaceEnds BY <1>23, <1>e DEF InterfaceEnds
<1>24. CASE WorkerStep BY <1>24, <1>e DEF WorkerStep
<1>25. ASSUME NEW d \in Alsa, Period(d) PROVE JackInv' BY <1>25, <1>e DEF Period
<1>26. ASSUME NEW d \in Alsa, Unplug(d) PROVE JackInv' BY <1>26, <1>e DEF Unplug
<1>27. CASE UNCHANGED vars BY <1>27, <1>e DEF vars
<1> QED
  BY <1>1, <1>2, <1>3, <1>4, <1>5, <1>6, <1>7, <1>8, <1>9, <1>10, <1>11, <1>12, <1>13,
     <1>14, <1>15, <1>16, <1>17, <1>18, <1>19, <1>20, <1>21, <1>22, <1>23, <1>24,
     <1>25, <1>26, <1>27
  DEF Next, Main, Rt

(***************************************************************************)
(* The ring of a playback stream.                                          *)
(***************************************************************************)
(* A step that leaves the playback of every device alone.                  *)
LEMMA PlaybackAlone ==
  ASSUME StartsWhenFull, UNCHANGED written,
         \A d \in Alsa : /\ card'[d].playback = card[d].playback
                        /\ card'[d].fill = card[d].fill
  PROVE  StartsWhenFull'
  BY DEF StartsWhenFull

LEMMA StartsStep ==
  ASSUME buffer # 0, TypeOK, StartsWhenFull, [Next]_vars
  PROVE  StartsWhenFull'
<1> USE DEF cardVars, jackVars, otherVars
<1>b. buffer # 0 OBVIOUS
<1>r. Ring = buffer /\ Ring \in Nat \ {0}
  BY <1>b, RingPositive DEF Ring
<1>c. \A d \in Alsa : card[d] \in Card /\ written[d] \in Nat BY DEF TypeOK
<1>e. CASE UNCHANGED <<card, written>> BY <1>e DEF StartsWhenFull
<1>4. CASE DeviceStart
  <2>1. UNCHANGED written BY <1>4 DEF DeviceStart
  <2>2. CASE UNCHANGED card BY <1>e, <2>1, <2>2
  <2>3. CASE ~UNCHANGED card
    <3>1. PICK d \in Alsa : Put(d, [card[d] EXCEPT !.capture = "running"])
      BY <1>4, <2>3 DEF DeviceStart, StartAlsa, StartJack
    <3>2. LET c == [card[d] EXCEPT !.capture = "running"]
          IN  c.playback = card[d].playback /\ c.fill = card[d].fill
      BY <1>c DEF Card
    <3> QED BY <2>1, <3>1, <3>2, PutGoes, PlaybackAlone
  <2> QED BY <2>2, <2>3
<1>20. ASSUME NEW d \in Alsa, Capture(d) PROVE StartsWhenFull'
  <2>1. UNCHANGED written BY <1>20 DEF Capture
  <2>2. CASE UNCHANGED card BY <1>e, <2>1, <2>2
  <2>3. CASE ~UNCHANGED card
    <3>1. PICK s : Put(d, [card[d] EXCEPT !.avail = 0, !.capture = s])
      BY <1>20, <2>3 DEF Capture
    <3>2. LET c == [card[d] EXCEPT !.avail = 0, !.capture = s]
          IN  c.playback = card[d].playback /\ c.fill = card[d].fill
      BY <1>c DEF Card
    <3> QED BY <2>1, <3>1, <3>2, PutGoes, PlaybackAlone
  <2> QED BY <2>2, <2>3
<1>21. ASSUME NEW d \in Alsa, Playback(d) PROVE StartsWhenFull'
  <2>1. CASE UNCHANGED <<card, written>> BY <1>e, <2>1
  <2>2. CASE Recover(d)
    <3>1. [card[d] EXCEPT !.playback = "prepared", !.fill = 0].fill = 0
      BY <1>c DEF Card
    <3>2. card'[d].fill = 0 BY <2>2, <3>1, PutGoes DEF Recover
    <3>3. \A e \in Alsa \ {d} : card'[e] = card[e] /\ written'[e] = written[e]
      BY <2>2, PutGoes DEF Recover, TypeOK
    <3>4. written'[d] = 0 BY <2>2 DEF Recover, TypeOK
    <3> QED BY <1>r, <3>2, <3>3, <3>4 DEF StartsWhenFull
  <2>3. CASE Fill(d) /\ card[d].playback \in {"prepared", "running"}
    <3>1. PICK s \in {card[d].playback, "running"} :
            /\ Put(d, [card[d] EXCEPT !.fill = Ring, !.playback = s])
            /\ (written[d] < buffer /\ written[d] + (Ring - card[d].fill) >= buffer)
                 => s = "running"
      BY <2>3 DEF Fill
    <3>2. s = "running"
      <4>1. CASE card[d].playback = "running" BY <3>1, <4>1
      <4>2. CASE card[d].playback = "prepared"
        <5>1. written[d] = card[d].fill /\ card[d].fill < Ring
          BY <4>2 DEF StartsWhenFull
        <5>2. written[d] < buffer /\ written[d] + (Ring - card[d].fill) >= buffer
          BY <1>c, <1>r, <5>1
        <5> QED BY <3>1, <5>2
      <4> QED BY <2>3, <4>1, <4>2
    <3>3. [card[d] EXCEPT !.fill = Ring, !.playback = s].playback = s
      BY <1>c DEF Card
    <3>4. card'[d].playback = "running" BY <3>1, <3>2, <3>3, PutGoes
    <3>5. \A e \in Alsa \ {d} : card'[e] = card[e] /\ written'[e] = written[e]
      BY <2>3, <3>1, PutGoes DEF Fill, TypeOK
    <3> QED BY <3>4, <3>5 DEF StartsWhenFull
  <2> QED BY <1>21, <2>1, <2>2, <2>3 DEF Playback
<1>25. ASSUME NEW d \in Alsa, Period(d) PROVE StartsWhenFull'
  <2>1. UNCHANGED written BY <1>25 DEF Period
  <2>2. PICK c : /\ Put(d, c)
                 /\ \/ c.playback = card[d].playback /\ c.fill = card[d].fill
                    \/ c.playback # "prepared"
    <3>1. CASE Put(d, [card[d] EXCEPT !.avail = card[d].avail + 1])
      <4>1. LET c == [card[d] EXCEPT !.avail = card[d].avail + 1]
            IN  c.playback = card[d].playback /\ c.fill = card[d].fill
        BY <1>c DEF Card
      <4> QED BY <3>1, <4>1
    <3>2. CASE Put(d, [card[d] EXCEPT !.capture = "xrun"])
      <4>1. LET c == [card[d] EXCEPT !.capture = "xrun"]
            IN  c.playback = card[d].playback /\ c.fill = card[d].fill
        BY <1>c DEF Card
      <4> QED BY <3>2, <4>1
    <3>3. CASE /\ card[d].playback = "running"
               /\ Put(d, [card[d] EXCEPT !.fill = card[d].fill - 1])
      <4>1. [card[d] EXCEPT !.fill = card[d].fill - 1].playback = "running"
        BY <1>c, <3>3 DEF Card
      <4> QED BY <3>3, <4>1
    <3>4. CASE Put(d, [card[d] EXCEPT !.fill = 0, !.playback = "xrun"])
      <4>1. [card[d] EXCEPT !.fill = 0, !.playback = "xrun"].playback = "xrun"
        BY <1>c DEF Card
      <4> QED BY <3>4, <4>1
    <3> QED BY <1>25, <3>1, <3>2, <3>3, <3>4 DEF Period
  <2> QED BY <2>1, <2>2, PutGoes DEF StartsWhenFull
<1>26. ASSUME NEW d \in Alsa, Unplug(d) PROVE StartsWhenFull'
  <2>1. UNCHANGED written /\ Put(d, [card[d] EXCEPT !.capture = "gone", !.playback = "gone"])
    BY <1>26 DEF Unplug
  <2>2. [card[d] EXCEPT !.capture = "gone", !.playback = "gone"].playback = "gone"
    BY <1>c DEF Card
  <2> QED BY <2>1, <2>2, PutGoes DEF StartsWhenFull
<1>1. CASE Launch BY <1>1, <1>e DEF Launch
<1>2. CASE Handshake BY <1>2, <1>e DEF Handshake
<1>3. CASE LaunchFailed BY <1>3, <1>e DEF LaunchFailed
<1>5. CASE StartUp BY <1>5, <1>e DEF StartUp
<1>6. CASE RigEnds BY <1>6, <1>e DEF RigEnds
<1>7. CASE InterfaceStop BY <1>7, <1>e DEF InterfaceStop
<1>8. CASE Finish BY <1>8, <1>e DEF Finish
<1>9. CASE DeviceStop BY <1>9, <1>e DEF DeviceStop
<1>10. CASE Deactivate BY <1>10, <1>e DEF Deactivate
<1>11. CASE Join BY <1>11, <1>e DEF Join
<1>12. CASE DeckClear BY <1>12, <1>e DEF DeckClear
<1>13. CASE ControllerClear BY <1>13, <1>e DEF ControllerClear
<1>14. CASE Free BY <1>14, <1>e DEF Free
<1>15. CASE Prioritise BY <1>15, <1>e DEF Prioritise
<1>16. CASE Declare BY <1>16, <1>e DEF Declare
<1>17. CASE Poll BY <1>17, <1>e DEF Poll
<1>18. CASE ControllerHandle BY <1>18, <1>e DEF ControllerHandle
<1>19. ASSUME NEW d \in Devices, Skip(d) PROVE StartsWhenFull' BY <1>19, <1>e DEF Skip
<1>22. CASE ProcessCallback BY <1>22, <1>e DEF ProcessCallback
<1>23. CASE InterfaceEnds BY <1>23, <1>e DEF InterfaceEnds
<1>24. CASE WorkerStep BY <1>24, <1>e DEF WorkerStep
<1>27. CASE UNCHANGED vars BY <1>27, <1>e DEF vars
<1> QED
  BY <1>1, <1>2, <1>3, <1>4, <1>5, <1>6, <1>7, <1>8, <1>9, <1>10, <1>11, <1>12, <1>13,
     <1>14, <1>15, <1>16, <1>17, <1>18, <1>19, <1>20, <1>21, <1>22, <1>23, <1>24,
     <1>25, <1>26, <1>27
  DEF Next, Main, Rt

(***************************************************************************)
(* The theorems.                                                           *)
(***************************************************************************)
(* The program begins with nothing started and nothing cleared.            *)
LEMMA EngineInit ==
  ASSUME Init
  PROVE  TypeOK /\ JackInv /\ EndInv /\ HandshakeInv /\ StillInv
<1> USE AtGoes DEF Init
<1>1. TypeOK
  <2>1. \A S : \A pc \in S : At(pc) \in AtTurns(S) BY SomeDevice DEF At, AtTurns, Turns
  <2>2. [capture |-> "prepared", avail |-> 0, playback |-> "prepared", fill |-> 0] \in Card
    BY RingPositive DEF Card, Streams
  <2>3. /\ main \in AtTurns(MainPCs) /\ rt \in AtTurns(RtPCs)
        /\ callback \in AtTurns({"idle", "look", "process"})
    BY <2>1 DEF MainPCs, RtPCs
  <2>4. card \in [Alsa -> Card] BY <2>2
  <2>5. /\ revents \in [Alsa -> SUBSET {"IN", "OUT"}] /\ fault \in [Devices -> BOOLEAN]
        /\ started \in [Jack -> BOOLEAN] /\ written \in [Alsa -> Nat]
    OBVIOUS
  <2>6. finished \in BOOLEAN /\ active \in BOOLEAN BY Zenon
  <2>7. sem \in {0, 1} /\ nstarted \in Int OBVIOUS
  <2>8. /\ priority \in {"default", "raised", "refused"}
        /\ interface \in {"none", "running", "ended"}
        /\ worker \in {"idle", "busy", "ended"} /\ cleared = {}
    OBVIOUS
  <2> QED BY <2>3, <2>4, <2>5, <2>6, <2>7, <2>8 DEF TypeOK
<1>2. JackInv
  <2>1. StartedTurns = {} BY DEF StartedTurns
  <2> QED BY <2>1, FS_EmptySet DEF JackInv, StartedSoFar, Rolling, Early, Late, Clearing
<1>3. EndInv BY DEF EndInv, Clearing
<1>4. HandshakeInv BY DEF HandshakeInv
<1>5. StillInv BY DEF StillInv, Still
<1> QED BY <1>1, <1>2, <1>3, <1>4, <1>5

(* Values keep their types: the turns of every loop stay within the devices
   and a ring never holds more than it can.                                *)
THEOREM EngineTypes == Spec => []TypeOK
<1>1. Init => TypeOK BY EngineInit
<1>2. TypeOK /\ [Next]_vars => TypeOK' BY TypeStep
<1> QED BY <1>1, <1>2, PTL DEF Spec

(* Whatever devices there are and in which order, no thread is at a device,
   its deck or a service of the program that main() has cleared.           *)
THEOREM EngineClears == Spec => []NoUseAfterClear
<1> DEFINE IInv == TypeOK /\ JackInv /\ EndInv
<1>1. Init => IInv BY EngineInit
<1>2. IInv /\ [Next]_vars => IInv' BY TypeStep, JackStep, EndStep
<1>3. IInv => NoUseAfterClear
  <2> SUFFICES ASSUME IInv PROVE NoUseAfterClear OBVIOUS
  <2>1. cleared # {} => rt.pc = "ended" /\ interface # "running" BY DEF EndInv, Clearing
  <2>2. "rig" \in cleared => worker = "ended" BY DEF EndInv
  <2>3. cleared # {} => callback.pc = "idle"
    BY NothingStarted DEF EndInv, JackInv, Late, Clearing
  <2> QED BY <2>1, <2>2, <2>3 DEF NoUseAfterClear, Handled
<1> QED BY <1>1, <1>2, <1>3, PTL DEF Spec

(* A realtime thread without its priority handles nothing, and main() starts
   nothing for it.                                                         *)
THEOREM EngineRefuses == Spec => []RefusedIsIdle
<1> DEFINE IInv == TypeOK /\ HandshakeInv /\ StillInv
<1>1. Init => IInv BY EngineInit
<1>2. IInv /\ [Next]_vars => IInv' BY TypeStep, HandshakeStep, StillStep
<1>3. IInv => RefusedIsIdle BY DEF HandshakeInv, StillInv, Still, RefusedIsIdle
<1> QED BY <1>1, <1>2, <1>3, PTL DEF Spec

(* A stream of a deck starts exactly when its ring is full, for any buffer but
   the largest one of the card (--buffer 0).                               *)
THEOREM EngineStarts ==
  ASSUME buffer # 0
  PROVE  Spec => []StartsWhenFull
<1> DEFINE IInv == TypeOK /\ StartsWhenFull
<1>1. Init => IInv
  <2>1. Init => StartsWhenFull BY RingPositive DEF Init, StartsWhenFull
  <2> QED BY <2>1, EngineInit
<1>2. buffer # 0 OBVIOUS
<1>3. IInv /\ [Next]_vars => IInv' BY <1>2, TypeStep, StartsStep
<1> QED BY <1>1, <1>3, PTL DEF Spec

===============================================================================
