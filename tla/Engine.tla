-------------------------------- MODULE Engine --------------------------------
(***************************************************************************)
(* The threads that carry the audio, from start to shutdown: main() in     *)
(* xwax.c, the realtime thread (realtime.c) with its controllers           *)
(* (controller.c) and ALSA devices (device.c, alsa.c), the callback thread *)
(* of JACK (jack.c), and the interface and the worker of a control socket  *)
(* as far as main() waits for them.                                        *)
(*                                                                         *)
(* What the realtime thread does with the samples is in Player and         *)
(* Timecoder; here a device is used or not. The sound card fills and       *)
(* empties its rings by periods of frames.                                 *)
(***************************************************************************)
EXTENDS Integers, Sequences

CONSTANTS
  dv,          \* rt->dv: the devices, in order; each is that of one deck
  Alsa, Jack,  \* which of them are which
  buffer,      \* --buffer, in periods
  MaxBuffer    \* the largest ring of the card, which a buffer of 0 asks for

Devices == Alsa \cup Jack
Ring == IF buffer = 0 THEN MaxBuffer ELSE buffer

(* What main() clears besides the decks. *)
Services == {"lookup", "library", "rig"}

ASSUME EngineAssumption ==
  /\ Alsa \cap Jack = {} /\ Devices \cap Services = {}
  /\ dv \in Seq(Devices) /\ dv # << >>
  /\ \A d \in Devices : \E n \in 1 .. Len(dv) : dv[n] = d
  /\ \A m, n \in 1 .. Len(dv) : dv[m] = dv[n] => m = n
  /\ buffer \in Nat /\ MaxBuffer \in Nat \ {0}

VARIABLES
  main,      \* where main() is, and in which turn of its loop
  rt,        \* where the realtime thread is, and in which turn
  finished,  \* rt->finished
  sem,       \* rt->sem
  priority,  \* whether the thread got its realtime priority
  card,      \* card[d]: the two streams of an ALSA device
  written,   \* written[d]: alsa->written
  revents,   \* revents[d]: what poll() found on the device
  fault,     \* fault[d]: dv->fault
  started,   \* started[d]: jack->started
  nstarted,  \* of jack.c
  active,    \* the JACK client is active
  callback,  \* where the JACK thread is in process_callback()
  interface, \* the SDL thread
  worker,    \* the worker of a control socket
  cleared    \* what has been cleared

vars == <<main, rt, finished, sem, priority, card, written, revents, fault,
          started, nstarted, active, callback, interface, worker, cleared>>
cardVars == <<card, written, revents, fault>>
jackVars == <<started, nstarted, active, callback>>
otherVars == <<interface, worker>>

At(pc) == [pc |-> pc, n |-> 1]

Init ==
  /\ main = At("launch")
  /\ rt = At("none")
  /\ finished = FALSE /\ sem = 0 /\ priority = "default"
  /\ card = [d \in Alsa |-> [capture |-> "prepared", avail |-> 0,
                             playback |-> "prepared", fill |-> 0]]
  /\ written = [d \in Alsa |-> 0]
  /\ revents = [d \in Alsa |-> {}]
  /\ fault = [d \in Devices |-> FALSE]
  /\ started = [d \in Jack |-> FALSE]
  /\ nstarted = 0 /\ active = FALSE
  /\ callback = At("idle")
  /\ interface = "none" /\ worker = "idle"
  /\ cleared = {}

Goto(pc) == main' = At(pc)

(* The next turn of a loop over the devices, then what follows it. *)
Turn(thread, after) ==
  IF thread.n < Len(dv) THEN [thread EXCEPT !.n = @ + 1] ELSE At(after)

(***************************************************************************)
(* main(): start.                                                          *)
(***************************************************************************)
(* rt_start(): a thread is only made if there is something to poll. The
   control socket always gives a descriptor. *)
Launch ==
  /\ main.pc = "launch"
  /\ \/ rt' = At("prioritise") /\ Goto("handshake")
     \/ Goto("exit") /\ UNCHANGED rt
  /\ UNCHANGED <<finished, sem, priority, cardVars, jackVars, otherVars, cleared>>

Handshake ==
  /\ main.pc = "handshake"
  /\ sem = 1
  /\ sem' = 0
  /\ Goto(IF finished THEN "failed" ELSE "start")
  /\ UNCHANGED <<rt, finished, priority, cardVars, jackVars, otherVars, cleared>>

LaunchFailed ==
  /\ main.pc = "failed"
  /\ rt.pc = "ended"
  /\ Goto("exit")
  /\ UNCHANGED <<rt, finished, sem, priority, cardVars, jackVars, otherVars, cleared>>

(* What becomes of the streams of a device. *)
Put(d, c) == card' = [card EXCEPT ![d] = c]

(* device_start(), by now with the realtime thread at work. *)
StartAlsa(d) ==
  /\ IF card[d].capture = "prepared"
       THEN /\ Put(d, [card[d] EXCEPT !.capture = "running"])
            /\ main' = Turn(main, "mlock")
       ELSE Goto("aborted") /\ UNCHANGED card
  /\ UNCHANGED jackVars

StartJack(d) ==
  /\ active' = TRUE
  /\ nstarted' = nstarted + 1
  /\ started' = [started EXCEPT ![d] = TRUE]
  /\ main' = Turn(main, "mlock")
  /\ UNCHANGED <<card, callback>>

DeviceStart ==
  /\ main.pc = "start"
  /\ LET d == dv[main.n] IN
       \/ d \in Alsa /\ StartAlsa(d)
       \/ d \in Jack /\ StartJack(d)
  /\ UNCHANGED <<rt, finished, sem, priority, written, revents, fault, otherVars,
                 cleared>>

(* mlockall() and interface_start(), and where main() goes if they fail;
   without an interface nothing is started. *)
Prepare ==
  \/ /\ main.pc = "mlock"
     /\ \/ Goto("interface")
        \/ Goto("stop")
     /\ UNCHANGED interface
  \/ /\ main.pc = "interface"
     /\ \/ Goto("rig") /\ interface' \in {"none", "running"}
        \/ Goto("stop") /\ UNCHANGED interface

StartUp ==
  /\ Prepare
  /\ UNCHANGED <<rt, finished, sem, priority, cardVars, jackVars, worker, cleared>>

(***************************************************************************)
(* main(): shutdown, in the order of the code.                             *)
(***************************************************************************)
RigEnds ==
  /\ main.pc = "rig"
  /\ Goto(IF interface = "none" THEN "stop" ELSE "interface_stop")
  /\ UNCHANGED <<rt, finished, sem, priority, cardVars, jackVars, otherVars, cleared>>

InterfaceStop ==
  /\ main.pc = "interface_stop"
  /\ interface = "ended"
  /\ Goto("stop")
  /\ UNCHANGED <<rt, finished, sem, priority, cardVars, jackVars, otherVars, cleared>>

Finish ==
  /\ main.pc = "stop"
  /\ finished' = TRUE
  /\ Goto("device_stop")
  /\ UNCHANGED <<rt, sem, priority, cardVars, jackVars, otherVars, cleared>>

(* The last deck that stops deactivates the client. *)
StopJack(d) ==
  /\ started' = [started EXCEPT ![d] = FALSE]
  /\ nstarted' = nstarted - 1
  /\ active' = (nstarted > 1)
  /\ main' = IF nstarted = 1 THEN [main EXCEPT !.pc = "deactivate"]
                             ELSE Turn(main, "join")

(* An ALSA device has nothing to stop. *)
DeviceStop ==
  /\ main.pc = "device_stop"
  /\ LET d == dv[main.n] IN
       \/ d \in Jack /\ StopJack(d)
       \/ d \in Alsa /\ main' = Turn(main, "join") /\ UNCHANGED <<started, nstarted, active>>
  /\ UNCHANGED <<rt, finished, sem, priority, cardVars, callback, otherVars, cleared>>

(* Mutant: a callback that is under way is not waited for. *)
DeactivateHasty ==
  /\ main.pc = "deactivate"
  /\ main' = Turn([main EXCEPT !.pc = "device_stop"], "join")
  /\ UNCHANGED <<rt, finished, sem, priority, cardVars, jackVars, otherVars, cleared>>

(* jack_deactivate() returns when the callback has. *)
Deactivate ==
  /\ main.pc = "deactivate"
  /\ callback.pc = "idle"
  /\ main' = Turn([main EXCEPT !.pc = "device_stop"], "join")
  /\ UNCHANGED <<rt, finished, sem, priority, cardVars, jackVars, otherVars, cleared>>

Join ==
  /\ main.pc = "join"
  /\ rt.pc = "ended"
  /\ Goto("deck_clear")
  /\ UNCHANGED <<rt, finished, sem, priority, cardVars, jackVars, otherVars, cleared>>

DeckClear ==
  /\ main.pc = "deck_clear"
  /\ cleared' = cleared \cup {dv[main.n]}
  /\ main' = Turn(main, "controller_clear")
  /\ UNCHANGED <<rt, finished, sem, priority, cardVars, jackVars, otherVars>>

(* clear() of control.c joins the worker. *)
ControllerClear ==
  /\ main.pc = "controller_clear"
  /\ worker = "ended"
  /\ Goto("free")
  /\ UNCHANGED <<rt, finished, sem, priority, cardVars, jackVars, otherVars, cleared>>

(* timecoder_free_lookup(), library_clear(), rt_clear(), rig_clear(). *)
Free ==
  /\ main.pc = "free"
  /\ cleared' = cleared \cup Services
  /\ Goto("exit")
  /\ UNCHANGED <<rt, finished, sem, priority, cardVars, jackVars, otherVars>>

(***************************************************************************)
(* The realtime thread.                                                    *)
(***************************************************************************)
(* Mutant: the thread goes on without its priority. *)
PrioritiseAnyway ==
  /\ rt.pc = "prioritise"
  /\ rt' = At("declare")
  /\ priority' \in {"raised", "refused"}
  /\ UNCHANGED <<main, finished, sem, cardVars, jackVars, otherVars, cleared>>

(* raise_priority() *)
Prioritise ==
  /\ rt.pc = "prioritise"
  /\ rt' = At("declare")
  /\ priority' \in {"raised", "refused"}
  /\ finished' = (finished \/ priority' = "refused")
  /\ UNCHANGED <<main, sem, cardVars, jackVars, otherVars, cleared>>

Declare ==
  /\ rt.pc = "declare"
  /\ sem' = 1
  /\ rt' = At("poll")
  /\ UNCHANGED <<main, finished, priority, cardVars, jackVars, otherVars, cleared>>

(* What poll() finds: a full period, or an error that wakes both ways. *)
Revents(c) ==
  {e \in {"IN", "OUT"} :
     IF e = "IN" THEN c.capture \in {"xrun", "gone"} \/ c.avail > 0
                 ELSE c.playback \in {"xrun", "gone"} \/ c.fill < Ring}

(* Mutant: the loop goes on for ever. *)
PollOn ==
  /\ rt.pc = "poll"
  /\ rt' = At("control") /\ revents' = [d \in Alsa |-> Revents(card[d])]
  /\ UNCHANGED <<main, finished, sem, priority, card, written, fault, jackVars,
                 otherVars, cleared>>

(* The wait is bounded, so that poll() may find nothing. *)
Poll ==
  /\ rt.pc = "poll"
  /\ IF finished THEN rt' = At("ended") /\ UNCHANGED revents
     ELSE rt' = At("control") /\ revents' = [d \in Alsa |-> Revents(card[d])]
  /\ UNCHANGED <<main, finished, sem, priority, card, written, fault, jackVars,
                 otherVars, cleared>>

(* The control socket may have a job for its worker. *)
ControllerHandle ==
  /\ rt.pc = "control"
  /\ rt' = At("capture")
  /\ \/ worker = "idle" /\ worker' = "busy"
     \/ UNCHANGED worker
  /\ UNCHANGED <<main, finished, sem, priority, cardVars, jackVars, interface, cleared>>

Handled(d) == rt.pc \in {"capture", "playback"} /\ dv[rt.n] = d

(* A JACK device has no handle(). *)
Skip(d) ==
  /\ rt.pc = "capture" /\ dv[rt.n] = d
  /\ d \in Jack \/ fault[d]
  /\ rt' = Turn(rt, "poll")
  /\ UNCHANGED <<main, finished, sem, priority, cardVars, jackVars, otherVars, cleared>>

Disable(d) ==
  /\ fault' = [fault EXCEPT ![d] = TRUE]
  /\ rt' = Turn([rt EXCEPT !.pc = "capture"], "poll")

(* handle(), capture(): an overrun is started again at once. *)
Capture(d) ==
  /\ rt.pc = "capture" /\ dv[rt.n] = d
  /\ d \in Alsa /\ ~fault[d]
  /\ \/ /\ "IN" \in revents[d] /\ card[d].capture = "gone"
        /\ Disable(d) /\ UNCHANGED card
     \/ /\ "IN" \in revents[d] /\ card[d].capture # "gone"
        /\ Put(d, [card[d] EXCEPT !.avail = 0,
                     !.capture = IF card[d].capture = "xrun" THEN "running"
                                                             ELSE card[d].capture])
        /\ rt' = [rt EXCEPT !.pc = "playback"] /\ UNCHANGED fault
     \/ /\ "IN" \notin revents[d]
        /\ rt' = [rt EXCEPT !.pc = "playback"] /\ UNCHANGED <<card, fault>>
  /\ UNCHANGED <<main, finished, sem, priority, written, revents, jackVars, otherVars,
                 cleared>>

(* playback(): the ring is filled, and the stream started when as much has
   been written as it holds. *)
Fill(d) ==
  LET frames == Ring - card[d].fill
      count  == IF written[d] < buffer THEN written[d] + frames ELSE written[d]
      starts == written[d] < buffer /\ count >= buffer
  IN  /\ written' = [written EXCEPT ![d] = count]
      /\ Put(d, [card[d] EXCEPT !.fill = Ring,
                   !.playback = IF starts THEN "running" ELSE card[d].playback])

(* Mutant: what was written before the underrun still counts. *)
RecoverCounted(d) ==
  /\ Put(d, [card[d] EXCEPT !.playback = "prepared", !.fill = 0])
  /\ UNCHANGED written

(* handle(): an underrun begins with an empty ring. *)
Recover(d) ==
  /\ Put(d, [card[d] EXCEPT !.playback = "prepared", !.fill = 0])
  /\ written' = [written EXCEPT ![d] = 0]

Playback(d) ==
  /\ rt.pc = "playback" /\ dv[rt.n] = d
  /\ \/ /\ "OUT" \in revents[d] /\ card[d].playback = "gone"
        /\ Disable(d) /\ UNCHANGED <<card, written>>
     \/ /\ rt' = Turn([rt EXCEPT !.pc = "capture"], "poll")
        /\ UNCHANGED fault
        /\ \/ /\ "OUT" \in revents[d]
              /\ card[d].playback \in {"prepared", "running"} /\ Fill(d)
           \/ "OUT" \in revents[d] /\ card[d].playback = "xrun" /\ Recover(d)
           \/ "OUT" \notin revents[d] /\ UNCHANGED <<card, written>>
  /\ UNCHANGED <<main, finished, sem, priority, revents, jackVars, otherVars, cleared>>

(***************************************************************************)
(* JACK's thread: process_callback() looks at one deck after the other.    *)
(***************************************************************************)
CallbackNext(c) ==
  IF c.n < Len(dv) THEN [pc |-> "look", n |-> c.n + 1] ELSE At("idle")

ProcessCallback ==
  /\ \/ callback.pc = "idle" /\ active /\ callback' = At("look")
     \/ /\ callback.pc = "look"
        /\ callback' = IF dv[callback.n] \in Jack /\ started[dv[callback.n]]
                         THEN [callback EXCEPT !.pc = "process"]
                         ELSE CallbackNext(callback)
     \/ callback.pc = "process" /\ callback' = CallbackNext(callback)
  /\ UNCHANGED <<main, rt, finished, sem, priority, cardVars, started, nstarted, active,
                 otherVars, cleared>>

(***************************************************************************)
(* What is around them.                                                    *)
(***************************************************************************)
(* A period passes on the card: the ring of the capture is full or that of the
   playback empty, and the stream stops. *)
Period(d) ==
  /\ \/ /\ card[d].capture = "running" /\ card[d].avail < Ring
        /\ Put(d, [card[d] EXCEPT !.avail = card[d].avail + 1])
     \/ /\ card[d].capture = "running" /\ card[d].avail >= Ring
        /\ Put(d, [card[d] EXCEPT !.capture = "xrun"])
     \/ /\ card[d].playback = "running" /\ card[d].fill > 1
        /\ Put(d, [card[d] EXCEPT !.fill = card[d].fill - 1])
     \/ /\ card[d].playback = "running" /\ card[d].fill <= 1
        /\ Put(d, [card[d] EXCEPT !.fill = 0, !.playback = "xrun"])
  /\ UNCHANGED <<main, rt, finished, sem, priority, written, revents, fault, jackVars,
                 otherVars, cleared>>

Unplug(d) ==
  /\ Put(d, [card[d] EXCEPT !.capture = "gone", !.playback = "gone"])
  /\ UNCHANGED <<main, rt, finished, sem, priority, written, revents, fault, jackVars,
                 otherVars, cleared>>

(* The SDL thread ends by itself, or when it is told. *)
InterfaceEnds ==
  /\ interface = "running"
  /\ interface' = "ended"
  /\ UNCHANGED <<main, rt, finished, sem, priority, cardVars, jackVars, worker, cleared>>

(* A job is finished; once its controller is cleared, the worker ends instead
   of waiting for another. *)
WorkerStep ==
  /\ \/ worker = "busy" /\ worker' = "idle"
     \/ worker = "idle" /\ main.pc \in {"controller_clear", "free"} /\ worker' = "ended"
  /\ UNCHANGED <<main, rt, finished, sem, priority, cardVars, jackVars, interface, cleared>>

Main ==
  \/ Launch \/ Handshake \/ LaunchFailed \/ DeviceStart \/ StartUp
  \/ InterfaceStop \/ Finish \/ DeviceStop \/ Deactivate \/ Join \/ DeckClear
  \/ ControllerClear \/ Free

Rt ==
  \/ Prioritise \/ Declare \/ Poll \/ ControllerHandle
  \/ \E d \in Devices : Skip(d)
  \/ \E d \in Alsa : Capture(d) \/ Playback(d)

(* Nothing moves any more once the program has ended. *)
Next ==
  /\ main.pc \notin {"exit", "aborted"}
  /\ \/ Main \/ RigEnds \/ Rt \/ ProcessCallback \/ InterfaceEnds \/ WorkerStep
     \/ \E d \in Alsa : Period(d) \/ Unplug(d)

(* Every thread runs; nobody has to quit and no card has to be unplugged. *)
Fairness ==
  /\ WF_vars(main.pc # "exit" /\ Main)
  /\ WF_vars(main.pc \notin {"exit", "aborted"} /\ Rt)
  /\ WF_vars(main.pc \notin {"exit", "aborted"} /\ ProcessCallback)
  /\ WF_vars(main.pc = "interface_stop" /\ InterfaceEnds)
  /\ WF_vars(main.pc \notin {"exit", "aborted"} /\ WorkerStep)

Spec == Init /\ [][Next]_vars

FairSpec == Spec /\ Fairness

(***************************************************************************)
(* Properties.                                                             *)
(***************************************************************************)
MainPCs == {"launch", "handshake", "failed", "start", "mlock", "interface", "rig",
            "interface_stop", "stop", "device_stop", "deactivate", "join", "deck_clear",
            "controller_clear", "free", "exit", "aborted"}
RtPCs == {"none", "prioritise", "declare", "poll", "control", "capture", "playback",
          "ended"}
Streams == {"prepared", "running", "xrun", "gone"}
Turns == 1 .. Len(dv)
AtTurns(pcs) == [pc : pcs, n : Turns]
Card == [capture : Streams, avail : Nat, playback : Streams, fill : 0 .. Ring]

TypeOK ==
  /\ main \in AtTurns(MainPCs)
  /\ rt \in AtTurns(RtPCs)
  /\ finished \in BOOLEAN /\ sem \in {0, 1}
  /\ priority \in {"default", "raised", "refused"}
  /\ card \in [Alsa -> Card]
  /\ written \in [Alsa -> Nat]
  /\ revents \in [Alsa -> SUBSET {"IN", "OUT"}]
  /\ fault \in [Devices -> BOOLEAN]
  /\ started \in [Jack -> BOOLEAN]
  /\ nstarted \in Int /\ active \in BOOLEAN
  /\ callback \in AtTurns({"idle", "look", "process"})
  /\ interface \in {"none", "running", "ended"}
  /\ worker \in {"idle", "busy", "ended"}
  /\ cleared \subseteq Devices \cup Services

(* No thread is at a device, its deck or the services of the program when
   main() has cleared them: the realtime thread and JACK's have left every
   device, the interface has ended before the decks go, and the worker before
   the tables, the library and the rig (main(), rt_stop(), stop() in jack.c,
   clear() in control.c). *)
NoUseAfterClear ==
  /\ \A d \in Devices : d \in cleared =>
       /\ ~Handled(d)
       /\ ~(callback.pc = "process" /\ dv[callback.n] = d)
  /\ cleared # {} => rt.pc = "ended" /\ interface # "running"
  /\ "rig" \in cleared => worker = "ended"

(* A realtime thread that did not get its priority handles nothing, and no
   device is started for it: main() learns of it whichever of them is the
   faster (rt_main(), rt_start()). *)
RefusedIsIdle ==
  priority = "refused" =>
    /\ rt.pc \in {"declare", "poll", "ended"}
    /\ main.pc \in {"handshake", "failed", "exit"}
    /\ nstarted = 0 /\ \A d \in Alsa : card[d].capture # "running"

(* A playback stream that is waiting to be filled has as many frames in its
   ring as have been counted, so that it starts when the ring is full and not
   before, and it is never left full without being started (playback(),
   handle()). *)
StartsWhenFull ==
  \A d \in Alsa : card[d].playback = "prepared" =>
    written[d] = card[d].fill /\ card[d].fill < Ring

Over == finished \/ main.pc \in {"exit", "aborted"}

(* Playback that stops for want of audio runs again, whatever the other
   devices do, until its card is gone or the program ends (handle(), playback()
   and device_handle()). *)
AudioFlows ==
  \A d \in Alsa :
    (rt.pc = "poll" /\ card[d].playback # "running")
      ~> (card[d].playback = "running" \/ fault[d] \/ Over)

(* Once the rig has ended, or the start has failed, main() comes to its end:
   every thread it waits for ends first (main(), rt_stop(), interface_stop()). *)
MainEnds ==
  main.pc \in {"failed", "interface_stop", "stop"} ~> main.pc = "exit"

===============================================================================
