----------------------------- MODULE ControlMailbox -----------------------------
(***************************************************************************)
(* The hand-off of control.c between the realtime thread, which reads      *)
(* requests from the deck's socket and must not block, and the worker      *)
(* thread, which serves the ones that allocate: LOAD, UNLOAD and the       *)
(* resolving of a TIMECODE name.  With it, what deck_load() and            *)
(* deck_unload() leave in the deck, and the order in which xwax.c shuts    *)
(* the threads down.                                                       *)
(*                                                                         *)
(* The realtime thread and the main thread only hold ctrl->lock within one *)
(* step; the worker may be seen holding it.                                *)
(***************************************************************************)
EXTENDS Naturals, Sequences

CONSTANTS
  Paths,      (* what LOAD can ask for                                     *)
  Names,      (* what TIMECODE can ask for                                 *)
  Defs,       (* the names that timecoder_find_definition() knows          *)
  None,       (* NULL: nothing pending, nothing in hand, no_record, and    *)
              (* the empty track                                           *)
  Cleared     (* the player after player_clear()                           *)

ASSUME ControlMailboxAssumption ==
  /\ Defs \subseteq Names
  /\ None \notin Paths \cup Names
  /\ Cleared \notin Paths /\ Cleared # None

VARIABLES
  pendingPath,      (* ctrl->pending_path                                  *)
  pendingUnload,    (* ctrl->pending_unload                                *)
  pendingTimecode,  (* ctrl->pending_timecode                              *)
  pendingDef,       (* ctrl->pending_def                                   *)
  shutdown,         (* ctrl->shutdown                                      *)
  locked,           (* the worker holds ctrl->lock                         *)
  wpc,              (* where the worker is                                 *)
  job,              (* the path, name or definition the worker has in hand *)
  record,           (* deck->record: the path STATUS reports               *)
  track,            (* deck->player.track                                  *)
  def,              (* the definition of deck->timecoder                   *)
  phase,            (* how far main() is with shutting down                *)
  owed              (* history: requests accepted and not yet finished     *)

slots == <<pendingPath, pendingUnload, pendingTimecode, pendingDef>>
worker == <<locked, wpc, job>>
deck == <<record, track, def>>
vars == <<pendingPath, pendingUnload, pendingTimecode, pendingDef, shutdown,
          locked, wpc, job, record, track, def, phase, owed>>

(* "relock" and "store" are the two places where the worker waits for the  *)
(* lock; "test" and "publish" the two where it holds it.                   *)
WorkerPCs == {"relock", "test", "wait", "exited",
              "resolve", "store", "publish",
              "load", "setLoaded", "unload", "setEmpty"}
Phases == {"running", "stopped", "cleared", "joining", "joined"}
Kinds == {"load", "unload", "timecode"}

Init ==
  /\ pendingPath = None /\ pendingUnload = FALSE
  /\ pendingTimecode = None /\ pendingDef = None
  /\ shutdown = FALSE
  /\ locked = FALSE /\ wpc = "relock" /\ job = None
  /\ record = None /\ track = None /\ def \in Defs
  /\ phase = "running"
  /\ owed = [k \in Kinds |-> 0]

Owe(k) == owed' = [owed EXCEPT ![k] = @ + 1]
Finish(k) == owed' = [owed EXCEPT ![k] = @ - 1]

(* pthread_cond_signal(): the worker, if it waits, goes to take the lock.  *)
Signal == wpc' = IF wpc = "wait" THEN "relock" ELSE wpc

(***************************************************************************)
(* The realtime thread.  A request that finds its slot taken is dropped,   *)
(* which leaves everything as it is.                                       *)
(***************************************************************************)
RtHasLock == phase = "running" /\ ~locked

HandleLoad(p) ==
  /\ RtHasLock /\ pendingPath = None
  /\ pendingPath' = p
  /\ Signal
  /\ Owe("load")
  /\ UNCHANGED <<pendingUnload, pendingTimecode, pendingDef, shutdown, locked,
                 job, deck, phase>>

(* Mutant: the worker is not signalled.                                    *)
HandleUnloadSilent ==
  /\ RtHasLock /\ pendingPath = None /\ ~pendingUnload
  /\ pendingUnload' = TRUE
  /\ Owe("unload")
  /\ UNCHANGED <<pendingPath, pendingTimecode, pendingDef, shutdown, worker,
                 deck, phase>>

HandleUnload ==
  /\ RtHasLock /\ pendingPath = None /\ ~pendingUnload
  /\ pendingUnload' = TRUE
  /\ Signal
  /\ Owe("unload")
  /\ UNCHANGED <<pendingPath, pendingTimecode, pendingDef, shutdown, locked,
                 job, deck, phase>>

(* Mutant: the worker is not signalled.                                    *)
HandleTimecodeSilent(n) ==
  /\ RtHasLock /\ pendingTimecode = None
  /\ pendingTimecode' = n
  /\ Owe("timecode")
  /\ UNCHANGED <<pendingPath, pendingUnload, pendingDef, shutdown, worker,
                 deck, phase>>

HandleTimecode(n) ==
  /\ RtHasLock /\ pendingTimecode = None
  /\ pendingTimecode' = n
  /\ Signal
  /\ Owe("timecode")
  /\ UNCHANGED <<pendingPath, pendingUnload, pendingDef, shutdown, locked,
                 job, deck, phase>>

(* Mutant: the definition is taken from the mailbox and not applied.       *)
ApplyForgets ==
  /\ RtHasLock /\ pendingDef # None
  /\ pendingDef' = None
  /\ UNCHANGED <<pendingPath, pendingUnload, pendingTimecode, shutdown, worker,
                 deck, phase, owed>>

(* apply_pending_definition().  It tries the lock; when the worker has it, *)
(* nothing happens this cycle.                                             *)
ApplyPendingDefinition ==
  /\ RtHasLock /\ pendingDef # None
  /\ def' = pendingDef
  /\ pendingDef' = None
  /\ UNCHANGED <<pendingPath, pendingUnload, pendingTimecode, shutdown, worker,
                 record, track, phase, owed>>
(***************************************************************************)
(* The worker thread (worker_main).                                        *)
(***************************************************************************)
Relock ==
  /\ wpc = "relock" /\ ~locked
  /\ wpc' = "test" /\ locked' = TRUE
  /\ UNCHANGED <<slots, shutdown, job, deck, phase, owed>>

NothingPending == pendingPath = None /\ ~pendingUnload /\ pendingTimecode = None

(* pthread_cond_wait() gives up the lock.                                  *)
Wait ==
  /\ wpc = "test" /\ NothingPending /\ ~shutdown
  /\ wpc' = "wait" /\ locked' = FALSE
  /\ UNCHANGED <<slots, shutdown, job, deck, phase, owed>>

(* pthread_cond_wait() may return without a signal.                        *)
WakeSpuriously ==
  /\ wpc = "wait"
  /\ wpc' = "relock"
  /\ UNCHANGED <<slots, shutdown, locked, job, deck, phase, owed>>

Exit ==
  /\ wpc = "test" /\ shutdown
  /\ wpc' = "exited" /\ locked' = FALSE
  /\ UNCHANGED <<slots, shutdown, job, deck, phase, owed>>

TakeTimecode ==
  /\ wpc = "test" /\ ~shutdown /\ pendingTimecode # None
  /\ job' = pendingTimecode
  /\ pendingTimecode' = None
  /\ wpc' = "resolve" /\ locked' = FALSE
  /\ UNCHANGED <<pendingPath, pendingUnload, pendingDef, shutdown, deck,
                 phase, owed>>

(* Mutant: the lock is kept during a load.                                 *)
TakeLoadLocked ==
  /\ wpc = "test" /\ ~shutdown /\ pendingTimecode = None /\ pendingPath # None
  /\ job' = pendingPath
  /\ pendingPath' = None
  /\ wpc' = "load"
  /\ UNCHANGED <<pendingUnload, pendingTimecode, pendingDef, shutdown, locked,
                 deck, phase, owed>>

TakeLoad ==
  /\ wpc = "test" /\ ~shutdown /\ pendingTimecode = None /\ pendingPath # None
  /\ job' = pendingPath
  /\ pendingPath' = None
  /\ wpc' = "load" /\ locked' = FALSE
  /\ UNCHANGED <<pendingUnload, pendingTimecode, pendingDef, shutdown, deck,
                 phase, owed>>

TakeUnload ==
  /\ wpc = "test" /\ ~shutdown /\ pendingTimecode = None /\ pendingPath = None
  /\ pendingUnload
  /\ pendingUnload' = FALSE
  /\ wpc' = "unload" /\ locked' = FALSE
  /\ UNCHANGED <<pendingPath, pendingTimecode, pendingDef, shutdown, job, deck,
                 phase, owed>>

(* do_timecode() up to its lock.  An unknown name is dropped, and so is    *)
(* one whose lookup table cannot be allocated.                             *)
Resolve ==
  /\ wpc = "resolve"
  /\ \/ /\ job \in Defs
        /\ wpc' = "store"
        /\ UNCHANGED <<job, owed>>
     \/ /\ wpc' = "relock"
        /\ job' = None
        /\ Finish("timecode")
  /\ UNCHANGED <<slots, shutdown, locked, deck, phase>>

Store ==
  /\ wpc = "store" /\ ~locked
  /\ wpc' = "publish" /\ locked' = TRUE
  /\ UNCHANGED <<slots, shutdown, job, deck, phase, owed>>

(* A definition that the realtime thread has not applied yet is replaced.  *)
Publish ==
  /\ wpc = "publish"
  /\ pendingDef' = job
  /\ wpc' = "relock" /\ locked' = FALSE /\ job' = None
  /\ Finish("timecode")
  /\ UNCHANGED <<pendingPath, pendingUnload, pendingTimecode, shutdown,
                 deck, phase>>

(* deck_load() goes no further: the deck is protected and playing, or the  *)
(* file cannot be imported.                                                *)
LoadRefused ==
  /\ wpc = "load"
  /\ wpc' = "relock" /\ job' = None
  /\ Finish("load")
  /\ UNCHANGED <<slots, shutdown, locked, deck, phase>>

LoadRecord ==
  /\ wpc = "load"
  /\ record' = job
  /\ wpc' = "setLoaded"
  /\ UNCHANGED <<slots, shutdown, locked, job, track, def, phase, owed>>

(* player_set_track()                                                      *)
LoadTrack ==
  /\ wpc = "setLoaded"
  /\ track' = job
  /\ wpc' = "relock" /\ job' = None
  /\ Finish("load")
  /\ UNCHANGED <<slots, shutdown, locked, record, def, phase>>

(* deck_unload() goes no further: the deck is protected and playing.       *)
UnloadRefused ==
  /\ wpc = "unload"
  /\ wpc' = "relock"
  /\ Finish("unload")
  /\ UNCHANGED <<slots, shutdown, locked, job, deck, phase>>

UnloadRecord ==
  /\ wpc = "unload"
  /\ record' = None
  /\ wpc' = "setEmpty"
  /\ UNCHANGED <<slots, shutdown, locked, job, track, def, phase, owed>>

UnloadTrack ==
  /\ wpc = "setEmpty"
  /\ track' = None
  /\ wpc' = "relock"
  /\ Finish("unload")
  /\ UNCHANGED <<slots, shutdown, locked, job, record, def, phase>>

(***************************************************************************)
(* The end of main(): rt_stop(), deck_clear(), then clear() of the socket, *)
(* which signals the worker and joins it.                                  *)
(***************************************************************************)
RtStop ==
  /\ phase = "running"
  /\ phase' = "stopped"
  /\ UNCHANGED <<slots, shutdown, worker, deck, owed>>

DeckClear ==
  /\ phase = "stopped"
  /\ phase' = "cleared"
  /\ track' = Cleared
  /\ UNCHANGED <<slots, shutdown, worker, record, def, owed>>

(* Mutant: the worker is not signalled.                                    *)
ShutdownSilent ==
  /\ phase = "cleared" /\ ~locked
  /\ phase' = "joining"
  /\ shutdown' = TRUE
  /\ UNCHANGED <<slots, worker, deck, owed>>

Shutdown ==
  /\ phase = "cleared" /\ ~locked
  /\ phase' = "joining"
  /\ shutdown' = TRUE
  /\ Signal
  /\ UNCHANGED <<slots, locked, job, deck, owed>>

(* The requests that nobody took are freed with the mailbox.               *)
Join ==
  /\ phase = "joining" /\ wpc = "exited"
  /\ phase' = "joined"
  /\ pendingPath' = None /\ pendingUnload' = FALSE /\ pendingTimecode' = None
  /\ owed' = [k \in Kinds |-> 0]
  /\ UNCHANGED <<pendingDef, shutdown, worker, deck>>

RtNext ==
  \/ \E p \in Paths : HandleLoad(p)
  \/ HandleUnload
  \/ \E n \in Names : HandleTimecode(n)
  \/ ApplyPendingDefinition

WorkerStep ==
  \/ Relock \/ Wait \/ Exit
  \/ TakeTimecode \/ TakeLoad \/ TakeUnload
  \/ Resolve \/ Store \/ Publish
  \/ LoadRefused \/ LoadRecord \/ LoadTrack
  \/ UnloadRefused \/ UnloadRecord \/ UnloadTrack

MainStep == DeckClear \/ Shutdown \/ Join

Next == RtNext \/ WorkerStep \/ WakeSpuriously \/ RtStop \/ MainStep

Spec == Init /\ [][Next]_vars

(* The worker runs when it can; the others hold the lock within one step,  *)
(* so that it is never kept from it. The realtime thread comes round to    *)
(* apply_pending_definition() every 10ms at least, but it only tries the   *)
(* lock: nothing promises it the lock while the worker keeps coming back   *)
(* for it. Once main() has left rig_main() it goes on to the end. Nobody   *)
(* has to send a request or end the program.                               *)
Fairness ==
  /\ WF_vars(WorkerStep)
  /\ WF_vars(ApplyPendingDefinition)
  /\ WF_vars(MainStep)

FairSpec == Spec /\ Fairness
(***************************************************************************)
(* Properties.                                                             *)
(***************************************************************************)
TypeOK ==
  /\ pendingPath \in Paths \cup {None}
  /\ pendingUnload \in BOOLEAN
  /\ pendingTimecode \in Names \cup {None}
  /\ pendingDef \in Defs \cup {None}
  /\ shutdown \in BOOLEAN
  /\ locked \in BOOLEAN
  /\ wpc \in WorkerPCs
  /\ job \in Paths \cup Names \cup {None}
  /\ record \in Paths \cup {None}
  /\ track \in Paths \cup {None, Cleared}
  /\ def \in Defs
  /\ phase \in Phases
  /\ owed \in [Kinds -> Nat]

(* The worker never sleeps through a request or through the shutdown: when *)
(* it waits there is nothing for it to do.                                 *)
NoLostWakeup == wpc = "wait" => NothingPending /\ ~shutdown

(* The realtime thread, which takes the lock for every request, never      *)
(* waits for a load, an unload or the building of a lookup table: however  *)
(* the worker came to them, and back from them, it has the lock only while *)
(* it looks at the mailbox (worker_main(), apply_pending_definition()).    *)
NeverWaitsOnJob == locked <=> wpc \in {"test", "publish"}

(* Every accepted request is pending or in the worker's hand until it is   *)
(* finished, and only once: none is forgotten, none runs twice.            *)
One(b) == IF b THEN 1 ELSE 0
EachRequestOnce ==
  /\ owed["load"] = One(pendingPath # None) + One(wpc \in {"load", "setLoaded"})
  /\ owed["unload"] = One(pendingUnload) + One(wpc \in {"unload", "setEmpty"})
  /\ owed["timecode"] = One(pendingTimecode # None)
                          + One(wpc \in {"resolve", "store", "publish"})

(* The mailbox keeps what the socket promises (DeckRequests): requests of  *)
(* one kind are served in order, each once, and a definition that was      *)
(* resolved last is the one the deck ends up with.                         *)
InHand(pcs, x) == IF wpc \in pcs THEN <<x>> ELSE <<>>
Slot(x) == IF x # None THEN <<x>> ELSE <<>>
Promise ==
  INSTANCE DeckRequests WITH
    Nothing <- None,
    loads <- InHand({"load", "setLoaded"}, job) \o Slot(pendingPath),
    unloads <- One(pendingUnload) + One(wpc \in {"unload", "setEmpty"}),
    names <- InHand({"resolve", "store", "publish"}, job)
               \o Slot(pendingTimecode),
    chosen <- IF pendingDef # None THEN pendingDef ELSE def
KeepsPromise == Promise!Spec

TimecodeServed == pendingTimecode # None ~> pendingTimecode = None \/ shutdown
LoadServed ==
  <>[](pendingTimecode = None)
    => (pendingPath # None ~> pendingPath = None \/ shutdown)
UnloadServed ==
  <>[](pendingTimecode = None /\ pendingPath = None)
    => (pendingUnload ~> ~pendingUnload \/ shutdown)

DefinitionApplied ==
  <>[](wpc = "wait")
    => (pendingDef # None ~> pendingDef = None \/ phase # "running")

(* A request is always taken up, unless requests of the kinds that go      *)
(* first, TIMECODE before LOAD before UNLOAD, never stop coming; and what  *)
(* a TIMECODE resolved to reaches the timecoder once the worker sleeps and *)
(* the lock is free with it ("Missing it costs one cycle and it is picked  *)
(* up on the next", control.c).                                            *)
RequestsServed ==
  TimecodeServed /\ LoadServed /\ UnloadServed /\ DefinitionApplied

(* clear() does not wait for the worker for ever.                          *)
ShutdownEnds == phase = "joining" ~> phase = "joined"
================================================================================
