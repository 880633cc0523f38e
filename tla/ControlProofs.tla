---------------------------- MODULE ControlProofs ----------------------------
(***************************************************************************)
(* Proofs about the two halves of a deck's control socket (control.c).     *)
(* The mailbox, for any files, names and definitions: no lost wakeup, each *)
(* accepted request served once, and DeckRequests implemented.  The        *)
(* socket, for any clients and streams: whatever the clients do and        *)
(* however read() cuts their streams, the deck executes whole lines of one *)
(* client, in order, each once.                                            *)
(***************************************************************************)
EXTENDS ControlMailbox, ControlSocket, SequenceTheorems, TLAPS

(***************************************************************************)
(* The mailbox (ControlMailbox).                                           *)
(***************************************************************************)
(***************************************************************************)
(* The inductive invariant.                                                *)
(***************************************************************************)
(* What the worker has in hand is of the kind it is working on.            *)
JobOfItsKind ==
  /\ wpc \in {"load", "setLoaded"} => job \in Paths
  /\ wpc = "resolve" => job \in Names
  /\ wpc \in {"store", "publish"} => job \in Defs

(* The worker only exits because of the shutdown, which comes last.        *)
ShutdownIsLast ==
  /\ shutdown <=> phase \in {"joining", "joined"}
  /\ wpc = "exited" => shutdown

IInv ==
  /\ TypeOK
  /\ NoLostWakeup
  /\ NeverWaitsOnJob
  /\ EachRequestOnce
  /\ JobOfItsKind
  /\ ShutdownIsLast

USE DEF slots, worker, deck

(* The initial states satisfy the invariant.                               *)
LEMMA InitHolds == Init => IInv
<1> SUFFICES ASSUME Init PROVE IInv
  OBVIOUS
<1>1. TypeOK
  BY DEF Init, TypeOK, WorkerPCs, Phases, Kinds
<1>2. NoLostWakeup /\ NeverWaitsOnJob /\ JobOfItsKind /\ ShutdownIsLast
  BY DEF Init, NoLostWakeup, NeverWaitsOnJob, JobOfItsKind, ShutdownIsLast
<1>3. EachRequestOnce
  BY DEF Init, EachRequestOnce, One, Kinds
<1>. QED BY <1>1, <1>2, <1>3 DEF IInv

(* A request handled by the realtime thread, or the applying of a          *)
(* definition, keeps the invariant.                                        *)
LEMMA RtStep ==
  ASSUME IInv, RtNext PROVE IInv'
<1> USE ControlMailboxAssumption
    DEF ControlMailboxAssumption, IInv, TypeOK, NoLostWakeup, NeverWaitsOnJob,
        EachRequestOnce, JobOfItsKind, ShutdownIsLast, One, WorkerPCs, Phases,
        Kinds, RtHasLock, Signal, Owe, NothingPending
<1>1. ASSUME NEW p \in Paths, HandleLoad(p) PROVE IInv'
  BY <1>1 DEF HandleLoad
<1>2. ASSUME HandleUnload PROVE IInv'
  BY <1>2 DEF HandleUnload
<1>3. ASSUME NEW n \in Names, HandleTimecode(n) PROVE IInv'
  BY <1>3 DEF HandleTimecode
<1>4. ASSUME ApplyPendingDefinition PROVE IInv'
  BY <1>4 DEF ApplyPendingDefinition
<1>. QED BY <1>1, <1>2, <1>3, <1>4 DEF RtNext

(* A step of the worker keeps the invariant.                               *)
LEMMA WorkerKeeps ==
  ASSUME IInv, WorkerStep \/ WakeSpuriously PROVE IInv'
<1> USE ControlMailboxAssumption
    DEF ControlMailboxAssumption, TypeOK, WorkerPCs
<1>0. TypeOK /\ NoLostWakeup /\ NeverWaitsOnJob /\ EachRequestOnce
        /\ JobOfItsKind /\ ShutdownIsLast
  BY DEF IInv
<1> DEFINE Rest == NoLostWakeup /\ NeverWaitsOnJob /\ JobOfItsKind
                     /\ ShutdownIsLast
<1>1. ASSUME Relock \/ Wait \/ Exit \/ WakeSpuriously PROVE IInv'
  <2> USE <1>1 DEF Relock, Wait, Exit, WakeSpuriously
  <2>1. TypeOK'
    BY <1>0
  <2>2. Rest'
    BY <1>0 DEF NoLostWakeup, NeverWaitsOnJob, JobOfItsKind, ShutdownIsLast,
       NothingPending
  <2>3. EachRequestOnce'
    BY <1>0 DEF EachRequestOnce, One
  <2>. QED BY <2>1, <2>2, <2>3 DEF IInv
<1>2. ASSUME TakeTimecode \/ TakeLoad \/ TakeUnload PROVE IInv'
  <2> USE <1>2 DEF TakeTimecode, TakeLoad, TakeUnload
  <2>1. TypeOK'
    BY <1>0
  <2>2. Rest'
    BY <1>0 DEF NoLostWakeup, NeverWaitsOnJob, JobOfItsKind, ShutdownIsLast
  <2>3. EachRequestOnce'
    BY <1>0 DEF EachRequestOnce, One
  <2>. QED BY <2>1, <2>2, <2>3 DEF IInv
<1>3. ASSUME Resolve \/ Store \/ Publish PROVE IInv'
  <2> USE <1>3 DEF Resolve, Store, Publish
  <2>1. EachRequestOnce' /\ owed' \in [Kinds -> Nat]
    BY <1>0 DEF EachRequestOnce, One, Finish, Kinds
  <2>2. TypeOK'
    BY <1>0, <2>1 DEF JobOfItsKind
  <2>3. Rest'
    BY <1>0 DEF NoLostWakeup, NeverWaitsOnJob, JobOfItsKind, ShutdownIsLast
  <2>. QED BY <2>1, <2>2, <2>3 DEF IInv
<1>4. ASSUME LoadRefused \/ LoadRecord \/ LoadTrack PROVE IInv'
  <2> USE <1>4 DEF LoadRefused, LoadRecord, LoadTrack
  <2>1. EachRequestOnce' /\ owed' \in [Kinds -> Nat]
    BY <1>0 DEF EachRequestOnce, One, Finish, Kinds
  <2>2. TypeOK'
    BY <1>0, <2>1 DEF JobOfItsKind
  <2>3. Rest'
    BY <1>0 DEF NoLostWakeup, NeverWaitsOnJob, JobOfItsKind, ShutdownIsLast
  <2>. QED BY <2>1, <2>2, <2>3 DEF IInv
<1>5. ASSUME UnloadRefused \/ UnloadRecord \/ UnloadTrack PROVE IInv'
  <2> USE <1>5 DEF UnloadRefused, UnloadRecord, UnloadTrack
  <2>1. EachRequestOnce' /\ owed' \in [Kinds -> Nat]
    BY <1>0 DEF EachRequestOnce, One, Finish, Kinds
  <2>2. TypeOK'
    BY <1>0, <2>1
  <2>3. Rest'
    BY <1>0 DEF NoLostWakeup, NeverWaitsOnJob, JobOfItsKind, ShutdownIsLast
  <2>. QED BY <2>1, <2>2, <2>3 DEF IInv
<1>. QED BY <1>1, <1>2, <1>3, <1>4, <1>5 DEF WorkerStep

(* The steps of main() keep the invariant.                                 *)
LEMMA MainKeeps ==
  ASSUME IInv, RtStop \/ MainStep PROVE IInv'
<1> USE ControlMailboxAssumption DEF ControlMailboxAssumption, TypeOK, Phases
<1>0. TypeOK /\ NoLostWakeup /\ NeverWaitsOnJob /\ EachRequestOnce
        /\ JobOfItsKind /\ ShutdownIsLast
  BY DEF IInv
<1>1. ASSUME RtStop \/ DeckClear PROVE IInv'
  BY <1>1, <1>0 DEF RtStop, DeckClear, IInv, NoLostWakeup, NeverWaitsOnJob,
     EachRequestOnce, JobOfItsKind, ShutdownIsLast, NothingPending
<1>2. ASSUME Shutdown PROVE IInv'
  BY <1>2, <1>0 DEF Shutdown, Signal, WorkerPCs, IInv, NoLostWakeup,
     NeverWaitsOnJob, EachRequestOnce, JobOfItsKind, ShutdownIsLast,
     NothingPending
<1>3. ASSUME Join PROVE IInv'
  <2> USE <1>3 DEF Join
  <2>1. EachRequestOnce' /\ owed' \in [Kinds -> Nat]
    BY DEF EachRequestOnce, One, Kinds
  <2>2. TypeOK'
    BY <1>0, <2>1
  <2>3. NoLostWakeup' /\ NeverWaitsOnJob' /\ JobOfItsKind' /\ ShutdownIsLast'
    BY <1>0 DEF NoLostWakeup, NeverWaitsOnJob, JobOfItsKind, ShutdownIsLast
  <2>. QED BY <2>1, <2>2, <2>3 DEF IInv
<1>. QED BY <1>1, <1>2, <1>3 DEF MainStep

(* The invariant holds in every reachable state.                           *)
THEOREM InductiveInvariant == Spec => []IInv
<1>1. ASSUME IInv, [Next]_vars PROVE IInv'
  <2>1. CASE Next
    BY <1>1, <2>1, RtStep, WorkerKeeps, MainKeeps DEF Next
  <2>2. CASE UNCHANGED vars
    BY <1>1, <2>2 DEF vars, IInv, TypeOK, NoLostWakeup, NeverWaitsOnJob,
       EachRequestOnce, JobOfItsKind, ShutdownIsLast, NothingPending
  <2>. QED BY <1>1, <2>1, <2>2
<1>. QED BY InitHolds, <1>1, PTL DEF Spec

(* The types of the mailbox's state.                                       *)
THEOREM TypeCorrect == Spec => []TypeOK
BY InductiveInvariant, PTL DEF IInv

(* The worker never sleeps while a request or the shutdown waits for it.   *)
THEOREM NoWakeupLost == Spec => []NoLostWakeup
BY InductiveInvariant, PTL DEF IInv

(* The worker has the lock only while it looks at the mailbox.             *)
THEOREM RealtimeNeverWaits == Spec => []NeverWaitsOnJob
BY InductiveInvariant, PTL DEF IInv

(* Every accepted request is served once.                                  *)
THEOREM ServedOnce == Spec => []EachRequestOnce
BY InductiveInvariant, PTL DEF IInv

-------------------------------------------------------------------------------
(***************************************************************************)
(* The mailbox implements DeckRequests.                                    *)
(***************************************************************************)
(* Sequences of at most two requests.                                      *)
LEMMA ShortSequences ==
  ASSUME NEW x, NEW y
  PROVE  /\ Append(<<x>>, y) = <<x, y>>
         /\ <<x>> \o <<y>> = <<x, y>>
<1>1. /\ <<x>> \in Seq({x, y}) /\ <<x, y>> \in Seq({x, y})
      /\ Append(<<x>>, y) \in Seq({x, y}) /\ <<x>> \o <<y>> \in Seq({x, y})
  OBVIOUS
<1>2. Len(<<x, y>>) = 2 /\ Len(Append(<<x>>, y)) = 2 /\ Len(<<x>> \o <<y>>) = 2
  OBVIOUS
<1>3. Append(<<x>>, y)[1] = x /\ Append(<<x>>, y)[2] = y
  OBVIOUS
<1>4. (<<x>> \o <<y>>)[1] = x /\ (<<x>> \o <<y>>)[2] = y
  OBVIOUS
<1>5. \A i \in 1 .. 2 : Append(<<x>>, y)[i] = <<x, y>>[i]
  BY <1>3
<1>6. \A i \in 1 .. 2 : (<<x>> \o <<y>>)[i] = <<x, y>>[i]
  BY <1>4
<1>7. Append(<<x>>, y) = <<x, y>>
  BY ONLY <1>1, <1>2, <1>5, SeqEqual
<1>8. <<x>> \o <<y>> = <<x, y>>
  BY ONLY <1>1, <1>2, <1>6, SeqEqual
<1>. QED BY <1>7, <1>8

(* A request enters the slot, moves to the worker's hand and is finished.  *)
LEMMA QueueMoves ==
  ASSUME NEW h, NEW s
  PROVE  /\ <<>> \o <<s>> = Append(<<>> \o <<>>, s)
         /\ <<h>> \o <<s>> = Append(<<h>> \o <<>>, s)
         /\ <<s>> \o <<>> = <<>> \o <<s>>
         /\ <<h>> \o <<>> # <<>> /\ <<h>> \o <<s>> # <<>>
         /\ Head(<<h>> \o <<>>) = h /\ Head(<<h>> \o <<s>>) = h
         /\ Tail(<<h>> \o <<>>) = <<>> \o <<>>
         /\ Tail(<<h>> \o <<s>>) = <<>> \o <<s>>
<1>1. /\ <<>> \o <<>> = <<>> /\ <<>> \o <<s>> = <<s>> /\ <<s>> \o <<>> = <<s>>
      /\ <<h>> \o <<>> = <<h>> /\ Append(<<>>, s) = <<s>>
  OBVIOUS
<1>2. /\ <<h>> # <<>> /\ <<h, s>> # <<>>
      /\ Head(<<h>>) = h /\ Head(<<h, s>>) = h
      /\ Tail(<<h>>) = <<>> /\ Tail(<<h, s>>) = <<s>>
  OBVIOUS
<1>. QED BY <1>1, <1>2, ShortSequences

(* The three queues of DeckRequests, as the mailbox keeps them.            *)
Loads == InHand({"load", "setLoaded"}, job) \o Slot(pendingPath)
Unloads == One(pendingUnload) + One(wpc \in {"unload", "setEmpty"})
TimecodeNames ==
  InHand({"resolve", "store", "publish"}, job) \o Slot(pendingTimecode)
Chosen == IF pendingDef # None THEN pendingDef ELSE def

(* A request the realtime thread accepts is accepted by DeckRequests.      *)
LEMMA RtImplements ==
  ASSUME IInv, RtNext PROVE [Promise!Next]_Promise!vars
<1> USE ControlMailboxAssumption DEF ControlMailboxAssumption
<1>0. TypeOK /\ NeverWaitsOnJob
  BY DEF IInv
<1>1. ASSUME NEW p \in Paths, HandleLoad(p) PROVE Promise!AcceptLoad(p)
  <2>1. /\ Loads' = Append(Loads, p)
        /\ TimecodeNames' = TimecodeNames /\ Unloads' = Unloads
    BY <1>1, <1>0, QueueMoves DEF HandleLoad, RtHasLock, Signal, Loads,
       TimecodeNames, Unloads, InHand, Slot, One, TypeOK
  <2>. QED BY <1>1, <2>1 DEF HandleLoad, Promise!AcceptLoad, Loads,
              TimecodeNames, Unloads
<1>2. ASSUME HandleUnload PROVE Promise!AcceptUnload
  <2>1. /\ Unloads' = Unloads + 1
        /\ TimecodeNames' = TimecodeNames /\ Loads' = Loads
    BY <1>2, <1>0, QueueMoves DEF HandleUnload, RtHasLock, Signal, Loads,
       TimecodeNames, Unloads, InHand, Slot, One, TypeOK
  <2>. QED BY <1>2, <2>1 DEF HandleUnload, Promise!AcceptUnload, Loads,
              TimecodeNames, Unloads
<1>3. ASSUME NEW n \in Names, HandleTimecode(n) PROVE Promise!AcceptTimecode(n)
  <2>1. /\ TimecodeNames' = Append(TimecodeNames, n)
        /\ Loads' = Loads /\ Unloads' = Unloads
    BY <1>3, <1>0, QueueMoves DEF HandleTimecode, RtHasLock, Signal, Loads,
       TimecodeNames, Unloads, InHand, Slot, One, TypeOK
  <2>. QED BY <1>3, <2>1 DEF HandleTimecode, Promise!AcceptTimecode, Loads,
              TimecodeNames, Unloads
<1>4. ASSUME ApplyPendingDefinition PROVE UNCHANGED Promise!vars
  BY <1>4, <1>0 DEF ApplyPendingDefinition, Promise!vars, InHand, TypeOK
<1>. QED BY <1>1, <1>2, <1>3, <1>4 DEF RtNext, Promise!Next

(* Taking a request up is not seen; finishing it is DeckRequests' serving. *)
LEMMA WorkerImplements ==
  ASSUME IInv, WorkerStep \/ WakeSpuriously
  PROVE  [Promise!Next]_Promise!vars
<1> USE ControlMailboxAssumption DEF ControlMailboxAssumption
<1>0. TypeOK /\ EachRequestOnce /\ JobOfItsKind
  BY DEF IInv
<1> DEFINE Queues == <<Loads, Unloads, TimecodeNames>>
<1>1. ASSUME Relock \/ Wait \/ Exit \/ WakeSpuriously \/ Store
      PROVE  UNCHANGED Promise!vars
  <2>1. Queues' = Queues
    BY <1>1 DEF Relock, Wait, Exit, WakeSpuriously, Store, Loads, Unloads,
       TimecodeNames, InHand, Slot, One
  <2>. QED BY <1>1, <2>1 DEF Relock, Wait, Exit, WakeSpuriously, Store,
              Promise!vars, Loads, Unloads, TimecodeNames
<1>2. ASSUME TakeTimecode \/ TakeLoad \/ TakeUnload
      PROVE  UNCHANGED Promise!vars
  <2>1. Queues' = Queues
    <3>1. CASE TakeTimecode
      BY <3>1, <1>0, QueueMoves DEF TakeTimecode, Loads, Unloads,
         TimecodeNames, InHand, Slot, One, TypeOK
    <3>2. CASE TakeLoad
      BY <3>2, <1>0, QueueMoves DEF TakeLoad, Loads, Unloads, TimecodeNames,
         InHand, Slot, One, TypeOK
    <3>3. CASE TakeUnload
      BY <3>3, <1>0 DEF TakeUnload, Loads, Unloads, TimecodeNames, InHand,
         Slot, One, TypeOK
    <3>. QED BY <1>2, <3>1, <3>2, <3>3
  <2>. QED BY <1>2, <2>1 DEF TakeTimecode, TakeLoad, TakeUnload, Promise!vars,
              Loads, Unloads, TimecodeNames
<1>3. ASSUME Resolve PROVE [Promise!ServeTimecode]_Promise!vars
  <2>1. CASE wpc' = "store"
    <3>1. Queues' = Queues
      BY <1>3, <2>1 DEF Resolve, Loads, Unloads, TimecodeNames, InHand, Slot,
         One
    <3>. QED BY <1>3, <2>1, <3>1 DEF Resolve, Promise!vars, Loads, Unloads,
                TimecodeNames
  <2>2. CASE wpc' = "relock"
    <3>1. /\ TimecodeNames # <<>> /\ TimecodeNames' = Tail(TimecodeNames)
          /\ Loads' = Loads /\ Unloads' = Unloads
      BY <1>3, <2>2, QueueMoves DEF Resolve, Loads, Unloads, TimecodeNames,
         InHand, Slot, One
    <3>. QED BY <1>3, <3>1 DEF Resolve, Promise!ServeTimecode, Loads, Unloads,
                TimecodeNames
  <2>. QED BY <1>3, <2>1, <2>2 DEF Resolve
<1>4. ASSUME Publish PROVE Promise!ServeTimecode
  <2>1. /\ TimecodeNames # <<>> /\ TimecodeNames' = Tail(TimecodeNames)
        /\ Head(TimecodeNames) = job
        /\ Loads' = Loads /\ Unloads' = Unloads
    BY <1>4, QueueMoves DEF Publish, Loads, Unloads, TimecodeNames, InHand,
       Slot, One
  <2>2. job \in Defs /\ Chosen' = job
    BY <1>4, <1>0 DEF Publish, JobOfItsKind, Chosen
  <2>. QED BY <1>4, <2>1, <2>2 DEF Publish, Promise!ServeTimecode, Loads,
              Unloads, TimecodeNames, Chosen
<1>5. ASSUME LoadRecord \/ UnloadRecord PROVE UNCHANGED Promise!vars
  <2>1. Queues' = Queues
    BY <1>5 DEF LoadRecord, UnloadRecord, Loads, Unloads, TimecodeNames,
       InHand, Slot, One
  <2>. QED BY <1>5, <2>1 DEF LoadRecord, UnloadRecord, Promise!vars, Loads,
              Unloads, TimecodeNames
<1>6. ASSUME LoadRefused \/ LoadTrack PROVE Promise!ServeLoad
  <2>1. /\ Loads # <<>> /\ Loads' = Tail(Loads) /\ Head(Loads) = job
        /\ TimecodeNames' = TimecodeNames /\ Unloads' = Unloads
    BY <1>6, QueueMoves DEF LoadRefused, LoadTrack, Loads, Unloads,
       TimecodeNames, InHand, Slot, One
  <2>2. track' \in {track, job} /\ Chosen' = Chosen
    BY <1>6 DEF LoadRefused, LoadTrack, Chosen
  <2>. QED BY <2>1, <2>2 DEF Promise!ServeLoad, Loads, Unloads, TimecodeNames,
              Chosen
<1>7. ASSUME UnloadRefused \/ UnloadTrack PROVE Promise!ServeUnload
  <2>1. /\ Unloads > 0 /\ Unloads' = Unloads - 1
        /\ Loads' = Loads /\ TimecodeNames' = TimecodeNames
    BY <1>7, <1>0 DEF UnloadRefused, UnloadTrack, Loads, Unloads,
       TimecodeNames, InHand, Slot, One, TypeOK
  <2>2. track' \in {track, None} /\ Chosen' = Chosen
    BY <1>7 DEF UnloadRefused, UnloadTrack, Chosen
  <2>. QED BY <2>1, <2>2 DEF Promise!ServeUnload, Loads, Unloads,
              TimecodeNames, Chosen
<1>. QED BY <1>1, <1>2, <1>3, <1>4, <1>5, <1>6, <1>7
         DEF WorkerStep, Promise!Next

(* main() clears the deck and discards what was not taken up.              *)
LEMMA MainImplements ==
  ASSUME IInv, RtStop \/ MainStep PROVE [Promise!Next]_Promise!vars
<1>1. ASSUME RtStop \/ Shutdown PROVE UNCHANGED Promise!vars
  <2>1. <<Loads, Unloads, TimecodeNames>>' = <<Loads, Unloads, TimecodeNames>>
    BY <1>1 DEF RtStop, Shutdown, Signal, Loads, Unloads, TimecodeNames,
       InHand, Slot, One
  <2>. QED BY <1>1, <2>1 DEF RtStop, Shutdown, Promise!vars, Loads, Unloads,
              TimecodeNames
<1>2. ASSUME DeckClear PROVE Promise!Clear
  BY <1>2 DEF DeckClear, Promise!Clear, InHand, Slot, One
<1>3. ASSUME Join PROVE Promise!Discard
  <2>1. Loads' = <<>> /\ Unloads' = 0 /\ TimecodeNames' = <<>>
    BY <1>3 DEF Join, Loads, Unloads, TimecodeNames, InHand, Slot, One
  <2>. QED BY <1>3, <2>1 DEF Join, Promise!Discard, Loads, Unloads,
              TimecodeNames
<1>. QED BY <1>1, <1>2, <1>3 DEF MainStep, Promise!Next

(* The mailbox implements DeckRequests.                                    *)
THEOREM Implements == Spec => KeepsPromise
<1>1. Init => Promise!Init
  BY ControlMailboxAssumption
     DEF ControlMailboxAssumption, Init, Promise!Init, InHand, Slot, One
<1>2. ASSUME IInv, [Next]_vars PROVE [Promise!Next]_Promise!vars
  <2>1. CASE Next
    BY <1>2, <2>1, RtImplements, WorkerImplements, MainImplements DEF Next
  <2>2. CASE UNCHANGED vars
    BY <2>2 DEF vars, Promise!vars, InHand
  <2>. QED BY <1>2, <2>1, <2>2
<1>. QED BY InductiveInvariant, <1>1, <1>2, PTL
         DEF Spec, KeepsPromise, Promise!Spec

-------------------------------------------------------------------------------
(***************************************************************************)
(* The connections and the lines (ControlSocket).                          *)
(***************************************************************************)
(* Where the bytes of c that are no longer in the buffer end.              *)
Base(c) == got[c] - Len(buf)

(* The buffer is a stretch of the client's stream, up to what was read.    *)
BufferIsStretch ==
  client_fd # none =>
    /\ Base(client_fd) >= 0
    /\ \A i \in 1 .. Len(buf) :
         buf[i] = ByteAt(client_fd, Base(client_fd) + i)

(* It starts where the last line that was handled ends.                    *)
StartsAtLine ==
  client_fd # none =>
    /\ \A j \in 1 .. Len(handled) :
         handled[j].fd = client_fd => Last(handled[j]) <= Base(client_fd)
    /\ Base(client_fd) > 0 =>
         \E j \in 1 .. Len(handled) :
           handled[j].fd = client_fd /\ Last(handled[j]) = Base(client_fd)

New(c) == c \notin arrived \/ \E i \in 1 .. Len(backlog) : backlog[i] = c

(* Nothing was read of a connection that was not accepted.                 *)
NewIsUnread ==
  /\ \A c \in Clients : New(c) =>
       /\ got[c] = 0
       /\ c # client_fd
       /\ \A j \in 1 .. Len(handled) : handled[j].fd # c
  /\ \A i, j \in 1 .. Len(backlog) : backlog[i] = backlog[j] => i = j
  /\ \A i \in 1 .. Len(backlog) : backlog[i] \in arrived

ThreadKnows ==
  /\ pc \in {"read", "lines"} => client_fd # none
  /\ pc # "lines" => Len(buf) < BUFSIZE
  /\ pc = "cleared" => client_fd = none

Bounded == \A c \in Clients : got[c] <= wrote[c]

SocketIInv ==
  /\ SocketTypeOK
  /\ Bounded
  /\ ThreadKnows
  /\ NewIsUnread
  /\ BufferIsStretch
  /\ StartsAtLine
  /\ WholeLines
  /\ InOrder

USE SocketAssumption

(* Initially nobody is connected and nothing was handled.                  *)
LEMMA SocketInitHolds == SocketInit => SocketIInv
<1>. SUFFICES ASSUME SocketInit PROVE SocketIInv
  OBVIOUS
<1>. USE DEF SocketInit
<1>1. SocketTypeOK
  <2>1. << >> \in Seq(Clients) /\ << >> \in Seq(Byte) /\ << >> \in Seq(Line)
    BY EmptySeq
  <2>2. Len(buf) <= BUFSIZE
    BY EmptySeq
  <2>3. \A c \in Clients : 0 \in 0 .. MaxBytes
    OBVIOUS
  <2>. QED BY <2>1, <2>2, <2>3 DEF SocketTypeOK, Fill
<1>2. Bounded /\ ThreadKnows /\ BufferIsStretch /\ StartsAtLine
  BY DEF Bounded, ThreadKnows, BufferIsStretch, StartsAtLine
<1>3. NewIsUnread
  BY DEF NewIsUnread, New
<1>4. WholeLines /\ InOrder
  BY DEF WholeLines, InOrder
<1>. QED BY <1>1, <1>2, <1>3, <1>4 DEF SocketIInv

(* The parts that speak of the bytes and the lines change only with them.  *)
LEMMA StreamsKept ==
  ASSUME SocketIInv, UNCHANGED <<newline, got, arrived, backlog, thread>>
  PROVE  NewIsUnread' /\ BufferIsStretch' /\ StartsAtLine' /\ WholeLines' /\ InOrder'
<1>1. NewIsUnread'
  BY DEF SocketIInv, NewIsUnread, New, thread
<1>2. BufferIsStretch' /\ StartsAtLine'
  BY DEF SocketIInv, BufferIsStretch, StartsAtLine, Base, Last, thread
<1>3. WholeLines' /\ InOrder'
  BY DEF SocketIInv, WholeLines, WholeLine, InOrder, First, Last, IsNewline, thread
<1>. QED BY <1>1, <1>2, <1>3

(* What the clients write and close, and the steps of the thread that
   neither read nor handle nor drop.                                       *)
LEMMA QuietStep ==
  ASSUME SocketIInv,
         \/ \E c \in Clients : Write(c) \/ Close(c)
         \/ Poll \/ Leave \/ AcceptReturns \/ ReadReturns \/ LinesDone \/ RtFinish
  PROVE  SocketIInv'
<1>1. UNCHANGED <<newline, got, arrived, backlog, thread>>
  BY DEF Write, Close, Poll, Leave, AcceptReturns, ReadReturns, LinesDone, RtFinish,
         peers, thread
<1>2. NewIsUnread' /\ BufferIsStretch' /\ StartsAtLine' /\ WholeLines' /\ InOrder'
  BY <1>1, StreamsKept
<1>3. SocketTypeOK' /\ Bounded'
  <2>1. CASE \E c \in Clients : Write(c)
    BY <2>1 DEF SocketIInv, SocketTypeOK, Fill, Bounded, Write, thread
  <2>2. CASE \E c \in Clients : Close(c)
    BY <2>2 DEF SocketIInv, SocketTypeOK, Fill, Bounded, Close, thread
  <2>3. CASE Poll \/ Leave \/ AcceptReturns \/ ReadReturns \/ LinesDone \/ RtFinish
    BY <2>3 DEF SocketIInv, SocketTypeOK, Fill, Bounded, Poll, Leave, AcceptReturns, ReadReturns,
       LinesDone, RtFinish, peers, thread
  <2>. QED BY <2>1, <2>2, <2>3
<1>4. ThreadKnows'
  <2>1. Len(buf) \in Nat /\ Len(buf) <= BUFSIZE
    BY DEF SocketIInv, SocketTypeOK, Fill
  <2>. QED
    BY <2>1 DEF SocketIInv, ThreadKnows, Write, Close, Poll, Leave, AcceptReturns,
       ReadReturns, LinesDone, RtFinish, peers, thread
<1>. QED BY <1>2, <1>3, <1>4 DEF SocketIInv

(* A connection that is new joins the end of the queue.                    *)
LEMMA ConnectStep ==
  ASSUME SocketIInv, NEW c \in Clients, Connect(c)
  PROVE  SocketIInv'
<1>. USE DEF Connect, thread
<1>1. backlog \in Seq(Clients) /\ arrived \subseteq Clients
  BY DEF SocketIInv, SocketTypeOK
<1>2. /\ Len(backlog') = Len(backlog) + 1
      /\ backlog'[Len(backlog) + 1] = c
      /\ \A i \in 1 .. Len(backlog) : backlog'[i] = backlog[i]
  BY <1>1
<1>3. \A d \in Clients : New(d)' => New(d)
  BY <1>1, <1>2 DEF New
<1>4. NewIsUnread'
  <2>1. \A d \in Clients : New(d)' =>
          got'[d] = 0 /\ d # client_fd' /\ \A j \in 1 .. Len(handled') : handled'[j].fd # d
    BY <1>3 DEF SocketIInv, NewIsUnread
  <2>2. \A i \in 1 .. Len(backlog) : backlog[i] # c
    BY DEF SocketIInv, NewIsUnread
  <2>3. \A i, j \in 1 .. Len(backlog') : backlog'[i] = backlog'[j] => i = j
    BY <1>1, <1>2, <2>2 DEF SocketIInv, NewIsUnread
  <2>4. \A i \in 1 .. Len(backlog') : backlog'[i] \in arrived'
    BY <1>1, <1>2 DEF SocketIInv, NewIsUnread
  <2>. QED BY <2>1, <2>3, <2>4 DEF NewIsUnread
<1>5. SocketTypeOK' /\ Bounded' /\ ThreadKnows'
  BY <1>1 DEF SocketIInv, SocketTypeOK, Fill, Bounded, ThreadKnows
<1>6. BufferIsStretch' /\ StartsAtLine'
  BY DEF SocketIInv, BufferIsStretch, StartsAtLine, Base, Last
<1>7. WholeLines' /\ InOrder'
  BY DEF SocketIInv, WholeLines, WholeLine, InOrder, First, Last, IsNewline
<1>. QED BY <1>4, <1>5, <1>6, <1>7 DEF SocketIInv

(* The client that is accepted has an empty buffer and nothing handled.    *)
LEMMA AcceptStep ==
  ASSUME SocketIInv, Accept
  PROVE  SocketIInv'
<1>. USE DEF Accept, peers
<1>1. backlog \in Seq(Clients) /\ backlog # << >> /\ none \notin Clients
  BY DEF SocketIInv, SocketTypeOK
<1>2. /\ client_fd' = backlog[1] /\ client_fd' \in Clients
      /\ Len(backlog) \in Nat \ {0}
      /\ backlog' \in Seq(Clients)
      /\ Len(backlog') = Len(backlog) - 1
      /\ \A i \in 1 .. Len(backlog') : backlog'[i] = backlog[i + 1]
  BY <1>1
<1>3. New(client_fd')
  BY <1>2 DEF New
<1>4. /\ got[client_fd'] = 0
      /\ \A j \in 1 .. Len(handled) : handled[j].fd # client_fd'
  BY <1>2, <1>3 DEF SocketIInv, NewIsUnread
<1>5. buf' = << >>
  BY DEF SocketIInv, SocketTypeOK
<1>6. NewIsUnread'
  <2>1. \A d \in Clients : New(d)' => New(d)
    BY <1>2 DEF New
  <2>2. \A i \in 1 .. Len(backlog') : backlog'[i] # client_fd'
    BY <1>2 DEF SocketIInv, NewIsUnread
  <2>3. client_fd' \in arrived
    BY <1>2 DEF SocketIInv, NewIsUnread
  <2>4. \A d \in Clients : New(d)' =>
          got'[d] = 0 /\ d # client_fd' /\ \A j \in 1 .. Len(handled') : handled'[j].fd # d
    BY <2>1, <2>2, <2>3 DEF SocketIInv, NewIsUnread, New
  <2>5. /\ \A i, j \in 1 .. Len(backlog') : backlog'[i] = backlog'[j] => i = j
        /\ \A i \in 1 .. Len(backlog') : backlog'[i] \in arrived'
    BY <1>2 DEF SocketIInv, NewIsUnread
  <2>. QED BY <2>4, <2>5 DEF NewIsUnread
<1>7. SocketTypeOK' /\ Bounded'
  BY <1>1, <1>2, <1>5 DEF SocketIInv, SocketTypeOK, Fill, Bounded
<1>8. ThreadKnows'
  BY <1>1, <1>2, <1>5 DEF SocketIInv, ThreadKnows
<1>9. BufferIsStretch' /\ StartsAtLine'
  BY <1>4, <1>5 DEF BufferIsStretch, StartsAtLine, Base
<1>10. WholeLines' /\ InOrder'
  BY DEF SocketIInv, WholeLines, WholeLine, InOrder, First, Last, IsNewline
<1>. QED BY <1>6, <1>7, <1>8, <1>9, <1>10 DEF SocketIInv

(* Dropping the client, whatever the reason, drops what it has not ended.  *)
LEMMA DropStep ==
  ASSUME SocketIInv, ReadsNothing \/ LineTooLong \/ Clear
  PROVE  SocketIInv'
<1>1. client_fd' = none /\ buf' = << >> /\ handled' = handled /\ newline' = newline
  BY DEF ReadsNothing, LineTooLong, Clear, Disconnected, peers
<1>2. /\ UNCHANGED <<peers, got, reset, finished>>
      /\ backlog' = backlog \/ backlog' = << >>
      /\ pc' \in {"poll", "cleared"}
  BY DEF ReadsNothing, LineTooLong, Clear
<1>3. SocketTypeOK' /\ Bounded' /\ ThreadKnows'
  <2>1. SocketTypeOK'
    <3>1. << >> \in Seq(Clients) /\ << >> \in Seq(Byte) /\ Len(<< >>) <= BUFSIZE
      BY EmptySeq
    <3>. QED BY <1>1, <1>2, <3>1 DEF SocketIInv, SocketTypeOK, Fill, peers
  <2>2. Bounded' /\ ThreadKnows'
    BY <1>1, <1>2 DEF SocketIInv, Bounded, ThreadKnows, peers
  <2>. QED BY <2>1, <2>2
<1>4. NewIsUnread'
  <2>1. none \notin Clients
    OBVIOUS
  <2>2. \A d \in Clients : New(d)' => New(d)
    BY <1>2 DEF New, peers
  <2>. QED BY <1>1, <1>2, <2>1, <2>2 DEF SocketIInv, NewIsUnread, peers
<1>5. BufferIsStretch' /\ StartsAtLine'
  BY <1>1 DEF BufferIsStretch, StartsAtLine
<1>6. WholeLines' /\ InOrder'
  BY <1>1 DEF SocketIInv, WholeLines, WholeLine, InOrder, First, Last, IsNewline
<1>. QED BY <1>3, <1>4, <1>5, <1>6 DEF SocketIInv
(* What read() appends goes on where the buffer ends.                      *)
LEMMA ReadStep ==
  ASSUME SocketIInv, Read
  PROVE  SocketIInv'
<1>. DEFINE c == client_fd
<1>1. PICK n \in 1 .. Least(Available(c), BUFSIZE - Len(buf)) :
        /\ buf' = buf \o [i \in 1 .. n |-> ByteAt(c, got[c] + i)]
        /\ got' = [got EXCEPT ![c] = @ + n]
  BY DEF Read
<1>2. /\ UNCHANGED <<newline, wrote, gone, arrived, reset, backlog, client_fd, handled, finished>>
      /\ pc = "read" /\ pc' = "lines"
  BY DEF Read, peers
<1>3. /\ c \in Clients /\ c # none
      /\ wrote[c] \in 0 .. MaxBytes /\ got[c] \in 0 .. MaxBytes
      /\ buf \in Seq(Byte) /\ Len(buf) \in Nat /\ Len(buf) <= BUFSIZE
  BY <1>2 DEF SocketIInv, SocketTypeOK, Fill, ThreadKnows
<1>4. /\ n \in Nat \ {0}
      /\ got[c] + n <= wrote[c]
      /\ Len(buf) + n <= BUFSIZE
  BY <1>1, <1>3 DEF Least, Available
<1>. DEFINE more == [i \in 1 .. n |-> ByteAt(c, got[c] + i)]
<1>5. more \in Seq(Byte) /\ Len(more) = n
  <2>1. \A i \in 1 .. n : ByteAt(c, got[c] + i) \in Byte
    BY <1>3, <1>4 DEF Byte, ByteAt
  <2>2. more \in [1 .. n -> Byte]
    BY <2>1
  <2>3. more \in Seq(Byte)
    BY <1>4, <2>2, SeqDef
  <2>4. DOMAIN more = 1 .. n /\ DOMAIN more = 1 .. Len(more) /\ Len(more) \in Nat
    BY <2>3, LenProperties
  <2>. QED BY <1>4, <2>3, <2>4
<1>6. /\ buf' \in Seq(Byte)
      /\ Len(buf') = Len(buf) + n
      /\ \A i \in 1 .. Len(buf) : buf'[i] = buf[i]
      /\ \A i \in Len(buf) + 1 .. Len(buf) + n :
           buf'[i] = ByteAt(c, got[c] + (i - Len(buf)))
  <2>1. buf' = buf \o more
    BY <1>1
  <2>2. \A i \in 1 .. n : more[i] = ByteAt(c, got[c] + i)
    OBVIOUS
  <2>. HIDE DEF more
  <2>3. /\ buf' \in Seq(Byte) /\ Len(buf') = Len(buf) + n
        /\ \A i \in 1 .. Len(buf) + n :
             buf'[i] = IF i <= Len(buf) THEN buf[i] ELSE more[i - Len(buf)]
    BY <1>3, <1>5, <2>1, ConcatProperties
  <2>4. \A i \in 1 .. Len(buf) : buf'[i] = buf[i]
    BY <1>3, <1>4, <2>3
  <2>5. \A i \in Len(buf) + 1 .. Len(buf) + n : buf'[i] = more[i - Len(buf)]
    BY <1>3, <1>4, <2>3
  <2>6. \A i \in Len(buf) + 1 .. Len(buf) + n : i - Len(buf) \in 1 .. n
    BY <1>3, <1>4
  <2>. QED BY <2>2, <2>3, <2>4, <2>5, <2>6
<1>7. /\ got' \in [Clients -> 0 .. MaxBytes]
      /\ got'[c] = got[c] + n
      /\ \A d \in Clients : d # c => got'[d] = got[d]
  BY <1>1, <1>3, <1>4 DEF SocketIInv, SocketTypeOK
<1>. HIDE DEF c
<1>8. Base(c)' = Base(c)
  BY <1>2, <1>3, <1>4, <1>6, <1>7 DEF Base, c
<1>9. SocketTypeOK'
  BY <1>2, <1>3, <1>4, <1>6, <1>7 DEF SocketIInv, SocketTypeOK, Fill, c
<1>10. Bounded' /\ ThreadKnows'
  BY <1>2, <1>3, <1>4, <1>7 DEF SocketIInv, Bounded, ThreadKnows, c
<1>11. NewIsUnread'
  <2>1. \A d \in Clients : New(d)' <=> New(d)
    BY <1>2 DEF New
  <2>. QED BY <1>2, <1>7, <2>1 DEF SocketIInv, NewIsUnread, c
<1>12. BufferIsStretch'
  <2>1. /\ Base(c) >= 0 /\ Base(c) = got[c] - Len(buf)
        /\ \A i \in 1 .. Len(buf) : buf[i] = ByteAt(c, Base(c) + i)
    BY <1>3 DEF SocketIInv, BufferIsStretch, Base, c
  <2>2. \A i \in 1 .. Len(buf) : buf'[i] = ByteAt(c, Base(c) + i)
    BY <1>6, <2>1
  <2>3. \A i \in Len(buf) + 1 .. Len(buf) + n : buf'[i] = ByteAt(c, Base(c) + i)
    <3>1. \A i \in Len(buf) + 1 .. Len(buf) + n : got[c] + (i - Len(buf)) = Base(c) + i
      BY <1>3, <1>4, <2>1
    <3>. QED BY <1>6, <3>1
  <2>4. \A i \in 1 .. Len(buf') : i \in 1 .. Len(buf) \/ i \in Len(buf) + 1 .. Len(buf) + n
    BY <1>3, <1>4, <1>6
  <2>. QED BY <1>2, <1>8, <2>1, <2>2, <2>3, <2>4 DEF BufferIsStretch, c
<1>13. StartsAtLine'
  BY <1>2, <1>3, <1>8 DEF SocketIInv, StartsAtLine, Last, c
<1>14. WholeLines' /\ InOrder'
  BY <1>2 DEF SocketIInv, WholeLines, WholeLine, InOrder, First, Last, IsNewline
<1>. QED BY <1>9, <1>10, <1>11, <1>12, <1>13, <1>14 DEF SocketIInv

(* The places of a handled line are numbers, and its last is a newline.    *)
LEMMA LinePlaces ==
  ASSUME NEW h \in Line, WholeLine(h)
  PROVE  /\ First(h) \in Nat /\ Last(h) \in Nat
         /\ Last(h) \in newline[h.fd]
<1>1. h.line \in Seq(Byte) /\ h.line # << >>
  BY DEF Line, WholeLine
<1>2. Len(h.line) \in Nat \ {0}
  BY <1>1, EmptySeq
<1>3. h.line[1] \in Byte /\ h.line[Len(h.line)] \in Byte
  BY <1>1, <1>2, ElementOfSeq
<1>4. First(h) \in Nat /\ Last(h) \in Nat
  BY <1>3 DEF First, Last, Byte
<1>5. /\ IsNewline(h.line[Len(h.line)])
      /\ h.line[Len(h.line)] = ByteAt(h.fd, First(h) + Len(h.line) - 1)
  BY <1>2 DEF WholeLine
<1>6. Last(h) \in newline[h.fd]
  BY <1>5 DEF IsNewline, Last, ByteAt
<1>. QED BY <1>4, <1>6

(* What a buffer is cut to at a newline: the line and the rest.            *)
LEMMA Cut ==
  ASSUME NEW s \in Seq(Byte), NEW nl \in 1 .. Len(s)
  PROVE  /\ SubSeq(s, 1, nl) \in Seq(Byte)
         /\ Len(SubSeq(s, 1, nl)) = nl
         /\ \A i \in 1 .. nl : SubSeq(s, 1, nl)[i] = s[i]
         /\ SubSeq(s, nl + 1, Len(s)) \in Seq(Byte)
         /\ Len(SubSeq(s, nl + 1, Len(s))) = Len(s) - nl
         /\ \A i \in 1 .. Len(s) - nl : SubSeq(s, nl + 1, Len(s))[i] = s[nl + i]
<1>1. Len(s) \in Nat /\ nl \in Nat
  BY LenProperties
<1>2. \A i \in 1 .. Len(s) : s[i] \in Byte
  BY ElementOfSeq
<1>3. /\ SubSeq(s, 1, nl) \in Seq(Byte)
      /\ Len(SubSeq(s, 1, nl)) = nl
      /\ \A i \in 1 .. nl : SubSeq(s, 1, nl)[i] = s[i]
  <2>1. \A i \in 1 .. nl : s[i] \in Byte
    BY <1>1, <1>2
  <2>2. /\ SubSeq(s, 1, nl) \in Seq(Byte)
        /\ Len(SubSeq(s, 1, nl)) = IF 1 <= nl THEN nl - 1 + 1 ELSE 0
        /\ \A i \in 1 .. nl - 1 + 1 : SubSeq(s, 1, nl)[i] = s[1 + i - 1]
    BY <1>1, <2>1, SubSeqProperties
  <2>. QED BY <1>1, <2>2
<1>4. /\ SubSeq(s, nl + 1, Len(s)) \in Seq(Byte)
      /\ Len(SubSeq(s, nl + 1, Len(s))) = Len(s) - nl
      /\ \A i \in 1 .. Len(s) - nl : SubSeq(s, nl + 1, Len(s))[i] = s[nl + i]
  <2>1. \A i \in nl + 1 .. Len(s) : s[i] \in Byte
    BY <1>1, <1>2
  <2>2. /\ SubSeq(s, nl + 1, Len(s)) \in Seq(Byte)
        /\ Len(SubSeq(s, nl + 1, Len(s))) = IF nl + 1 <= Len(s) THEN Len(s) - (nl + 1) + 1 ELSE 0
        /\ \A i \in 1 .. Len(s) - (nl + 1) + 1 :
             SubSeq(s, nl + 1, Len(s))[i] = s[nl + 1 + i - 1]
    <3>1. nl + 1 \in Int /\ Len(s) \in Int
      BY <1>1
    <3>. QED BY <2>1, <3>1, SubSeqProperties
  <2>3. Len(s) - (nl + 1) + 1 = Len(s) - nl
    BY <1>1
  <2>4. \A i \in 1 .. Len(s) - nl : nl + 1 + i - 1 = nl + i
    BY <1>1
  <2>5. Len(SubSeq(s, nl + 1, Len(s))) = Len(s) - nl
    <3>1. (IF nl + 1 <= Len(s) THEN Len(s) - (nl + 1) + 1 ELSE 0) = Len(s) - nl
      BY <1>1
    <3>. QED BY <2>2, <3>1
  <2>6. \A i \in 1 .. Len(s) - nl : SubSeq(s, nl + 1, Len(s))[i] = s[nl + i]
    BY <2>2, <2>3, <2>4
  <2>. QED BY <2>2, <2>5, <2>6
<1>. QED BY <1>3, <1>4

(* The first line of the buffer is the next line of the client's stream.   *)
LEMMA HandleLineStep ==
  ASSUME SocketIInv, HandleLine
  PROVE  SocketIInv'
<1>. DEFINE c == client_fd
            b == Base(c)
            m == Len(handled)
<1>1. PICK nl \in 1 .. Len(buf) :
        /\ IsNewline(buf[nl])
        /\ \A i \in 1 .. nl - 1 : ~IsNewline(buf[i])
        /\ handled' = Append(handled, [fd |-> c, line |-> SubSeq(buf, 1, nl)])
        /\ buf' = SubSeq(buf, nl + 1, Len(buf))
  BY DEF HandleLine
<1>2. /\ UNCHANGED <<newline, wrote, gone, arrived, got, reset, backlog, client_fd, pc, finished>>
      /\ pc = "lines"
  BY DEF HandleLine, peers
<1>3. /\ c \in Clients /\ c # none
      /\ got[c] \in 0 .. MaxBytes
      /\ buf \in Seq(Byte) /\ Len(buf) \in Nat /\ Len(buf) <= BUFSIZE
      /\ handled \in Seq(Line) /\ m \in Nat
  BY <1>2, LenProperties DEF SocketIInv, SocketTypeOK, Fill, ThreadKnows
<1>4. /\ b \in Nat /\ b = got[c] - Len(buf)
      /\ \A i \in 1 .. Len(buf) : buf[i] = ByteAt(c, b + i)
  BY <1>3 DEF SocketIInv, BufferIsStretch, Base
<1>. DEFINE line == SubSeq(buf, 1, nl)
            h == [fd |-> c, line |-> line]
<1>. HIDE DEF c, b, m
<1>5. /\ line \in Seq(Byte) /\ Len(line) = nl
      /\ \A i \in 1 .. nl : line[i] = buf[i]
      /\ buf' \in Seq(Byte) /\ Len(buf') = Len(buf) - nl
      /\ \A i \in 1 .. Len(buf) - nl : buf'[i] = ByteAt(c, b + nl + i)
  <2>1. /\ line \in Seq(Byte) /\ Len(line) = nl
        /\ \A i \in 1 .. nl : line[i] = buf[i]
        /\ buf' \in Seq(Byte) /\ Len(buf') = Len(buf) - nl
        /\ \A i \in 1 .. Len(buf) - nl : buf'[i] = buf[nl + i]
    BY <1>1, <1>3, Cut
  <2>2. \A i \in 1 .. Len(buf) - nl : nl + i \in 1 .. Len(buf) /\ b + (nl + i) = b + nl + i
    BY <1>3, <1>4
  <2>3. \A i \in 1 .. Len(buf) - nl : buf'[i] = ByteAt(c, b + nl + i)
    BY <1>4, <2>1, <2>2
  <2>. QED BY <2>1, <2>3
<1>. HIDE DEF line
<1>6. h \in Line /\ h.fd = c /\ h.line = line
  BY <1>3, <1>5 DEF Line
<1>7. handled' = Append(handled, h)
  BY <1>1 DEF c, line
<1>. HIDE DEF h
<1>8. /\ handled' \in Seq(Line)
      /\ Len(handled') = m + 1
      /\ handled'[m + 1] = h
      /\ \A j \in 1 .. m : handled'[j] = handled[j]
  BY <1>3, <1>6, <1>7, AppendProperties DEF m
<1>9. Base(c)' = b + nl
  BY <1>2, <1>3, <1>4, <1>5 DEF Base, c
<1>10. First(h) = b + 1 /\ Last(h) = b + nl
  <2>1. line[1] = ByteAt(c, b + 1) /\ line[nl] = ByteAt(c, b + nl)
    <3>1. 1 \in 1 .. nl /\ nl \in 1 .. nl /\ 1 \in 1 .. Len(buf)
      BY <1>3
    <3>. QED BY <1>4, <1>5, <3>1
  <2>. QED BY <1>5, <1>6, <2>1 DEF First, Last, ByteAt
<1>11. \A j \in 1 .. m : /\ handled[j] \in Line /\ WholeLine(handled[j])
                         /\ First(handled[j]) \in Nat /\ Last(handled[j]) \in Nat
                         /\ Last(handled[j]) \in newline[handled[j].fd]
  <2>1. \A j \in 1 .. m : handled[j] \in Line /\ WholeLine(handled[j])
    BY <1>3, ElementOfSeq DEF SocketIInv, WholeLines, m
  <2>. QED BY <2>1, LinePlaces
<1>12. \A j \in 1 .. m : handled[j].fd = c => Last(handled[j]) <= b
  BY <1>3 DEF SocketIInv, StartsAtLine, c, b, m
<1>13. b > 0 => \E j \in 1 .. m : handled[j].fd = c /\ Last(handled[j]) = b
  BY <1>3 DEF SocketIInv, StartsAtLine, c, b, m
<1>14. 1 .. m + 1 = 1 .. m \cup {m + 1}
  BY <1>3 DEF m
<1>15. SocketTypeOK'
  BY <1>2, <1>3, <1>5, <1>8 DEF SocketIInv, SocketTypeOK, Fill, c
<1>16. Bounded' /\ ThreadKnows'
  BY <1>2 DEF SocketIInv, Bounded, ThreadKnows
<1>17. NewIsUnread'
  <2>1. \A d \in Clients : New(d)' <=> New(d)
    BY <1>2 DEF New
  <2>2. \A d \in Clients : New(d) => d # c /\ \A j \in 1 .. m : handled[j].fd # d
    BY DEF SocketIInv, NewIsUnread, c, m
  <2>3. \A d \in Clients : New(d) => \A j \in 1 .. m + 1 : handled'[j].fd # d
    BY <1>6, <1>8, <1>14, <2>2
  <2>. QED BY <1>2, <1>8, <2>1, <2>3 DEF SocketIInv, NewIsUnread
<1>18. BufferIsStretch'
  BY <1>2, <1>3, <1>4, <1>5, <1>9 DEF BufferIsStretch, c
<1>19. StartsAtLine'
  <2>1. \A j \in 1 .. m : handled[j].fd = c => Last(handled[j]) <= b + nl
    <3>1. \A k \in Nat : k <= b => k <= b + nl
      BY <1>3, <1>4
    <3>. QED BY <1>11, <1>12, <3>1
  <2>2. \A j \in 1 .. m + 1 : handled'[j].fd = c => Last(handled'[j]) <= b + nl
    <3>1. Last(h) <= b + nl
      BY <1>3, <1>4, <1>10
    <3>. QED BY <1>8, <1>14, <2>1, <3>1
  <2>3. \E j \in 1 .. m + 1 : handled'[j].fd = c /\ Last(handled'[j]) = b + nl
    BY <1>6, <1>8, <1>10, <1>14
  <2>4. client_fd' = c
    BY <1>2 DEF c
  <2>5. Base(client_fd)' = b + nl
    BY <1>2, <1>9 DEF c
  <2>. QED BY <1>8, <2>2, <2>3, <2>4, <2>5 DEF StartsAtLine, Last
<1>20. WholeLine(h)
  <2>1. \A i \in 1 .. nl : line[i] = ByteAt(c, First(h) + i - 1)
    <3>1. \A i \in 1 .. nl : b + i = (b + 1) + i - 1
      BY <1>4
    <3>2. \A i \in 1 .. nl : i \in 1 .. Len(buf)
      BY <1>3
    <3>3. \A i \in 1 .. nl : line[i] = ByteAt(c, b + i)
      BY <1>4, <1>5, <3>2
    <3>. QED BY <1>10, <3>1, <3>3
  <2>2. \A i \in 1 .. nl : IsNewline(line[i]) <=> i = nl
    <3>1. \A i \in 1 .. nl : i \in 1 .. nl - 1 \/ i = nl
      BY <1>3
    <3>2. nl \in 1 .. nl /\ \A i \in 1 .. nl - 1 : i # nl
      BY <1>3
    <3>. QED BY <1>1, <1>5, <3>1, <3>2
  <2>3. First(h) > 1 => First(h) - 1 \in newline[c]
    <3>1. b > 0 => b \in newline[c]
      BY <1>11, <1>13
    <3>. QED BY <1>4, <1>10, <3>1
  <2>4. line # << >>
    BY <1>3, <1>5
  <2>. QED BY <1>5, <1>6, <2>1, <2>2, <2>3, <2>4 DEF WholeLine
<1>21. WholeLines'
  <2>1. \A j \in 1 .. m + 1 : WholeLine(handled'[j])
    BY <1>8, <1>11, <1>14, <1>20
  <2>. QED BY <1>2, <1>8, <2>1 DEF WholeLines, WholeLine, IsNewline, First
<1>22. InOrder'
  <2>. DEFINE Before(j) == {i \in 1 .. j - 1 : handled'[i].fd = handled'[j].fd}
  <2>1. ASSUME NEW j \in 1 .. m
        PROVE  /\ \A i \in Before(j) : Last(handled'[i]) < First(handled'[j])
               /\ First(handled'[j]) > 1 =>
                    \E i \in Before(j) : Last(handled'[i]) + 1 = First(handled'[j])
    <3>1. \A i \in 1 .. j - 1 : i \in 1 .. m
      BY <1>3
    <3>2. handled'[j] = handled[j] /\ \A i \in 1 .. j - 1 : handled'[i] = handled[i]
      BY <1>8, <3>1
    <3>3. /\ \A i \in 1 .. j - 1 :
               handled[i].fd = handled[j].fd => Last(handled[i]) < First(handled[j])
          /\ First(handled[j]) > 1 =>
               \E i \in 1 .. j - 1 :
                 handled[i].fd = handled[j].fd /\ Last(handled[i]) + 1 = First(handled[j])
      BY DEF SocketIInv, InOrder, m
    <3>. QED BY <3>2, <3>3
  <2>2. /\ \A i \in Before(m + 1) : Last(handled'[i]) < First(handled'[m + 1])
        /\ First(handled'[m + 1]) > 1 =>
             \E i \in Before(m + 1) : Last(handled'[i]) + 1 = First(handled'[m + 1])
    <3>1. (m + 1) - 1 = m
      BY <1>3
    <3>2. \A i \in 1 .. m : handled[i].fd = c => Last(handled[i]) < b + 1
      BY <1>4, <1>11, <1>12
    <3>3. b + 1 > 1 => \E i \in 1 .. m : handled[i].fd = c /\ Last(handled[i]) + 1 = b + 1
      BY <1>4, <1>13
    <3>. QED BY <1>6, <1>8, <1>10, <3>1, <3>2, <3>3
  <2>3. \A j \in 1 .. m + 1 :
          /\ \A i \in Before(j) : Last(handled'[i]) < First(handled'[j])
          /\ First(handled'[j]) > 1 =>
               \E i \in Before(j) : Last(handled'[i]) + 1 = First(handled'[j])
    <3>. HIDE DEF Before
    <3>. QED BY <1>14, <2>1, <2>2
  <2>. QED BY <1>8, <2>3 DEF InOrder, First, Last
<1>. QED BY <1>15, <1>16, <1>17, <1>18, <1>19, <1>21, <1>22 DEF SocketIInv

(* One step of any kind.                                                   *)
LEMMA NextHolds == SocketIInv /\ [SocketNext]_socketVars => SocketIInv'
<1>. SUFFICES ASSUME SocketIInv, [SocketNext]_socketVars PROVE SocketIInv'
  OBVIOUS
<1>1. CASE UNCHANGED socketVars
  <2>1. UNCHANGED <<newline, got, arrived, backlog, thread>>
    BY <1>1 DEF socketVars, thread
  <2>2. NewIsUnread' /\ BufferIsStretch' /\ StartsAtLine' /\ WholeLines' /\ InOrder'
    BY <2>1, StreamsKept
  <2>. QED BY <1>1, <2>2 DEF SocketIInv, SocketTypeOK, Fill, Bounded, ThreadKnows, socketVars
<1>2. CASE SocketNext
  BY <1>2, QuietStep, ConnectStep, AcceptStep, DropStep, ReadStep, HandleLineStep
     DEF SocketNext, Realtime
<1>. QED BY <1>1, <1>2

(* The inductive invariant.                                                *)
LEMMA Invariance == SocketSpec => []SocketIInv
  BY SocketInitHolds, NextHolds, PTL DEF SocketSpec

(* Every variable keeps its type, and the buffer its bounds, in every run
   of the socket's realtime thread.                                        *)
THEOREM SocketTypeCorrect == SocketSpec => []SocketTypeOK
<1>1. SocketIInv => SocketTypeOK
  BY DEF SocketIInv
<1>. QED BY <1>1, Invariance, PTL

(* Whatever clients connect, write and close, and wherever read() cuts,
   handle_line() is given whole lines of one client.                       *)
THEOREM LinesAreWhole == SocketSpec => []WholeLines
<1>1. SocketIInv => WholeLines
  BY DEF SocketIInv
<1>. QED BY <1>1, Invariance, PTL

(* The lines of a client reach handle_line() in order, each once, with no
   gap.                                                                    *)
THEOREM LinesInOrder == SocketSpec => []InOrder
<1>1. SocketIInv => InOrder
  BY DEF SocketIInv
<1>. QED BY <1>1, Invariance, PTL

(* read() always has room, so that 0 from it is the end of the stream.     *)
THEOREM ReadHasRoom == SocketSpec => []RoomToRead
<1>1. SocketIInv => RoomToRead
  BY DEF SocketIInv, ThreadKnows, RoomToRead, Fill
<1>. QED BY <1>1, Invariance, PTL
===============================================================================
