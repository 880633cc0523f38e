------------------------------- MODULE RigLoop --------------------------------
(***************************************************************************)
(* The rig thread (rig.c): one loop that polls the pipes of the import and *)
(* scan processes, reads audio into tracks (track.c) and lines into        *)
(* listings (external.c, excrate.c), and reaps the processes. The          *)
(* interface posts new jobs under the rig lock and asks the loop to quit.  *)
(*                                                                         *)
(* Who holds references to a job is in TrackCache; here a job lasts until  *)
(* it is reaped. A pipe holds bytes by number, and an audio byte and a     *)
(* character differ only in whether it ends a line.                        *)
(***************************************************************************)
EXTENDS Integers, FiniteSets, SequencesExt

CONSTANTS
  Tracks, Crates,       \* the imports and the scans that may be posted
  Slots,                \* entries of pt[] after that of the event pipe
  SAMPLE,               \* bytes of a sample
  BlockBytes,           \* TRACK_BLOCK_PCM_BYTES
  TRACK_MAX_BLOCKS,
  BufSize,              \* sizeof rb->buf
  PipeSize,             \* what a pipe holds before its writer blocks
  Output,               \* Output[j]: bytes that the process of j has to write
  Texts                 \* where the lines of a scan may end

Jobs == Tracks \cup Crates
NONE == "none"

ASSUME RigLoopAssumption ==
  /\ Tracks \cap Crates = {} /\ IsFiniteSet(Jobs)
  /\ Slots \in Nat \ {0} /\ BufSize \in Nat \ {0} /\ PipeSize \in Nat \ {0}
  /\ SAMPLE \in Nat \ {0} /\ BlockBytes \in Nat \ {0} /\ TRACK_MAX_BLOCKS \in Nat
  /\ BlockBytes % SAMPLE = 0
  /\ Output \in [Jobs -> Nat]
  /\ \A text \in Texts : text \subseteq Nat \ {0}

VARIABLES
  job,        \* job[j]: struct track or struct excrate, and its process
  text,       \* text[c]: the bytes of a scan that are newlines
  inherited,  \* inherited[j]: the pipes whose read end the process of j holds
  tracks, excrates,  \* the lists of the rig
  pe,         \* pe[j]: the poll entry of j, or 0 for NULL
  fds,        \* fds[i]: whose descriptor entry i of pt[] has
  npt,        \* entries in use, pe - pt, without that of the event pipe
  revents,    \* revents[i]: what poll() found; 0 is the event pipe
  event,      \* what is in the event pipe
  todo,       \* what is left of the lists in this round
  pc          \* where the rig thread is

vars == <<job, text, inherited, tracks, excrates, pe, fds, npt, revents, event, todo, pc>>
pollVars == <<pe, fds, npt, revents>>
listVars == <<tracks, excrates>>
childVars == <<text, inherited>>

New == [child |-> "none", open |-> FALSE, written |-> 0, bytes |-> 0, blocks |-> 0,
        length |-> 0, popped |-> 0, listing |-> <<>>]

RigHoldsLock == pc \notin {"poll", "drain", "lock", "finish"}

At(j) == pc = "read" /\ Head(todo) = j

Avail(j) == job[j].written - job[j].bytes

(* The write end of a pipe is with the process alone. *)
AtEOF(j) == Avail(j) = 0 /\ job[j].child = "exited"

(* Somebody has the read end of the pipe of j, so that writing to it waits
   and does not fail. *)
HasReader(j) ==
  job[j].open \/ \E k \in Jobs : job[k].child = "running" /\ j \in inherited[k]

Init ==
  /\ job = [j \in Jobs |-> New]
  /\ text \in [Crates -> Texts]
  /\ inherited = [j \in Jobs |-> {}]
  /\ tracks = <<>> /\ excrates = <<>>
  /\ pe = [j \in Jobs |-> 0]
  /\ fds = [i \in 1 .. Slots |-> NONE]
  /\ npt = 0
  /\ revents = [i \in 0 .. Slots |-> FALSE]
  /\ event = {}
  /\ todo = <<>>
  /\ pc = "fill"

(***************************************************************************)
(* The processes.                                                          *)
(***************************************************************************)
Write(j) ==
  /\ job[j].child = "running"
  /\ job[j].written < Output[j]
  /\ HasReader(j)
  /\ Avail(j) < PipeSize
  /\ job' = [job EXCEPT ![j].written = @ + 1]
  /\ UNCHANGED <<childVars, listVars, pollVars, event, todo, pc>>

(* It ends when it has written all, or by SIGPIPE. *)
Exit(j) ==
  /\ job[j].child = "running"
  /\ job[j].written = Output[j] \/ ~HasReader(j)
  /\ job' = [job EXCEPT ![j].child = "exited"]
  /\ UNCHANGED <<childVars, listVars, pollVars, event, todo, pc>>

(* It fails, or track_release() or excrate_release() sends it a SIGTERM. *)
Terminate(j) ==
  /\ job[j].child = "running"
  /\ job' = [job EXCEPT ![j].child = "exited"]
  /\ UNCHANGED <<childVars, listVars, pollVars, event, todo, pc>>

(***************************************************************************)
(* The interface, under the rig lock. A process that is forked inherits    *)
(* the read ends that are open: none of them is close-on-exec.             *)
(***************************************************************************)
fork_pipe_nb(j) ==
  /\ job' = [job EXCEPT ![j].child = "running", ![j].open = TRUE]
  /\ inherited' = [inherited EXCEPT ![j] = {k \in Jobs : job[k].open}]

(* Mutant: the loop is not woken. *)
PostQuietly(j) ==
  /\ ~RigHoldsLock
  /\ job[j].child = "none"
  /\ fork_pipe_nb(j)
  /\ IF j \in Tracks
       THEN tracks' = <<j>> \o tracks /\ UNCHANGED excrates
       ELSE excrates' = <<j>> \o excrates /\ UNCHANGED tracks
  /\ UNCHANGED <<text, pollVars, event, todo, pc>>

(* track_init(), rig_post_track(); excrate_init(), rig_post_excrate(). *)
Post(j) ==
  /\ ~RigHoldsLock
  /\ job[j].child = "none"
  /\ fork_pipe_nb(j)
  /\ IF j \in Tracks
       THEN tracks' = <<j>> \o tracks /\ UNCHANGED excrates
       ELSE excrates' = <<j>> \o excrates /\ UNCHANGED tracks
  /\ event' = event \cup {"WAKE"}
  /\ UNCHANGED <<text, pollVars, todo, pc>>

Quit ==
  /\ ~RigHoldsLock
  /\ event' = event \cup {"QUIT"}
  /\ UNCHANGED <<job, childVars, listVars, pollVars, todo, pc>>

(***************************************************************************)
(* The loop.                                                               *)
(***************************************************************************)
Listed == tracks \o excrates

(* What does not fit keeps the entry of an earlier round. *)
Fill ==
  /\ pc = "fill"
  /\ npt' = IF Len(Listed) < Slots THEN Len(Listed) ELSE Slots
  /\ fds' = [i \in 1 .. Slots |-> IF i <= npt' THEN Listed[i] ELSE fds[i]]
  /\ pe' = [j \in Jobs |-> IF \E i \in 1 .. npt' : Listed[i] = j
                             THEN CHOOSE i \in 1 .. npt' : Listed[i] = j
                             ELSE pe[j]]
  /\ pc' = "poll"
  /\ UNCHANGED <<job, childVars, listVars, revents, event, todo>>

Ready(i) ==
  IF i = 0 THEN event # {} ELSE Avail(fds[i]) > 0 \/ AtEOF(fds[i])

Poll ==
  /\ pc = "poll"
  /\ \E i \in 0 .. npt : Ready(i)
  /\ revents' = [i \in 0 .. Slots |-> IF i <= npt THEN Ready(i) ELSE revents[i]]
  /\ pc' = "drain"
  /\ UNCHANGED <<job, childVars, listVars, pe, fds, npt, event, todo>>

Interrupted ==
  /\ pc = "poll"
  /\ pc' = "fill"
  /\ UNCHANGED <<job, childVars, listVars, pollVars, event, todo>>

(* Mutant: the rest of the pipe goes with the first event. *)
DrainFirst ==
  /\ pc = "drain"
  /\ IF revents[0]
       THEN event' = {} /\ pc' = (IF event = {"QUIT"} THEN "finish" ELSE "lock")
       ELSE pc' = "lock" /\ UNCHANGED event
  /\ UNCHANGED <<job, childVars, listVars, pollVars, todo>>

(* Every event is taken from the pipe; QUIT leaves without the lock. *)
Drain ==
  /\ pc = "drain"
  /\ IF revents[0]
       THEN event' = {} /\ pc' = (IF "QUIT" \in event THEN "finish" ELSE "lock")
       ELSE pc' = "lock" /\ UNCHANGED event
  /\ UNCHANGED <<job, childVars, listVars, pollVars, todo>>

Lock ==
  /\ pc = "lock"
  /\ todo' = Listed
  /\ pc' = IF Listed = <<>> THEN "fill" ELSE "handle"
  /\ UNCHANGED <<job, childVars, listVars, pollVars, event>>

Onward ==
  /\ todo' = Tail(todo)
  /\ pc' = IF Len(todo) = 1 THEN "fill" ELSE "handle"

(* track_handle(), excrate_handle(): a job that was posted during poll() has no
   entry, and an entry may be that of another job. *)
Handle ==
  /\ pc = "handle"
  /\ IF pe[Head(todo)] # 0 /\ revents[pe[Head(todo)]]
       THEN pc' = "read" /\ UNCHANGED todo
       ELSE Onward
  /\ UNCHANGED <<job, childVars, listVars, pollVars, event>>

(***************************************************************************)
(* Audio: a round of read_from_pipe() in track.c.                          *)
(***************************************************************************)
Block(t) == job[t].bytes \div BlockBytes

Room(t) == BlockBytes - (job[t].bytes % BlockBytes)

Smaller(x, y) == IF x < y THEN x ELSE y

(* No room at the end of the last block, or no memory for another. *)
more_space_fails(t) ==
  /\ At(t)
  /\ Block(t) = job[t].blocks
  /\ pc' = "stop"
  /\ UNCHANGED <<job, childVars, listVars, pollVars, event, todo>>

ReadAudio(t) ==
  /\ At(t)
  /\ Block(t) = job[t].blocks => job[t].blocks < TRACK_MAX_BLOCKS
  /\ job' = [job EXCEPT ![t].blocks = IF Block(t) = @ THEN @ + 1 ELSE @,
                        ![t].bytes = @ + Smaller(Avail(t), Room(t))]
  /\ IF Avail(t) > 0 THEN pc' = "commit" /\ UNCHANGED todo
     ELSE IF AtEOF(t) THEN pc' = "stop" /\ UNCHANGED todo
     ELSE Onward
  /\ UNCHANGED <<childVars, listVars, pollVars, event>>

(* Mutant: half a sample is announced as one. *)
CommitRoundsUp(t) ==
  /\ pc = "commit" /\ Head(todo) = t
  /\ job' = [job EXCEPT ![t].length = (job[t].bytes + SAMPLE - 1) \div SAMPLE]
  /\ pc' = "read"
  /\ UNCHANGED <<childVars, listVars, pollVars, event, todo>>

(* Whole samples are metered, then announced to the other threads. *)
Commit(t) ==
  /\ pc = "commit" /\ Head(todo) = t
  /\ job' = [job EXCEPT ![t].length = job[t].bytes \div SAMPLE]
  /\ pc' = "read"
  /\ UNCHANGED <<childVars, listVars, pollVars, event, todo>>

(***************************************************************************)
(* Lines: a round of read_from_pipe() in excrate.c, with get_line().       *)
(***************************************************************************)
(* The first line in the bytes from `from' to `to' ends here, or 0. *)
EndOfLine(c, from, to) ==
  LET ends == {n \in text[c] : from < n /\ n <= to}
  IN  IF ends = {} THEN 0 ELSE CHOOSE n \in ends : \A m \in ends : n <= m

top_up(c) == Smaller(Avail(c), BufSize - (job[c].bytes - job[c].popped))

(* Mutant: at the end of the file the buffer is not looked at. *)
get_line_hasty(c) ==
  LET top == job[c].bytes + top_up(c)
      end == EndOfLine(c, job[c].popped, top)
  IN  [result |-> IF Avail(c) = 0 THEN (IF AtEOF(c) THEN "eof" ELSE "again")
                  ELSE IF end # 0 THEN "line"
                  ELSE IF top - job[c].popped = BufSize THEN "full"
                  ELSE "again",
       top |-> top, end |-> end]

(* top_up() comes before pop(): without a byte to read, the lines that are in
   the buffer wait. A line that fills the buffer is an error. *)
get_line(c) ==
  LET top == job[c].bytes + top_up(c)
      end == EndOfLine(c, job[c].popped, top)
  IN  [result |-> IF Avail(c) = 0 /\ ~AtEOF(c) THEN "again"
                  ELSE IF end # 0 THEN "line"
                  ELSE IF top - job[c].popped = BufSize THEN "full"
                  ELSE IF top_up(c) > 0 THEN "again"
                  ELSE "eof",
       top |-> top, end |-> end]

(* The records that are made of the lines are in Listings. *)
ReadLine(c) ==
  /\ At(c)
  /\ LET got == get_line(c)
         read == [job EXCEPT ![c].bytes = got.top]
     IN  \/ got.result = "again" /\ job' = read /\ Onward
         \/ got.result \in {"full", "eof"} /\ job' = read /\ pc' = "stop" /\ UNCHANGED todo
         \/ /\ got.result = "line"
            /\ job' = [read EXCEPT ![c].popped = got.end,
                         ![c].listing = Append(@, <<job[c].popped + 1, got.end - 1>>)]
            /\ UNCHANGED <<todo, pc>>
  /\ UNCHANGED <<childVars, listVars, pollVars, event>>

(***************************************************************************)
(* stop_import(), do_wait().                                               *)
(***************************************************************************)
Close ==
  /\ pc = "stop"
  /\ job' = [job EXCEPT ![Head(todo)].open = FALSE]
  /\ pc' = "wait"
  /\ UNCHANGED <<childVars, listVars, pollVars, event, todo>>

(* list_del() *)
Others(list) == RemoveFirst(list, Head(todo))

(* waitpid(), with the lock held; then the job leaves the list. *)
Reap ==
  /\ pc = "wait"
  /\ job[Head(todo)].child = "exited"
  /\ job' = [job EXCEPT ![Head(todo)].child = "reaped"]
  /\ tracks' = Others(tracks)
  /\ excrates' = Others(excrates)
  /\ Onward
  /\ UNCHANGED <<childVars, pollVars, event>>

Rig ==
  \/ Fill \/ Poll \/ Drain \/ Lock \/ Handle \/ Close \/ Reap
  \/ \E t \in Tracks : ReadAudio(t) \/ more_space_fails(t) \/ Commit(t)
  \/ \E c \in Crates : ReadLine(c)

Next ==
  \/ Rig \/ Interrupted \/ Quit
  \/ \E j \in Jobs : Post(j) \/ Write(j) \/ Exit(j) \/ Terminate(j)

(* The loop runs on, even when signals keep coming; a process goes on while
   its output is taken. Nothing has to be posted, fail or quit. *)
Fairness ==
  /\ WF_vars(Rig) /\ SF_vars(Poll)
  /\ \A j \in Jobs : WF_vars(Write(j) \/ Exit(j))

Spec == Init /\ [][Next]_vars

FairSpec == Spec /\ Fairness

(***************************************************************************)
(* Properties.                                                             *)
(***************************************************************************)
TypeOK ==
  /\ job \in [Jobs -> [child : {"none", "running", "exited", "reaped"},
                       open : BOOLEAN, written : Nat, bytes : Nat, blocks : Nat,
                       length : Nat, popped : Nat, listing : Seq(Nat \X Int)]]
  /\ inherited \in [Jobs -> SUBSET Jobs]
  /\ tracks \in Seq(Tracks) /\ excrates \in Seq(Crates) /\ todo \in Seq(Jobs)
  /\ pe \in [Jobs -> 0 .. Slots]
  /\ npt \in 0 .. Slots
  /\ revents \in [0 .. Slots -> BOOLEAN]
  /\ event \subseteq {"WAKE", "QUIT"}
  /\ pc \in {"fill", "poll", "drain", "lock", "handle", "read", "commit", "stop",
             "wait", "finish"}

(* At any moment the realtime thread and the meters may read any sample below
   the length: it lies in a block that is there and was stored whole (the
   comments at track.c:103 and track.c:190; access_pcm(), commit()). *)
PublishedIsStored ==
  \A t \in Tracks :
    /\ job[t].length * SAMPLE <= job[t].bytes
    /\ job[t].bytes <= job[t].blocks * BlockBytes
    /\ job[t].blocks <= TRACK_MAX_BLOCKS

(* The whole lines of what a scan has written, in order. *)
LineNumbered(c, n) ==
  CHOOSE m \in text[c] : Cardinality({k \in text[c] : k <= m}) = n

Lines(c) ==
  LET whole == Cardinality({k \in text[c] : k <= job[c].written})
      before(n) == IF n = 1 THEN 0 ELSE LineNumbered(c, n - 1)
  IN  [n \in 1 .. whole |-> <<before(n) + 1, LineNumbered(c, n) - 1>>]

(* What the process of a reaped job wrote is in the track to the last whole
   sample, or in the listing to the last whole line, however the writes, the
   reads, the rounds and the entries of poll() fell; only a track that ran out
   of room at the end of a block, and a line as long as the buffer, end a job
   early (read_from_pipe() twice, get_line()). *)
NothingLost ==
  /\ \A t \in Tracks : job[t].child = "reaped" =>
       \/ job[t].length = job[t].written \div SAMPLE
       \/ job[t].length * SAMPLE = job[t].blocks * BlockBytes
  /\ \A c \in Crates : job[c].child = "reaped" =>
       \/ job[c].listing = Lines(c)
       \/ /\ job[c].bytes - job[c].popped = BufSize
          /\ EndOfLine(c, job[c].popped, job[c].bytes) = 0
          /\ job[c].listing = SubSeq(Lines(c), 1, Len(job[c].listing))

Posted(j) == job[j].child # "none"
Quitting == "QUIT" \in event \/ pc = "finish"

(* The rig waits for a process that waits for room in its pipe, which does not
   fail because another process has inherited the read end. *)
Stuck ==
  /\ pc = "wait"
  /\ job[Head(todo)].child = "running"
  /\ HasReader(Head(todo))

(* Every job that is posted, whether poll() waits or a round is under way and
   however many wait for an entry, is read to its end and reaped, unless the
   program quits or the rig is stuck behind an inherited pipe (rig_main()). *)
JobsEnd ==
  \/ <>[]Stuck
  \/ \A j \in Jobs : Posted(j) ~> (job[j].child = "reaped" \/ Quitting)

(* An import or scan that has been stopped is complete: stop_import() returns
   with the track not importing (track.c:460-467). *)
StopsImport ==
  \A j \in Jobs :
    (pc = "wait" /\ Head(todo) = j) ~> (job[j].child = "reaped")

(* A request to quit ends the loop, whatever is being imported, unless the rig
   is stuck behind an inherited pipe (rig_quit(), rig_main()). *)
QuitEnds == <>[]Stuck \/ ("QUIT" \in event ~> pc = "finish")

=============================================================================
