------------------------------ MODULE TrackCache ------------------------------
(***************************************************************************)
(* The lifetime of `struct track' (track.c): the list of tracks in memory, *)
(* the reference count, the import process behind a track and the rig      *)
(* thread that reaps it (rig.c), with the loaders that put tracks on decks *)
(* (deck.c, player.c).                                                     *)
(*                                                                         *)
(* A loader is a thread that runs deck_load(), deck_unload() or            *)
(* deck_clone().  The SDL interface thread does so under rig_lock(); the   *)
(* worker of a control socket does so without it.  Lockers names the       *)
(* loaders of the first kind, so one module describes both builds.         *)
(*                                                                         *)
(* A step is the code between two accesses to shared memory that another   *)
(* thread could tell apart: each atomic operation on the count, the walk   *)
(* of the list, each list insertion or removal, the swap of pl->track      *)
(* under the player's spin lock.                                           *)
(***************************************************************************)
EXTENDS Integers, FiniteSets

CONSTANTS
  Addr,      (* heap addresses malloc() can return for a struct track      *)
  Empty,     (* the static `empty' track                                   *)
  Paths,     (* the files that can be asked for                            *)
  Decks,     (* the decks; each one's player holds one track               *)
  Loaders,   (* the threads that load decks                                *)
  Lockers,   (* the loaders that hold the rig lock while they do           *)
  Rig,       (* the rig thread                                             *)
  NoOne      (* the owner of the rig lock when it is free                  *)

Threads == Loaders \cup {Rig}

(* `on the rig list' as the holder of a reference; see Holders             *)
RigList == "rig list"

ASSUME TrackCacheAssumption ==
  /\ Empty \notin Addr
  /\ Lockers \subseteq Loaders
  /\ Rig \notin Loaders
  /\ NoOne \notin Threads
  /\ Decks \cap Threads = {}
  /\ RigList \notin Decks \cup Threads
  /\ IsFiniteSet(Decks) /\ IsFiniteSet(Loaders)
  /\ Paths # {} /\ Decks # {}

VARIABLES
  mem,         (* Addr -> "free" or "live", the allocator's view           *)
  path,        (* t->path                                                  *)
  refcount,    (* t->refcount                                              *)
  importing,   (* t->pid # 0                                               *)
  terminated,  (* t->terminated                                            *)
  child,       (* the import process: "none", "running" or "exited"        *)
  tracks,      (* the list of tracks in memory (track.c)                   *)
  rig,         (* the list of tracks being imported (rig.c)                *)
  deck,        (* Decks -> the track its player holds, pl->track           *)
  lock,        (* the thread that holds the rig lock, or NoOne             *)
  pc,          (* where each thread is                                     *)
  ptr,         (* the thread's local track pointer                         *)
  want,        (* the path a loader was asked for                          *)
  dst          (* the deck a loader works on                               *)

heapVars == <<mem, path, refcount, importing, terminated, child, tracks, rig>>
threadVars == <<lock, pc, ptr, want, dst>>
vars == <<mem, path, refcount, importing, terminated, child, tracks, rig,
          deck, lock, pc, ptr, want, dst>>

Objects == Addr \cup {Empty}
Live == {a \in Addr : mem[a] = "live"} \cup {Empty}

PCs == {"idle", "scan", "create", "post", "acquire", "set",
        "poll", "handling", "waitpid",
        "release", "check", "free"}

(***************************************************************************)
(* The initial state: every deck holds the empty track, whose count is     *)
(* statically 1 and has one reference more for each deck (deck_init).      *)
(***************************************************************************)
Init ==
  /\ mem = [a \in Addr |-> "free"]
  /\ path \in {[a \in Addr |-> p] : p \in Paths}
  /\ refcount = [a \in Objects |-> IF a = Empty THEN 1 + Cardinality(Decks)
                                                ELSE 0]
  /\ importing = [a \in Objects |-> FALSE]
  /\ terminated = [a \in Objects |-> FALSE]
  /\ child = [a \in Addr |-> "none"]
  /\ tracks = {}
  /\ rig = {}
  /\ deck = [d \in Decks |-> Empty]
  /\ lock = NoOne
  /\ pc = [th \in Threads |-> IF th = Rig THEN "poll" ELSE "idle"]
  /\ ptr = [th \in Threads |-> Empty]
  /\ want \in {[l \in Loaders |-> p] : p \in Paths}
  /\ dst \in {[l \in Loaders |-> d] : d \in Decks}

(***************************************************************************)
(* Control flow.                                                           *)
(***************************************************************************)
Goto(th, from, to) ==
  /\ pc[th] = from
  /\ pc' = [pc EXCEPT ![th] = to]

(* A loader starts an operation, taking the rig lock if it is one of those *)
(* that hold it (interface_main).                                          *)
Enter(l, to) ==
  /\ Goto(l, "idle", to)
  /\ l \in Lockers => lock = NoOne
  /\ lock' = IF l \in Lockers THEN l ELSE lock

(* Where a thread goes when track_release() returns: the rig back to its   *)
(* list, a loader out of the operation and out of the lock.                *)
Rest(th) == IF th = Rig THEN "handling" ELSE "idle"
LockAfter(th) == IF th \in Lockers THEN NoOne ELSE lock

(***************************************************************************)
(* deck_load, deck_unload and deck_clone, and what they call.              *)
(***************************************************************************)
Load(l, d, p) ==
  /\ Enter(l, "scan")
  /\ want' = [want EXCEPT ![l] = p]
  /\ dst' = [dst EXCEPT ![l] = d]
  /\ UNCHANGED <<heapVars, deck, ptr>>

Unload(l, d) ==
  /\ Enter(l, "set")
  /\ refcount' = [refcount EXCEPT ![Empty] = @ + 1]
  /\ ptr' = [ptr EXCEPT ![l] = Empty]
  /\ dst' = [dst EXCEPT ![l] = d]
  /\ UNCHANGED <<mem, path, importing, terminated, child, tracks, rig, deck, want>>

(* Mutant: the cloned track is used without a reference.                   *)
CloneForgets(l, d, from) ==
  /\ Enter(l, "set")
  /\ ptr' = [ptr EXCEPT ![l] = deck[from]]
  /\ dst' = [dst EXCEPT ![l] = d]
  /\ UNCHANGED <<heapVars, deck, want>>

Clone(l, d, from) ==
  /\ Enter(l, "acquire")
  /\ ptr' = [ptr EXCEPT ![l] = deck[from]]
  /\ dst' = [dst EXCEPT ![l] = d]
  /\ UNCHANGED <<heapVars, deck, want>>

Matches(l) == {t \in tracks : path[t] = want[l]}

(* Mutant: paths compared by pointer, which never match (the bug that the  *)
(* comment in track_get_again() records).                                  *)
ScanByPointer(l) ==
  /\ Goto(l, "scan", "create")
  /\ UNCHANGED <<heapVars, deck, lock, ptr, want, dst>>

Scan(l) ==
  /\ \/ /\ Matches(l) = {}
        /\ Goto(l, "scan", "create")
        /\ UNCHANGED ptr
     \/ /\ Goto(l, "scan", "acquire")
        /\ \E t \in Matches(l) : ptr' = [ptr EXCEPT ![l] = t]
  /\ UNCHANGED <<heapVars, deck, lock, want, dst>>

(* malloc() and track_init() up to list_add(): the process is forked, the  *)
(* track is in the list with a count of zero.                              *)
Create(l) ==
  /\ Goto(l, "create", "post")
  /\ \E a \in Addr :
       /\ mem[a] = "free"
       /\ mem' = [mem EXCEPT ![a] = "live"]
       /\ path' = [path EXCEPT ![a] = want[l]]
       /\ refcount' = [refcount EXCEPT ![a] = 0]
       /\ importing' = [importing EXCEPT ![a] = TRUE]
       /\ terminated' = [terminated EXCEPT ![a] = FALSE]
       /\ child' = [child EXCEPT ![a] = "running"]
       /\ tracks' = tracks \cup {a}
       /\ ptr' = [ptr EXCEPT ![l] = a]
  /\ UNCHANGED <<rig, deck, lock, want, dst>>

(* malloc() or fork_pipe_nb() fails: deck_load() returns, nothing changed. *)
CreateFails(l) ==
  /\ Goto(l, "create", "idle")
  /\ lock' = LockAfter(l)
  /\ UNCHANGED <<heapVars, deck, ptr, want, dst>>

(* Mutant: the rig list takes no reference of its own.                     *)
PostForgets(l) ==
  /\ Goto(l, "post", "acquire")
  /\ rig' = rig \cup {ptr[l]}
  /\ UNCHANGED <<mem, path, refcount, importing, terminated, child, tracks,
                 deck, lock, ptr, want, dst>>

(* rig_post_track(): the rig list takes a reference of its own.            *)
Post(l) ==
  /\ Goto(l, "post", "acquire")
  /\ refcount' = [refcount EXCEPT ![ptr[l]] = @ + 1]
  /\ rig' = rig \cup {ptr[l]}
  /\ UNCHANGED <<mem, path, importing, terminated, child, tracks, deck,
                 lock, ptr, want, dst>>

(* track_acquire() on a track found in the list, on one just posted, or on *)
(* the track of the deck being cloned.                                     *)
Acquire(l) ==
  /\ Goto(l, "acquire", "set")
  /\ refcount' = [refcount EXCEPT ![ptr[l]] = @ + 1]
  /\ UNCHANGED <<mem, path, importing, terminated, child, tracks, rig, deck,
                 lock, ptr, want, dst>>

(* The swap under the player's spin lock; the old track is now the         *)
(* thread's to release.                                                    *)
SetTrack(l) ==
  /\ Goto(l, "set", "release")
  /\ deck' = [deck EXCEPT ![dst[l]] = ptr[l]]
  /\ ptr' = [ptr EXCEPT ![l] = deck[dst[l]]]
  /\ UNCHANGED <<heapVars, lock, want, dst>>

(* Mutant: the decrement is lost.                                          *)
ReleaseLost(th) ==
  /\ Goto(th, "release", Rest(th))
  /\ lock' = LockAfter(th)
  /\ UNCHANGED <<heapVars, deck, ptr, want, dst>>

(***************************************************************************)
(* track_release(), by a loader or by the rig.                             *)
(***************************************************************************)
(* The atomic decrement; the next step depends on its result only.         *)
Release(th) ==
  LET remaining == refcount[ptr[th]] - 1
  IN  /\ Goto(th, "release", IF remaining = 1 THEN "check"
                             ELSE IF remaining = 0 THEN "free" ELSE Rest(th))
      /\ refcount' = [refcount EXCEPT ![ptr[th]] = remaining]
      /\ lock' = IF remaining \in {0, 1} THEN lock ELSE LockAfter(th)
      /\ UNCHANGED <<mem, path, importing, terminated, child, tracks, rig,
                     deck, ptr, want, dst>>

(* One reference is left: if the track is importing the rig must hold it,  *)
(* so the import is abandoned (terminate).                                 *)
Check(th) ==
  /\ Goto(th, "check", Rest(th))
  /\ terminated' = [terminated EXCEPT ![ptr[th]] = @ \/ importing[ptr[th]]]
  /\ lock' = LockAfter(th)
  /\ UNCHANGED <<mem, path, refcount, importing, child, tracks, rig,
                 deck, ptr, want, dst>>

(* track_clear() and free().                                               *)
Free(th) ==
  /\ Goto(th, "free", Rest(th))
  /\ mem' = [mem EXCEPT ![ptr[th]] = "free"]
  /\ tracks' = tracks \ {ptr[th]}
  /\ lock' = LockAfter(th)
  /\ UNCHANGED <<path, refcount, importing, terminated, child, rig,
                 deck, ptr, want, dst>>

(***************************************************************************)
(* The rig thread and the import processes.                                *)
(***************************************************************************)
RigLock ==
  /\ Goto(Rig, "poll", "handling")
  /\ lock = NoOne
  /\ lock' = Rig
  /\ UNCHANGED <<heapVars, deck, ptr, want, dst>>

RigUnlock ==
  /\ Goto(Rig, "handling", "poll")
  /\ lock' = NoOne
  /\ UNCHANGED <<heapVars, deck, ptr, want, dst>>

(* track_handle() finds no more to read: end of file, or an error, or no   *)
(* room for more audio while the process still runs.  It closes the pipe   *)
(* and waits for the process, holding the lock.                            *)
StopImport(t) ==
  /\ Goto(Rig, "handling", "waitpid")
  /\ t \in rig
  /\ ptr' = [ptr EXCEPT ![Rig] = t]
  /\ UNCHANGED <<heapVars, deck, lock, want, dst>>

(* Mutant: t->pid is not reset once the process is reaped.                 *)
ReapKeepsPid ==
  /\ Goto(Rig, "waitpid", "release")
  /\ child[ptr[Rig]] = "exited"
  /\ child' = [child EXCEPT ![ptr[Rig]] = "none"]
  /\ rig' = rig \ {ptr[Rig]}
  /\ UNCHANGED <<mem, path, refcount, importing, terminated, tracks, deck,
                 lock, ptr, want, dst>>

(* waitpid() returns; the track leaves the rig list, whose reference is    *)
(* now the rig's to release.                                               *)
Reap ==
  /\ Goto(Rig, "waitpid", "release")
  /\ child[ptr[Rig]] = "exited"
  /\ child' = [child EXCEPT ![ptr[Rig]] = "none"]
  /\ importing' = [importing EXCEPT ![ptr[Rig]] = FALSE]
  /\ rig' = rig \ {ptr[Rig]}
  /\ UNCHANGED <<mem, path, refcount, terminated, tracks, deck,
                 lock, ptr, want, dst>>

(* The import process ends: it has written the whole file, or it failed,   *)
(* or SIGTERM or SIGPIPE killed it.                                        *)
ChildExits(t) ==
  /\ child[t] = "running"
  /\ child' = [child EXCEPT ![t] = "exited"]
  /\ UNCHANGED <<mem, path, refcount, importing, terminated, tracks, rig,
                 deck, threadVars>>

LoaderNext(l) ==
  \/ \E d \in Decks, p \in Paths : Load(l, d, p)
  \/ \E d \in Decks : Unload(l, d)
  \/ \E d, from \in Decks : Clone(l, d, from)
  \/ Scan(l) \/ Create(l) \/ CreateFails(l) \/ Post(l) \/ Acquire(l)
  \/ SetTrack(l)
  \/ Release(l) \/ Check(l) \/ Free(l)

RigNext ==
  \/ RigLock \/ RigUnlock
  \/ \E t \in Addr : StopImport(t)
  \/ Reap
  \/ Release(Rig) \/ Check(Rig) \/ Free(Rig)

Next ==
  \/ \E l \in Loaders : LoaderNext(l)
  \/ RigNext
  \/ \E t \in Addr : ChildExits(t)

Spec == Init /\ [][Next]_vars

(***************************************************************************)
(* Fairness.  Every thread that has begun an operation goes on with it.    *)
(* The rig gets the lock if it is free again and again (strong: loaders    *)
(* may take it in between), and once it has it, it handles a track whose   *)
(* process has ended.  An import process ends, by itself or by a signal.   *)
(* Nobody has to load a deck.                                              *)
(***************************************************************************)
Steps(th) == Release(th) \/ Check(th) \/ Free(th)
LoaderSteps(l) ==
  Scan(l) \/ Create(l) \/ CreateFails(l) \/ Post(l) \/ Acquire(l)
    \/ SetTrack(l) \/ Steps(l)
Fairness ==
  /\ \A l \in Loaders : WF_vars(LoaderSteps(l))
  /\ SF_vars(RigLock)
  /\ WF_vars(RigUnlock)
  /\ \A t \in Addr : SF_vars(child[t] = "exited" /\ StopImport(t))
  /\ WF_vars(Reap \/ Steps(Rig))
  /\ \A t \in Addr : WF_vars(ChildExits(t))

FairSpec == Spec /\ Fairness
(***************************************************************************)
(* Properties.                                                             *)
(***************************************************************************)
TypeOK ==
  /\ mem \in [Addr -> {"free", "live"}]
  /\ path \in [Addr -> Paths]
  /\ refcount \in [Objects -> Nat]
  /\ importing \in [Objects -> BOOLEAN]
  /\ terminated \in [Objects -> BOOLEAN]
  /\ child \in [Addr -> {"none", "running", "exited"}]
  /\ tracks \subseteq Addr
  /\ rig \subseteq Addr
  /\ deck \in [Decks -> Objects]
  /\ lock \in Threads \cup {NoOne}
  /\ pc \in [Threads -> PCs]
  /\ ptr \in [Threads -> Objects]
  /\ want \in [Loaders -> Paths]
  /\ dst \in [Loaders -> Decks]

(* Who holds a reference to a track: the decks whose player points to it,  *)
(* the rig's list, and the threads between taking a reference and giving   *)
(* it to a deck, or between taking it from a deck and releasing it.        *)
Holding(th) == pc[th] \in {"set", "release"}
Holders(t) ==
  {d \in Decks : deck[d] = t}
    \cup {th \in Threads : Holding(th) /\ ptr[th] = t}
    \cup {r \in {RigList} : t \in rig}

(* The count is exactly the number of references held, whatever thread is  *)
(* in the middle of track_acquire() or track_release(); the empty track    *)
(* has its static one besides.                                             *)
RefcountExact ==
  \A t \in Live :
    refcount[t] = Cardinality(Holders(t)) + (IF t = Empty THEN 1 ELSE 0)

(* Nothing points to freed memory: not a player, not the two lists, not a  *)
(* thread that is about to use its local pointer.                          *)
UsingPtr(th) ==
  pc[th] \in {"post", "acquire", "set", "waitpid", "release", "check", "free"}
NoUseAfterFree ==
  /\ \A d \in Decks : deck[d] \in Live
  /\ tracks \subseteq Live
  /\ rig \subseteq Live
  /\ \A th \in Threads : UsingPtr(th) => ptr[th] \in Live

(* The rule the comment on the count states (track.c): a reference is only *)
(* taken on a track that someone already holds a reference to.             *)
AcquireHoldsReference ==
  \A l \in Loaders :
    pc[l] = "acquire" => ptr[l] \in Live /\ refcount[ptr[l]] > 0

(* What track_release() asserts before it frees, and what free() needs: a  *)
(* heap track, not importing, that nothing else can still reach.           *)
FreeOnlyUnheld ==
  \A th \in Threads :
    pc[th] = "free" =>
      /\ ptr[th] \in Addr
      /\ ~importing[ptr[th]]
      /\ Holders(ptr[th]) = {}
      /\ \A o \in Threads \ {th} : UsingPtr(o) => ptr[o] # ptr[th]

(* terminate() is only reached for an import that no deck wants, while the *)
(* rig still has the process to reap, so kill() has a process to signal.   *)
TerminateOnlyAbandoned ==
  \A th \in Threads :
    pc[th] = "check" /\ importing[ptr[th]] =>
      /\ Holders(ptr[th]) = {RigList}
      /\ child[ptr[th]] # "none"

(* A file is imported at most once at a time: track_get_again() finds the  *)
(* track that is in memory instead of starting a second import.            *)
OneTrackPerPath ==
  \A t, u \in tracks : path[t] = path[u] => t = u

(* The rig's list and the import processes agree: the rig never handles a  *)
(* track without a process (the assertions of track_handle, track_pollfd   *)
(* and stop_import), and no process runs that the rig would not reap.      *)
RigReapsEveryImport ==
  /\ \A t \in rig : importing[t] /\ child[t] # "none"
  /\ \A t \in Live \cap Addr :
       importing[t] => \/ t \in rig
                       \/ \E l \in Loaders : pc[l] = "post" /\ ptr[l] = t

(* A track no deck holds does not stay in memory: it is freed, or a loader *)
(* puts it back on a deck.                                                 *)
AbandonedFreed ==
  \A t \in Addr :
    (mem[t] = "live" /\ \A d \in Decks : deck[d] # t)
      ~> (mem[t] = "free" \/ \E d \in Decks : deck[d] = t)

===============================================================================
