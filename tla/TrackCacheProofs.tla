--------------------------- MODULE TrackCacheProofs ---------------------------
(***************************************************************************)
(* The track cache is safe when every loader holds the rig lock            *)
(* (interface.c).  The hypothesis is LockDiscipline; the run               *)
(* TrackCache_worker shows that the conclusion fails without it.           *)
(***************************************************************************)
EXTENDS TrackCache, FiniteSetTheorems, TLAPS

LockDiscipline == Lockers = Loaders

(***************************************************************************)
(* The inductive invariant.                                                *)
(***************************************************************************)
(* A thread in the middle of an operation owns the rig lock.               *)
Resting(th) == pc[th] \in {"idle", "poll"}
BusyOwnsLock ==
  /\ \A th \in Threads : ~Resting(th) => lock = th
  /\ \A l \in Loaders : pc[l] \notin {"poll", "handling", "waitpid"}
  /\ pc[Rig] \in {"poll", "handling", "waitpid", "release", "check", "free"}

(* The list of tracks is the set of allocated tracks.                      *)
ListIsHeap == tracks = Live \cap Addr

(* t->pid is the process that has not been reaped.                         *)
PidIsChild ==
  /\ ~importing[Empty]
  /\ \A a \in Live \cap Addr : importing[a] => child[a] # "none"
  /\ \A a \in rig : child[a] # "none"

(* A track with no references is being created or being freed.             *)
ZeroIsTransient ==
  \A t \in Live : refcount[t] = 0 =>
    \E th \in Threads : pc[th] \in {"post", "free"} /\ ptr[th] = t

(* What each thread knows at each point of its operation.                  *)
LocalFacts ==
  \A th \in Threads :
    /\ pc[th] = "create" => Matches(th) = {}
    /\ pc[th] = "post" => /\ ptr[th] \in Addr \ rig
                          /\ importing[ptr[th]]
                          /\ child[ptr[th]] # "none"
                          /\ refcount[ptr[th]] = 0
    /\ pc[th] = "acquire" => refcount[ptr[th]] > 0
    /\ pc[th] = "waitpid" => ptr[th] \in rig
    /\ pc[th] = "check" => refcount[ptr[th]] = 1
    /\ pc[th] = "free" => /\ ptr[th] \in Addr
                          /\ refcount[ptr[th]] = 0
                          /\ ~importing[ptr[th]]

IInv ==
  /\ TypeOK
  /\ BusyOwnsLock
  /\ ListIsHeap
  /\ PidIsChild
  /\ RefcountExact
  /\ NoUseAfterFree
  /\ OneTrackPerPath
  /\ RigReapsEveryImport
  /\ ZeroIsTransient
  /\ LocalFacts

-------------------------------------------------------------------------------
(***************************************************************************)
(* Counting.                                                               *)
(***************************************************************************)
LEMMA HoldersFinite ==
  ASSUME NEW t
  PROVE  IsFiniteSet(Holders(t))
<1> DEFINE U == (Decks \cup Loaders) \cup {Rig, RigList}
<1>1. IsFiniteSet({Rig, RigList})
  <2>1. {Rig, RigList} = {Rig} \cup {RigList}
    OBVIOUS
  <2>2. IsFiniteSet({Rig})
    BY FS_Singleton
  <2>3. IsFiniteSet({Rig} \cup {RigList})
    BY <2>2, FS_AddElement
  <2>. QED BY <2>1, <2>3
<1>2. IsFiniteSet(Decks \cup Loaders)
  BY FS_Union, TrackCacheAssumption DEF TrackCacheAssumption
<1>3. IsFiniteSet(U)
  BY <1>1, <1>2, FS_Union
<1>4. Holders(t) \in SUBSET U
  BY DEF Holders, Threads
<1>. HIDE DEF U
<1>. QED BY <1>3, <1>4, FS_Subset

(* The count of a set, when an element is added, taken away or replaced.   *)
LEMMA CountChanges ==
  ASSUME NEW S, IsFiniteSet(S)
  PROVE  /\ Cardinality(S) \in Nat
         /\ Cardinality(S) = 0 => S = {}
         /\ Cardinality({}) = 0
         /\ \A x : x \notin S => Cardinality(S \cup {x}) = Cardinality(S) + 1
         /\ \A x \in S : Cardinality(S \ {x}) = Cardinality(S) - 1
         /\ \A x \in S : \A y : y \notin S =>
              Cardinality((S \ {x}) \cup {y}) = Cardinality(S)
<1>1. Cardinality(S) \in Nat
  BY FS_CardinalityType
<1>2. Cardinality(S) = 0 => S = {}
  BY FS_EmptySet
<1>3. \A x : x \notin S => Cardinality(S \cup {x}) = Cardinality(S) + 1
  BY FS_AddElement
<1>4. \A x \in S : /\ IsFiniteSet(S \ {x})
                   /\ Cardinality(S \ {x}) = Cardinality(S) - 1
  BY FS_RemoveElement
<1>5. ASSUME NEW x \in S, NEW y, y \notin S
      PROVE  Cardinality((S \ {x}) \cup {y}) = Cardinality(S)
  <2> DEFINE T == S \ {x}
  <2>1. IsFiniteSet(T) /\ Cardinality(T) = Cardinality(S) - 1 /\ y \notin T
    BY <1>4, <1>5
  <2> HIDE DEF T
  <2>2. Cardinality(T \cup {y}) = Cardinality(T) + 1
    BY <2>1, FS_AddElement
  <2>3. QED BY <1>1, <2>1, <2>2 DEF T
<1>. QED BY <1>1, <1>2, <1>3, <1>4, <1>5, FS_EmptySet

(* One element makes the count positive; two make it more than one.        *)
LEMMA CountWitness ==
  ASSUME NEW S, IsFiniteSet(S), NEW x \in S
  PROVE  /\ Cardinality(S) >= 1
         /\ \A y \in S : y # x => Cardinality(S) >= 2
         /\ Cardinality(S) = 1 => S = {x}
<1>1. Cardinality(S) \in Nat /\ Cardinality(S) # 0
  BY FS_CardinalityType, FS_EmptySet
<1>2. IsFiniteSet(S \ {x}) /\ Cardinality(S \ {x}) = Cardinality(S) - 1
  BY FS_RemoveElement
<1>3. Cardinality(S \ {x}) \in Nat
  BY <1>2, FS_CardinalityType
<1>4. Cardinality(S \ {x}) = 0 => S \ {x} = {}
  BY <1>2, FS_EmptySet
<1>5. ASSUME NEW y \in S, y # x PROVE Cardinality(S) >= 2
  BY <1>1, <1>2, <1>3, <1>4, <1>5
<1>6. Cardinality(S) = 1 => S = {x}
  BY <1>2, <1>4
<1>. QED BY <1>1, <1>5, <1>6

(* A deck, a thread and the rig's list are different holders.              *)
LEMMA HoldersDistinct ==
  /\ Decks \cap Threads = {}
  /\ RigList \notin Decks /\ RigList \notin Threads
  /\ Rig \in Threads /\ Rig \notin Loaders
  /\ Empty \notin Addr
  /\ NoOne \notin Threads
BY TrackCacheAssumption DEF TrackCacheAssumption, Threads

-------------------------------------------------------------------------------
(***************************************************************************)
(* Facts of a state that satisfies the invariant.                          *)
(***************************************************************************)
(* Only one thread is in the middle of an operation.                       *)
LEMMA OneBusy ==
  ASSUME IInv, NEW th \in Threads, ~Resting(th),
         NEW o \in Threads, ~Resting(o)
  PROVE  o = th
BY DEF IInv, BusyOwnsLock

(* A live track with a count of zero is in the hands of the one busy       *)
(* thread.                                                                 *)
LEMMA HeldIsPositive ==
  ASSUME IInv, NEW t \in Live, Holders(t) # {}
  PROVE  refcount[t] > 0
<1>1. PICK x \in Holders(t) : TRUE
  OBVIOUS
<1>2. Cardinality(Holders(t)) >= 1 /\ Cardinality(Holders(t)) \in Nat
  BY <1>1, HoldersFinite, CountWitness, FS_CardinalityType
<1>. QED BY <1>2 DEF IInv, RefcountExact

(* The invariant holds when no file has been loaded yet.                   *)
LEMMA InitInv == ASSUME Init PROVE IInv
<1> USE DEF Init
<1>1. Live = {Empty}
  BY DEF Live
<1>2. Holders(Empty) = Decks
  BY DEF Holders, Holding
<1>3. Cardinality(Decks) \in Nat
  BY FS_CardinalityType, TrackCacheAssumption DEF TrackCacheAssumption
<1>4. TypeOK
  BY <1>3, TrackCacheAssumption
  DEF TypeOK, Objects, Threads, PCs, TrackCacheAssumption
<1>5. RefcountExact
  BY <1>1, <1>2, <1>3 DEF RefcountExact, Objects
<1>6. BusyOwnsLock
  BY HoldersDistinct DEF BusyOwnsLock, Resting, Threads
<1>7. ListIsHeap /\ PidIsChild /\ OneTrackPerPath /\ RigReapsEveryImport
  BY <1>1, HoldersDistinct
  DEF ListIsHeap, PidIsChild, OneTrackPerPath, RigReapsEveryImport, Objects
<1>8. NoUseAfterFree /\ LocalFacts
  BY <1>1 DEF NoUseAfterFree, LocalFacts, UsingPtr, Threads
<1>9. ZeroIsTransient
  BY <1>1, <1>3 DEF ZeroIsTransient, Objects
<1>. QED BY <1>4, <1>5, <1>6, <1>7, <1>8, <1>9 DEF IInv

-------------------------------------------------------------------------------
(***************************************************************************)
(* Every step preserves the invariant.  First the steps that move no       *)
(* reference: the holders of every track stay what they were.              *)
(***************************************************************************)
SameHolders ==
  /\ UNCHANGED <<mem, refcount, deck, rig>>
  /\ \A th \in Threads : /\ Holding(th)' = Holding(th)
                         /\ Holding(th) => ptr'[th] = ptr[th]

(* A step that moves no reference keeps the counts exact.                  *)
LEMMA SameHoldersExact ==
  ASSUME RefcountExact, SameHolders
  PROVE  RefcountExact' /\ Live' = Live
<1>1. Live' = Live
  BY DEF Live, SameHolders
<1>2. ASSUME NEW t PROVE Holders(t)' = Holders(t)
  BY DEF Holders, SameHolders
<1>. QED BY <1>1, <1>2 DEF RefcountExact, SameHolders

(* deck_load(), up to track_get_again().                                   *)
LEMMA LoadStep ==
  ASSUME LockDiscipline, IInv, NEW l \in Loaders, NEW d \in Decks,
         NEW p \in Paths, Load(l, d, p)
  PROVE  IInv'
<1> USE HoldersDistinct DEF IInv, Load, Enter, Goto, heapVars, LockDiscipline
<1>0. l \in Threads /\ pc \in [Threads -> PCs] /\ l # Rig
  BY DEF Threads, TypeOK
<1>1. SameHolders
  BY <1>0 DEF SameHolders, Holding
<1>2. RefcountExact' /\ Live' = Live
  BY <1>1, SameHoldersExact
<1>3. TypeOK'
  BY <1>0 DEF TypeOK, PCs
<1>4. BusyOwnsLock'
  BY <1>0 DEF BusyOwnsLock, Resting
<1>5. /\ ListIsHeap' /\ PidIsChild' /\ NoUseAfterFree' /\ OneTrackPerPath'
      /\ RigReapsEveryImport' /\ ZeroIsTransient'
  BY <1>0, <1>2 DEF ListIsHeap, PidIsChild, NoUseAfterFree, OneTrackPerPath,
     RigReapsEveryImport, ZeroIsTransient, UsingPtr
<1>6. LocalFacts'
  BY <1>0 DEF LocalFacts, Matches
<1>. QED BY <1>2, <1>3, <1>4, <1>5, <1>6

(* player_clone() reads the other player's track.                          *)
LEMMA CloneStep ==
  ASSUME LockDiscipline, IInv, NEW l \in Loaders, NEW d \in Decks,
         NEW from \in Decks, Clone(l, d, from)
  PROVE  IInv'
<1> USE HoldersDistinct DEF IInv, Clone, Enter, Goto, heapVars, LockDiscipline
<1>0. /\ l \in Threads /\ pc \in [Threads -> PCs] /\ l # Rig
      /\ ptr \in [Threads -> Objects] /\ deck[from] \in Objects
      /\ deck[from] \in Live /\ pc[l] = "idle"
  BY DEF Threads, TypeOK, NoUseAfterFree
<1>1. SameHolders
  BY <1>0 DEF SameHolders, Holding
<1>2. RefcountExact' /\ Live' = Live
  BY <1>1, SameHoldersExact
<1>3. TypeOK'
  BY <1>0 DEF TypeOK, PCs
<1>4. BusyOwnsLock'
  BY <1>0 DEF BusyOwnsLock, Resting
<1>5. /\ ListIsHeap' /\ PidIsChild' /\ NoUseAfterFree' /\ OneTrackPerPath'
      /\ RigReapsEveryImport' /\ ZeroIsTransient'
  BY <1>0, <1>2 DEF ListIsHeap, PidIsChild, NoUseAfterFree, OneTrackPerPath,
     RigReapsEveryImport, ZeroIsTransient, UsingPtr
<1>6. refcount[deck[from]] > 0
  <2>1. from \in Holders(deck[from])
    BY DEF Holders
  <2>. QED BY <1>0, <2>1, HeldIsPositive
<1>7. LocalFacts'
  BY <1>0, <1>6 DEF LocalFacts, Matches
<1>. QED BY <1>2, <1>3, <1>4, <1>5, <1>7

(* track_get_again() walks the list of tracks.                             *)
LEMMA ScanStep ==
  ASSUME LockDiscipline, IInv, NEW l \in Loaders, Scan(l)
  PROVE  IInv'
<1> USE HoldersDistinct DEF IInv, Scan, Goto, heapVars, LockDiscipline
<1>0. /\ l \in Threads /\ pc \in [Threads -> PCs] /\ l # Rig
      /\ ptr \in [Threads -> Objects] /\ pc[l] = "scan"
      /\ tracks \subseteq Objects /\ tracks \subseteq Live
  BY DEF Threads, TypeOK, NoUseAfterFree, Objects
<1>a. /\ pc'[l] \in {"create", "acquire"} /\ pc' \in [Threads -> PCs]
      /\ pc'[l] = "acquire" => ptr'[l] \in Live
      /\ \A th \in Threads : th # l => pc'[th] = pc[th] /\ ptr'[th] = ptr[th]
      /\ UNCHANGED <<heapVars, deck, lock, want, dst>>
  BY <1>0 DEF PCs, Matches, UsingPtr, Live, TypeOK, Objects
<1>1. SameHolders
  BY <1>0 DEF SameHolders, Holding
<1>2. RefcountExact' /\ Live' = Live
  BY <1>1, SameHoldersExact
<1>3. TypeOK'
  BY <1>0 DEF TypeOK, PCs, Matches
<1>4. BusyOwnsLock'
  <2> HIDE DEF Scan
  <2>. QED BY <1>0, <1>a DEF BusyOwnsLock, Resting, Threads
<1>5. /\ ListIsHeap' /\ PidIsChild' /\ NoUseAfterFree' /\ OneTrackPerPath'
      /\ RigReapsEveryImport' /\ ZeroIsTransient'
  <2> HIDE DEF Scan
  <2>1. ListIsHeap' /\ PidIsChild' /\ OneTrackPerPath'
    BY <1>2, <1>a DEF ListIsHeap, PidIsChild, OneTrackPerPath
  <2>2. NoUseAfterFree'
    BY <1>0, <1>2, <1>a DEF NoUseAfterFree, UsingPtr
  <2>3. RigReapsEveryImport'
    BY <1>0, <1>2, <1>a DEF RigReapsEveryImport, Threads
  <2>4. ZeroIsTransient'
    BY <1>0, <1>2, <1>a DEF ZeroIsTransient
  <2>. QED BY <2>1, <2>2, <2>3, <2>4
<1>6. \A t \in tracks : refcount[t] > 0
  <2>1. ASSUME NEW t \in tracks, refcount[t] = 0 PROVE FALSE
    <3>1. PICK th \in Threads : pc[th] \in {"post", "free"} /\ ptr[th] = t
      BY <1>0, <2>1 DEF ZeroIsTransient
    <3>. QED BY <1>0, <3>1, OneBusy DEF Resting
  <2>. QED BY <1>0, <2>1 DEF TypeOK
<1>7. LocalFacts'
  BY <1>0, <1>6 DEF LocalFacts, Matches
<1>. QED BY <1>2, <1>3, <1>4, <1>5, <1>7

(* track_acquire_by_import() when the importer cannot be started.          *)
LEMMA CreateFailsStep ==
  ASSUME LockDiscipline, IInv, NEW l \in Loaders, CreateFails(l)
  PROVE  IInv'
<1> USE HoldersDistinct
    DEF IInv, CreateFails, Goto, LockAfter, heapVars, LockDiscipline
<1>0. l \in Threads /\ pc \in [Threads -> PCs] /\ l # Rig /\ pc[l] = "create"
  BY DEF Threads, TypeOK
<1>1. SameHolders
  BY <1>0 DEF SameHolders, Holding
<1>2. RefcountExact' /\ Live' = Live
  BY <1>1, SameHoldersExact
<1>3. TypeOK'
  BY <1>0 DEF TypeOK, PCs
<1>4. BusyOwnsLock'
  BY <1>0 DEF BusyOwnsLock, Resting
<1>5. /\ ListIsHeap' /\ PidIsChild' /\ NoUseAfterFree' /\ OneTrackPerPath'
      /\ RigReapsEveryImport' /\ ZeroIsTransient'
  BY <1>0, <1>2 DEF ListIsHeap, PidIsChild, NoUseAfterFree, OneTrackPerPath,
     RigReapsEveryImport, ZeroIsTransient, UsingPtr
<1>6. LocalFacts'
  BY <1>0 DEF LocalFacts, Matches
<1>. QED BY <1>2, <1>3, <1>4, <1>5, <1>6

(* The rig takes its lock after poll().                                    *)
LEMMA RigLockStep ==
  ASSUME LockDiscipline, IInv, RigLock
  PROVE  IInv'
<1> USE HoldersDistinct
    DEF IInv, RigLock, Goto, heapVars, LockDiscipline
<1>0. /\ pc \in [Threads -> PCs] /\ \A l \in Loaders : l # Rig /\ l \in Threads
      /\ pc[Rig] = "poll"
  BY DEF Threads, TypeOK
<1>1. SameHolders
  BY <1>0 DEF SameHolders, Holding
<1>2. RefcountExact' /\ Live' = Live
  BY <1>1, SameHoldersExact
<1>3. TypeOK'
  BY <1>0 DEF TypeOK, PCs
<1>r. \A th \in Threads : Resting(th)
  BY DEF BusyOwnsLock
<1>4. BusyOwnsLock'
  <2>1. pc' = [pc EXCEPT ![Rig] = "handling"] /\ lock' = Rig
    OBVIOUS
  <2>. QED BY <1>0, <1>r, <2>1 DEF BusyOwnsLock, Resting
<1>5. /\ ListIsHeap' /\ PidIsChild' /\ NoUseAfterFree' /\ OneTrackPerPath'
      /\ RigReapsEveryImport' /\ ZeroIsTransient'
  BY <1>0, <1>2, <1>r DEF ListIsHeap, PidIsChild, NoUseAfterFree,
     OneTrackPerPath, RigReapsEveryImport, ZeroIsTransient, UsingPtr, Resting
<1>6. LocalFacts'
  BY <1>0 DEF LocalFacts, Matches
<1>. QED BY <1>2, <1>3, <1>4, <1>5, <1>6

(* The rig lets go of its lock before poll().                              *)
LEMMA RigUnlockStep ==
  ASSUME LockDiscipline, IInv, RigUnlock
  PROVE  IInv'
<1> USE HoldersDistinct
    DEF IInv, RigUnlock, Goto, heapVars, LockDiscipline
<1>0. /\ pc \in [Threads -> PCs] /\ \A l \in Loaders : l # Rig /\ l \in Threads
      /\ pc[Rig] = "handling"
  BY DEF Threads, TypeOK
<1>1. SameHolders
  BY <1>0 DEF SameHolders, Holding
<1>2. RefcountExact' /\ Live' = Live
  BY <1>1, SameHoldersExact
<1>3. TypeOK'
  BY <1>0 DEF TypeOK, PCs
<1>4. BusyOwnsLock'
  BY <1>0 DEF BusyOwnsLock, Resting
<1>5. /\ ListIsHeap' /\ PidIsChild' /\ NoUseAfterFree' /\ OneTrackPerPath'
      /\ RigReapsEveryImport' /\ ZeroIsTransient'
  BY <1>0, <1>2 DEF ListIsHeap, PidIsChild, NoUseAfterFree, OneTrackPerPath,
     RigReapsEveryImport, ZeroIsTransient, UsingPtr
<1>6. LocalFacts'
  BY <1>0 DEF LocalFacts, Matches
<1>. QED BY <1>2, <1>3, <1>4, <1>5, <1>6

(* track_handle() finds the end of an import.                              *)
LEMMA StopImportStep ==
  ASSUME LockDiscipline, IInv, NEW t \in Addr, StopImport(t)
  PROVE  IInv'
<1> USE HoldersDistinct DEF IInv, StopImport, Goto, heapVars, LockDiscipline
<1>0. /\ pc \in [Threads -> PCs] /\ \A l \in Loaders : l # Rig /\ l \in Threads
      /\ ptr \in [Threads -> Objects] /\ t \in Objects /\ t \in Live
      /\ pc[Rig] = "handling"
  BY DEF Threads, TypeOK, Objects, NoUseAfterFree
<1>1. SameHolders
  BY <1>0 DEF SameHolders, Holding
<1>2. RefcountExact' /\ Live' = Live
  BY <1>1, SameHoldersExact
<1>3. TypeOK'
  BY <1>0 DEF TypeOK, PCs
<1>4. BusyOwnsLock'
  BY <1>0 DEF BusyOwnsLock, Resting
<1>5. /\ ListIsHeap' /\ PidIsChild' /\ NoUseAfterFree' /\ OneTrackPerPath'
      /\ RigReapsEveryImport' /\ ZeroIsTransient'
  BY <1>0, <1>2 DEF ListIsHeap, PidIsChild, NoUseAfterFree, OneTrackPerPath,
     RigReapsEveryImport, ZeroIsTransient, UsingPtr
<1>6. LocalFacts'
  BY <1>0 DEF LocalFacts, Matches
<1>. QED BY <1>2, <1>3, <1>4, <1>5, <1>6

(* The import process of a track exits.                                    *)
LEMMA ChildExitsStep ==
  ASSUME LockDiscipline, IInv, NEW t \in Addr, ChildExits(t)
  PROVE  IInv'
<1> USE HoldersDistinct DEF IInv, ChildExits, threadVars, LockDiscipline
<1>0. child \in [Addr -> {"none", "running", "exited"}] /\ tracks \subseteq Addr
  BY DEF TypeOK
<1>1. SameHolders
  BY DEF SameHolders, Holding
<1>2. RefcountExact' /\ Live' = Live
  BY <1>1, SameHoldersExact
<1>3. TypeOK'
  BY <1>0 DEF TypeOK
<1>4. BusyOwnsLock' /\ ListIsHeap' /\ NoUseAfterFree' /\ OneTrackPerPath' /\ ZeroIsTransient'
  BY <1>2 DEF BusyOwnsLock, Resting, ListIsHeap, NoUseAfterFree, OneTrackPerPath,
     ZeroIsTransient, UsingPtr
<1>5. PidIsChild' /\ RigReapsEveryImport'
  BY <1>0, <1>2 DEF PidIsChild, RigReapsEveryImport, NoUseAfterFree
<1>6. LocalFacts'
  BY <1>0 DEF LocalFacts, Matches
<1>. QED BY <1>2, <1>3, <1>4, <1>5, <1>6

(* track_release() looks at the count it has left.                         *)
LEMMA CheckStep ==
  ASSUME LockDiscipline, IInv, NEW th \in Threads, Check(th)
  PROVE  IInv'
<1> USE HoldersDistinct
    DEF IInv, Check, Goto, LockAfter, Rest, heapVars, LockDiscipline
<1>0. /\ pc \in [Threads -> PCs] /\ \A l \in Loaders : l # Rig /\ l \in Threads
      /\ ptr \in [Threads -> Objects] /\ pc[th] = "check" /\ lock = th
      /\ th # Rig => th \in Loaders
      /\ importing \in [Objects -> BOOLEAN] /\ terminated \in [Objects -> BOOLEAN]
  BY DEF Threads, TypeOK, BusyOwnsLock, Resting
<1>1. SameHolders
  BY <1>0 DEF SameHolders, Holding
<1>2. RefcountExact' /\ Live' = Live
  BY <1>1, SameHoldersExact
<1>3. TypeOK'
  BY <1>0 DEF TypeOK, PCs
<1>r. \A o \in Threads : o # th => Resting(o)
  BY <1>0 DEF BusyOwnsLock
<1>4. BusyOwnsLock'
  BY <1>0, <1>r DEF BusyOwnsLock, Resting
<1>5. ListIsHeap' /\ PidIsChild' /\ OneTrackPerPath'
  BY <1>2 DEF ListIsHeap, PidIsChild, OneTrackPerPath
<1>6. NoUseAfterFree' /\ RigReapsEveryImport' /\ ZeroIsTransient'
  BY <1>0, <1>2 DEF NoUseAfterFree, RigReapsEveryImport, ZeroIsTransient, UsingPtr
<1>7. LocalFacts'
  BY <1>0, <1>r DEF LocalFacts, Resting
<1>. QED BY <1>2, <1>3, <1>4, <1>5, <1>6, <1>7

-------------------------------------------------------------------------------
(***************************************************************************)
(* Steps that take or give up one reference.                               *)
(***************************************************************************)
LEMMA GainedExact ==
  ASSUME IInv, NEW t \in Live, NEW h,
         \A u \in Live : u = t => h \notin Holders(u),
         \A u \in Live :
           Holders(u)' = IF u = t THEN Holders(u) \cup {h} ELSE Holders(u),
         refcount' = [refcount EXCEPT ![t] = @ + 1], mem' = mem
  PROVE  RefcountExact' /\ Live' = Live
<1>1. Live' = Live /\ Live \subseteq Objects
  BY DEF Live, Objects
<1>2. refcount \in [Objects -> Nat]
  BY DEF IInv, TypeOK
<1>3. ASSUME NEW u \in Live
      PROVE  refcount'[u] = Cardinality(Holders(u)') + (IF u = Empty THEN 1 ELSE 0)
  <2>1. /\ refcount[u] = Cardinality(Holders(u)) + (IF u = Empty THEN 1 ELSE 0)
        /\ Cardinality(Holders(u)) \in Nat
    BY HoldersFinite, CountChanges DEF IInv, RefcountExact
  <2>2. CASE u = t
    <3>1. Cardinality(Holders(u) \cup {h}) = Cardinality(Holders(u)) + 1
      BY <2>2, HoldersFinite, CountChanges
    <3>2. refcount'[u] = refcount[u] + 1
      BY <2>2, <1>1, <1>2
    <3>3. Holders(u)' = Holders(u) \cup {h}
      BY <2>2
    <3>. QED BY <2>1, <3>1, <3>2, <3>3
  <2>3. CASE u # t
    BY <2>1, <2>3, <1>1, <1>2
  <2>. QED BY <2>2, <2>3
<1>. QED BY <1>1, <1>3 DEF RefcountExact

(* A step that drops one reference and decrements that track's count       *)
(* keeps the counts exact.                                                 *)
LEMMA LostExact ==
  ASSUME IInv, NEW t \in Live, NEW h,
         \A u \in Live : u = t => h \in Holders(u),
         \A u \in Live :
           Holders(u)' = IF u = t THEN Holders(u) \ {h} ELSE Holders(u),
         refcount' = [refcount EXCEPT ![t] = @ - 1], mem' = mem
  PROVE  RefcountExact' /\ Live' = Live
<1>1. Live' = Live /\ Live \subseteq Objects
  BY DEF Live, Objects
<1>2. refcount \in [Objects -> Nat]
  BY DEF IInv, TypeOK
<1>3. ASSUME NEW u \in Live
      PROVE  refcount'[u] = Cardinality(Holders(u)') + (IF u = Empty THEN 1 ELSE 0)
  <2>1. /\ refcount[u] = Cardinality(Holders(u)) + (IF u = Empty THEN 1 ELSE 0)
        /\ Cardinality(Holders(u)) \in Nat
    BY HoldersFinite, CountChanges DEF IInv, RefcountExact
  <2>2. CASE u = t
    <3>1. Cardinality(Holders(u) \ {h}) = Cardinality(Holders(u)) - 1
      BY <2>2, HoldersFinite, CountChanges
    <3>2. refcount'[u] = refcount[u] - 1
      BY <2>2, <1>1, <1>2
    <3>3. Holders(u)' = Holders(u) \ {h}
      BY <2>2
    <3>. QED BY <2>1, <3>1, <3>2, <3>3
  <2>3. CASE u # t
    BY <2>1, <2>3, <1>1, <1>2
  <2>. QED BY <2>2, <2>3
<1>. QED BY <1>1, <1>3 DEF RefcountExact

(* deck_unload(), which acquires the empty track.                          *)
LEMMA UnloadStep ==
  ASSUME LockDiscipline, IInv, NEW l \in Loaders, NEW d \in Decks, Unload(l, d)
  PROVE  IInv'
<1> USE HoldersDistinct DEF IInv, Unload, Enter, Goto, LockDiscipline
<1>0. /\ l \in Threads /\ pc \in [Threads -> PCs] /\ l # Rig
      /\ ptr \in [Threads -> Objects] /\ pc[l] = "idle" /\ lock = NoOne
      /\ refcount \in [Objects -> Nat] /\ Empty \in Objects /\ Empty \in Live
  BY DEF Threads, TypeOK, Objects, Live
<1>1. \A u \in Live :
        /\ u = Empty => l \notin Holders(u)
        /\ Holders(u)' = IF u = Empty THEN Holders(u) \cup {l} ELSE Holders(u)
  BY <1>0 DEF Holders, Holding
<1>2. RefcountExact' /\ Live' = Live
  BY <1>0, <1>1, GainedExact
<1>3. TypeOK'
  BY <1>0 DEF TypeOK, PCs
<1>r. \A o \in Threads : Resting(o)
  BY <1>0 DEF BusyOwnsLock
<1>4. BusyOwnsLock'
  BY <1>0, <1>r DEF BusyOwnsLock, Resting
<1>5. ListIsHeap' /\ PidIsChild' /\ OneTrackPerPath'
  BY <1>2 DEF ListIsHeap, PidIsChild, OneTrackPerPath
<1>6. NoUseAfterFree' /\ RigReapsEveryImport'
  BY <1>0, <1>2 DEF NoUseAfterFree, RigReapsEveryImport, UsingPtr
<1>7. ZeroIsTransient'
  BY <1>0, <1>2, <1>r DEF ZeroIsTransient, Resting, Live, Objects
<1>8. LocalFacts'
  BY <1>0, <1>r DEF LocalFacts, Resting
<1>. QED BY <1>2, <1>3, <1>4, <1>5, <1>6, <1>7, <1>8

(* rig_post_track(), where the rig takes its reference.                    *)
LEMMA PostStep ==
  ASSUME LockDiscipline, IInv, NEW l \in Loaders, Post(l)
  PROVE  IInv'
<1> USE HoldersDistinct DEF IInv, Post, Goto, LockDiscipline
<1> DEFINE t == ptr[l]
<1>0. /\ l \in Threads /\ pc \in [Threads -> PCs] /\ l # Rig
      /\ pc[l] = "post" /\ lock = l /\ refcount \in [Objects -> Nat]
      /\ t \in Objects /\ t \in Live
  BY DEF Threads, TypeOK, BusyOwnsLock, Resting, NoUseAfterFree, UsingPtr
<1>f. t \in Addr \ rig /\ importing[t] /\ child[t] # "none" /\ refcount[t] = 0
  BY <1>0 DEF LocalFacts
<1>1. \A u \in Live :
        /\ u = t => RigList \notin Holders(u)
        /\ Holders(u)' = IF u = t THEN Holders(u) \cup {RigList} ELSE Holders(u)
  BY <1>0, <1>f DEF Holders, Holding
<1>2. RefcountExact' /\ Live' = Live
  BY <1>0, <1>1, GainedExact
<1>3. TypeOK'
  BY <1>0, <1>f DEF TypeOK, PCs
<1>r. \A o \in Threads : o # l => Resting(o)
  BY <1>0 DEF BusyOwnsLock
<1>4. BusyOwnsLock'
  BY <1>0, <1>r DEF BusyOwnsLock, Resting
<1>5. ListIsHeap' /\ PidIsChild' /\ OneTrackPerPath'
  BY <1>2, <1>f DEF ListIsHeap, PidIsChild, OneTrackPerPath
<1>6. NoUseAfterFree' /\ RigReapsEveryImport'
  BY <1>0, <1>f, <1>2, <1>r
  DEF NoUseAfterFree, RigReapsEveryImport, UsingPtr, Resting
<1>7. ZeroIsTransient'
  BY <1>0, <1>2, <1>r DEF ZeroIsTransient, Resting, Live, Objects
<1>8. LocalFacts'
  BY <1>0, <1>f, <1>r DEF LocalFacts, Resting
<1>. QED BY <1>2, <1>3, <1>4, <1>5, <1>6, <1>7, <1>8

(* track_acquire() of the track found or cloned.                           *)
LEMMA AcquireStep ==
  ASSUME LockDiscipline, IInv, NEW l \in Loaders, Acquire(l)
  PROVE  IInv'
<1> USE HoldersDistinct DEF IInv, Acquire, Goto, LockDiscipline
<1> DEFINE t == ptr[l]
<1>0. /\ l \in Threads /\ pc \in [Threads -> PCs] /\ l # Rig
      /\ pc[l] = "acquire" /\ lock = l /\ refcount \in [Objects -> Nat]
      /\ t \in Objects /\ t \in Live
  BY DEF Threads, TypeOK, BusyOwnsLock, Resting, NoUseAfterFree, UsingPtr
<1>1. \A u \in Live :
        /\ u = t => l \notin Holders(u)
        /\ Holders(u)' = IF u = t THEN Holders(u) \cup {l} ELSE Holders(u)
  BY <1>0 DEF Holders, Holding
<1>2. RefcountExact' /\ Live' = Live
  BY <1>0, <1>1, GainedExact
<1>3. TypeOK'
  BY <1>0 DEF TypeOK, PCs
<1>r. \A o \in Threads : o # l => Resting(o)
  BY <1>0 DEF BusyOwnsLock
<1>4. BusyOwnsLock'
  BY <1>0, <1>r DEF BusyOwnsLock, Resting
<1>5. ListIsHeap' /\ PidIsChild' /\ OneTrackPerPath'
  BY <1>2 DEF ListIsHeap, PidIsChild, OneTrackPerPath
<1>6. NoUseAfterFree' /\ RigReapsEveryImport'
  BY <1>0, <1>2, <1>r
  DEF NoUseAfterFree, RigReapsEveryImport, UsingPtr, Resting
<1>7. ZeroIsTransient'
  BY <1>0, <1>2, <1>r DEF ZeroIsTransient, Resting, Live, Objects
<1>8. LocalFacts'
  BY <1>0, <1>r DEF LocalFacts, Resting
<1>. QED BY <1>2, <1>3, <1>4, <1>5, <1>6, <1>7, <1>8

-------------------------------------------------------------------------------
(***************************************************************************)
(* Steps that pass a reference from one holder to another.                 *)
(***************************************************************************)
LEMMA MovedExact ==
  ASSUME IInv, UNCHANGED <<mem, refcount>>,
         \A u \in Live :
           \/ Holders(u)' = Holders(u)
           \/ \E h \in Holders(u) : \E k :
                k \notin Holders(u) /\ Holders(u)' = (Holders(u) \ {h}) \cup {k}
  PROVE  RefcountExact' /\ Live' = Live
<1>1. Live' = Live
  BY DEF Live
<1>2. ASSUME NEW u \in Live
      PROVE  refcount'[u] = Cardinality(Holders(u)') + (IF u = Empty THEN 1 ELSE 0)
  <2>1. refcount[u] = Cardinality(Holders(u)) + (IF u = Empty THEN 1 ELSE 0)
    BY DEF IInv, RefcountExact
  <2>2. CASE Holders(u)' = Holders(u)
    BY <2>1, <2>2
  <2>3. ASSUME NEW h \in Holders(u), NEW k, k \notin Holders(u),
               Holders(u)' = (Holders(u) \ {h}) \cup {k}
        PROVE  refcount'[u] = Cardinality(Holders(u)') + (IF u = Empty THEN 1 ELSE 0)
    <3>1. Cardinality((Holders(u) \ {h}) \cup {k}) = Cardinality(Holders(u))
      BY <2>3, HoldersFinite, CountChanges
    <3>. QED BY <2>1, <2>3, <3>1
  <2>. QED BY <2>2, <2>3
<1>. QED BY <1>1, <1>2 DEF RefcountExact

(* player_set_track() swaps the track of a deck.                           *)
LEMMA SetTrackStep ==
  ASSUME LockDiscipline, IInv, NEW l \in Loaders, SetTrack(l)
  PROVE  IInv'
<1> USE HoldersDistinct DEF IInv, SetTrack, Goto, heapVars, LockDiscipline
<1> DEFINE t == ptr[l]
           d == dst[l]
           x == deck[d]
<1>0. /\ l \in Threads /\ pc \in [Threads -> PCs] /\ l # Rig
      /\ pc[l] = "set" /\ lock = l /\ ptr \in [Threads -> Objects]
      /\ t \in Objects /\ t \in Live
      /\ d \in Decks /\ deck \in [Decks -> Objects] /\ x \in Objects /\ x \in Live
  BY DEF Threads, TypeOK, BusyOwnsLock, Resting, NoUseAfterFree, UsingPtr
<1>p. /\ pc' = [pc EXCEPT ![l] = "release"]
      /\ deck' = [deck EXCEPT ![d] = t]
      /\ ptr' = [ptr EXCEPT ![l] = x]
  OBVIOUS
<1>h. \A u : Holders(u)' =
        {e \in Decks : IF e = d THEN u = t ELSE deck[e] = u}
          \cup {th \in Threads : IF th = l THEN u = x
                                           ELSE Holding(th) /\ ptr[th] = u}
          \cup {r \in {RigList} : u \in rig}
  <2> HIDE DEF t, d, x
  <2>. QED BY <1>0, <1>p DEF Holders, Holding
<1>1. ASSUME NEW u \in Live
      PROVE  \/ Holders(u)' = Holders(u)
             \/ \E h \in Holders(u) : \E k :
                  k \notin Holders(u) /\ Holders(u)' = (Holders(u) \ {h}) \cup {k}
  <2> HIDE DEF t, x
  <2>0. t = ptr[l] /\ x = deck[d]
    BY DEF t, x
  <2> HIDE DEF d
  <2>1. CASE (u = t) <=> (u = x)
    <3>1. Holders(u)' = Holders(u)
      BY <1>0, <1>h, <2>0, <2>1 DEF Holders, Holding
    <3>. QED BY <3>1
  <2>2. CASE u = t /\ u # x
    <3>1. /\ l \in Holders(u) /\ d \notin Holders(u)
          /\ Holders(u)' = (Holders(u) \ {l}) \cup {d}
      BY <1>0, <1>h, <2>0, <2>2 DEF Holders, Holding
    <3>. QED BY <3>1
  <2>3. CASE u # t /\ u = x
    <3>1. /\ d \in Holders(u) /\ l \notin Holders(u)
          /\ Holders(u)' = (Holders(u) \ {d}) \cup {l}
      BY <1>0, <1>h, <2>0, <2>3 DEF Holders, Holding
    <3>. QED BY <3>1
  <2>. QED BY <2>1, <2>2, <2>3
<1>2. RefcountExact' /\ Live' = Live
  <2>1. UNCHANGED <<mem, refcount>>
    OBVIOUS
  <2>. QED BY <1>1, <2>1, MovedExact
<1>3. TypeOK'
  BY <1>0 DEF TypeOK, PCs
<1>r. \A o \in Threads : o # l => Resting(o)
  BY <1>0 DEF BusyOwnsLock
<1>4. BusyOwnsLock'
  BY <1>0, <1>r DEF BusyOwnsLock, Resting
<1>5. ListIsHeap' /\ PidIsChild' /\ OneTrackPerPath'
  BY <1>2 DEF ListIsHeap, PidIsChild, OneTrackPerPath
<1>6. NoUseAfterFree' /\ RigReapsEveryImport'
  BY <1>0, <1>2, <1>r
  DEF NoUseAfterFree, RigReapsEveryImport, UsingPtr, Resting
<1>7. ZeroIsTransient'
  BY <1>0, <1>2, <1>r DEF ZeroIsTransient, Resting
<1>8. LocalFacts'
  BY <1>0, <1>r DEF LocalFacts, Resting
<1>. QED BY <1>2, <1>3, <1>4, <1>5, <1>6, <1>7, <1>8

(* stop_import() reaps the process and drops the rig's reference.          *)
LEMMA ReapStep ==
  ASSUME LockDiscipline, IInv, Reap
  PROVE  IInv'
<1> USE HoldersDistinct DEF IInv, Reap, Goto, LockDiscipline
<1> DEFINE t == ptr[Rig]
<1>0. /\ pc \in [Threads -> PCs] /\ \A l \in Loaders : l # Rig /\ l \in Threads
      /\ pc[Rig] = "waitpid" /\ lock = Rig /\ t \in rig /\ t \in Addr
      /\ t \in Objects /\ t \in Live /\ child[t] # "none"
      /\ child \in [Addr -> {"none", "running", "exited"}]
      /\ importing \in [Objects -> BOOLEAN]
  BY DEF Threads, TypeOK, BusyOwnsLock, Resting, NoUseAfterFree, UsingPtr,
         LocalFacts, Objects, PidIsChild
<1>1. ASSUME NEW u \in Live
      PROVE  \/ Holders(u)' = Holders(u)
             \/ \E h \in Holders(u) : \E k :
                  k \notin Holders(u) /\ Holders(u)' = (Holders(u) \ {h}) \cup {k}
  <2>1. CASE u = t
    <3>1. /\ RigList \in Holders(u) /\ Rig \notin Holders(u)
          /\ Holders(u)' = (Holders(u) \ {RigList}) \cup {Rig}
      BY <1>0, <2>1 DEF Holders, Holding
    <3>. QED BY <3>1
  <2>2. CASE u # t
    <3>1. Holders(u)' = Holders(u)
      BY <1>0, <2>2 DEF Holders, Holding
    <3>. QED BY <3>1
  <2>. QED BY <2>1, <2>2
<1>2. RefcountExact' /\ Live' = Live
  <2>1. UNCHANGED <<mem, refcount>>
    OBVIOUS
  <2>. QED BY <1>1, <2>1, MovedExact
<1>3. TypeOK'
  BY <1>0 DEF TypeOK, PCs
<1>r. \A o \in Threads : o # Rig => Resting(o)
  BY <1>0 DEF BusyOwnsLock
<1>4. BusyOwnsLock'
  BY <1>0, <1>r DEF BusyOwnsLock, Resting
<1>5. ListIsHeap' /\ PidIsChild' /\ OneTrackPerPath'
  BY <1>0, <1>2 DEF ListIsHeap, PidIsChild, OneTrackPerPath, Objects
<1>6. NoUseAfterFree' /\ RigReapsEveryImport'
  BY <1>0, <1>2, <1>r
  DEF NoUseAfterFree, RigReapsEveryImport, UsingPtr, Resting, Objects
<1>7. ZeroIsTransient'
  BY <1>0, <1>2, <1>r DEF ZeroIsTransient, Resting
<1>8. LocalFacts'
  BY <1>0, <1>r DEF LocalFacts, Resting
<1>. QED BY <1>2, <1>3, <1>4, <1>5, <1>6, <1>7, <1>8

-------------------------------------------------------------------------------
(***************************************************************************)
(* track_release(): the decrement, and the end of a track.                 *)
(***************************************************************************)
LEMMA ReleaseStep ==
  ASSUME LockDiscipline, IInv, NEW th \in Threads, Release(th)
  PROVE  IInv'
<1> USE HoldersDistinct DEF IInv, Goto, LockAfter, Rest, LockDiscipline
<1> DEFINE t == ptr[th]
           remaining == refcount[t] - 1
           to == IF remaining = 1 THEN "check"
                 ELSE IF remaining = 0 THEN "free" ELSE Rest(th)
<1>0. /\ pc \in [Threads -> PCs] /\ \A l \in Loaders : l # Rig /\ l \in Threads
      /\ th # Rig => th \in Loaders
      /\ pc[th] = "release" /\ lock = th
      /\ t \in Objects /\ t \in Live /\ refcount \in [Objects -> Nat]
  BY DEF Release, Threads, TypeOK, BusyOwnsLock, Resting, NoUseAfterFree, UsingPtr
<1>p. /\ pc' = [pc EXCEPT ![th] = to]
      /\ refcount' = [refcount EXCEPT ![t] = remaining]
      /\ lock' = IF remaining \in {0, 1} THEN lock ELSE LockAfter(th)
      /\ UNCHANGED <<mem, path, importing, terminated, child, tracks, rig,
                     deck, ptr, want, dst>>
  BY DEF Release
<1>r. \A o \in Threads : o # th => Resting(o)
  BY <1>0 DEF BusyOwnsLock
<1>c. /\ th \in Holders(t)
      /\ Cardinality(Holders(t)) \in Nat /\ Cardinality(Holders(t)) >= 1
      /\ refcount[t] = Cardinality(Holders(t)) + (IF t = Empty THEN 1 ELSE 0)
  <2>1. th \in Holders(t)
    BY <1>0 DEF Holders, Holding
  <2>. QED BY <1>0, <2>1, HoldersFinite, CountChanges, CountWitness DEF RefcountExact
<1>n. /\ remaining \in Nat
      /\ remaining = 0 => t \in Addr
      /\ remaining = 0 => ~importing[t]
  <2>1. remaining \in Nat /\ (t = Empty => remaining >= 1)
    BY <1>0, <1>c
  <2>2. remaining = 0 => t \in Addr
    BY <1>0, <2>1 DEF Objects
  <2>3. ASSUME importing[t] PROVE remaining >= 1
    <3>1. CASE t = Empty
      BY <2>1, <3>1
    <3>2. CASE t # Empty
      <4>1. t \in rig
        BY <1>0, <1>r, <2>3, <3>2 DEF RigReapsEveryImport, Objects, Resting
      <4>2. RigList \in Holders(t) /\ RigList # th
        BY <4>1 DEF Holders
      <4>3. Cardinality(Holders(t)) >= 2
        BY <4>2, <1>c, HoldersFinite, CountWitness
      <4>. QED BY <4>3, <1>0, <1>c, <3>2
    <3>. QED BY <3>1, <3>2
  <2>. QED BY <2>1, <2>2, <2>3
<1>q. to \in {"check", "free", "idle", "handling"} /\ to \in PCs
  BY DEF Rest, PCs
<1>1. \A u \in Live :
        /\ u = t => th \in Holders(u)
        /\ Holders(u)' = IF u = t THEN Holders(u) \ {th} ELSE Holders(u)
  <2> HIDE DEF to, remaining
  <2>. QED BY <1>0, <1>p, <1>q DEF Holders, Holding
<1>2. RefcountExact' /\ Live' = Live
  BY <1>0, <1>p, <1>1, LostExact
<1>3. TypeOK'
  <2> HIDE DEF to, remaining
  <2>. QED BY <1>0, <1>p, <1>q, <1>n DEF TypeOK
<1>4. BusyOwnsLock'
  <2>1. CASE remaining \in {0, 1}
    BY <2>1, <1>0, <1>p, <1>r DEF BusyOwnsLock, Resting
  <2>2. CASE remaining \notin {0, 1}
    <3>1. to = Rest(th) /\ lock' = LockAfter(th)
      BY <2>2, <1>p
    <3> HIDE DEF to, remaining
    <3>. QED BY <3>1, <1>0, <1>p, <1>r DEF BusyOwnsLock, Resting
  <2>. QED BY <2>1, <2>2
<1>5. ListIsHeap' /\ PidIsChild' /\ OneTrackPerPath'
  BY <1>p, <1>2 DEF ListIsHeap, PidIsChild, OneTrackPerPath
<1>6. NoUseAfterFree' /\ RigReapsEveryImport'
  <2> HIDE DEF to, remaining
  <2>. QED BY <1>0, <1>p, <1>q, <1>2, <1>r
           DEF NoUseAfterFree, RigReapsEveryImport, UsingPtr, Resting
<1>7. ZeroIsTransient'
  <2> SUFFICES ASSUME NEW u \in Live, refcount'[u] = 0
               PROVE  \E o \in Threads : pc'[o] \in {"post", "free"} /\ ptr'[o] = u
    BY <1>2 DEF ZeroIsTransient
  <2>1. CASE u = t
    <3>1. remaining = 0
      BY <2>1, <1>0, <1>p
    <3>2. pc'[th] = "free"
      BY <3>1, <1>0, <1>p
    <3>. QED BY <2>1, <3>2, <1>p
  <2>2. CASE u # t
    <3>1. refcount[u] = 0
      BY <2>2, <1>0, <1>p
    <3>2. PICK o \in Threads : pc[o] \in {"post", "free"} /\ ptr[o] = u
      BY <3>1 DEF ZeroIsTransient
    <3>. QED BY <3>2, <1>0, <1>r DEF Resting
  <2>. QED BY <2>1, <2>2
<1>8. LocalFacts'
  <2>1. ASSUME NEW o \in Threads, o # th
        PROVE  pc'[o] \in {"idle", "poll"} /\ ptr'[o] = ptr[o]
    <3> HIDE DEF to, remaining
    <3>. QED BY <2>1, <1>0, <1>p, <1>r DEF Resting
  <2>2. /\ pc'[th] = "check" => refcount'[ptr'[th]] = 1
        /\ pc'[th] = "free" => /\ ptr'[th] \in Addr
                               /\ refcount'[ptr'[th]] = 0
                               /\ ~importing'[ptr'[th]]
    BY <1>0, <1>p, <1>n DEF Rest
  <2>3. pc'[th] \in {"check", "free", "idle", "handling"}
    <3> HIDE DEF to, remaining
    <3>. QED BY <1>0, <1>p, <1>q
  <2>. QED BY <2>1, <2>2, <2>3 DEF LocalFacts
<1>. QED BY <1>2, <1>3, <1>4, <1>5, <1>6, <1>7, <1>8

(* The track a thread is about to free is not reachable from anywhere.     *)
LEMMA FreeIsUnheld ==
  ASSUME IInv, NEW th \in Threads, pc[th] = "free"
  PROVE  /\ ptr[th] \in Addr /\ ptr[th] \in Live /\ ~importing[ptr[th]]
         /\ Holders(ptr[th]) = {}
         /\ \A o \in Threads : o # th => Resting(o)
         /\ \A d \in Decks : deck[d] # ptr[th]
         /\ ptr[th] \notin rig
<1>1. ptr[th] \in Addr /\ ptr[th] \in Live /\ refcount[ptr[th]] = 0
        /\ ~importing[ptr[th]]
  BY DEF IInv, LocalFacts, NoUseAfterFree, UsingPtr
<1>2. Holders(ptr[th]) = {}
  <2>1. Cardinality(Holders(ptr[th])) \in Nat
    BY HoldersFinite, CountChanges
  <2>2. Cardinality(Holders(ptr[th])) = 0
    BY <1>1, <2>1, HoldersDistinct DEF IInv, RefcountExact
  <2>. QED BY <2>2, HoldersFinite, CountChanges
<1>3. \A o \in Threads : o # th => Resting(o)
  BY OneBusy DEF Resting
<1>. QED BY <1>1, <1>2, <1>3 DEF Holders

(* track_clear(), once nobody can reach the track.                         *)
LEMMA FreeStep ==
  ASSUME LockDiscipline, IInv, NEW th \in Threads, Free(th)
  PROVE  IInv'
<1> USE HoldersDistinct
    DEF IInv, Free, Goto, LockAfter, Rest, LockDiscipline
<1> DEFINE t == ptr[th]
<1>0. /\ pc \in [Threads -> PCs] /\ \A l \in Loaders : l # Rig /\ l \in Threads
      /\ pc[th] = "free" /\ lock = th /\ th # Rig => th \in Loaders
      /\ mem \in [Addr -> {"free", "live"}] /\ tracks \subseteq Addr
  BY DEF Threads, TypeOK, BusyOwnsLock, Resting
<1>f. /\ t \in Addr /\ t \in Live /\ t \notin rig
      /\ \A o \in Threads : o # th => Resting(o)
      /\ \A d \in Decks : deck[d] # t
  BY <1>0, FreeIsUnheld
<1>1. Live' = Live \ {t}
  BY <1>0, <1>f DEF Live
<1>2. RefcountExact'
  <2>1. \A u : Holders(u)' = Holders(u)
    BY <1>0 DEF Holders, Holding
  <2>. QED BY <1>1, <2>1 DEF RefcountExact
<1>3. TypeOK'
  BY <1>0, <1>f DEF TypeOK, PCs
<1>4. BusyOwnsLock'
  BY <1>0, <1>f DEF BusyOwnsLock, Resting
<1>5. ListIsHeap' /\ PidIsChild' /\ OneTrackPerPath'
  BY <1>0, <1>1 DEF ListIsHeap, PidIsChild, OneTrackPerPath
<1>6. NoUseAfterFree'
  BY <1>0, <1>1, <1>f DEF NoUseAfterFree, UsingPtr, Resting
<1>7. RigReapsEveryImport'
  BY <1>0, <1>1, <1>f DEF RigReapsEveryImport, Resting
<1>8. ZeroIsTransient'
  <2> SUFFICES ASSUME NEW u \in Live, u # t, refcount[u] = 0
               PROVE  \E o \in Threads : pc'[o] \in {"post", "free"} /\ ptr'[o] = u
    BY <1>1 DEF ZeroIsTransient
  <2>1. PICK o \in Threads : pc[o] \in {"post", "free"} /\ ptr[o] = u
    BY DEF ZeroIsTransient
  <2>. QED BY <2>1, <1>0, <1>f DEF Resting
<1>9. LocalFacts'
  BY <1>0, <1>f DEF LocalFacts, Resting
<1>. QED BY <1>2, <1>3, <1>4, <1>5, <1>6, <1>7, <1>8, <1>9

(* track_init() of a new track and its import.                             *)
LEMMA CreateStep ==
  ASSUME LockDiscipline, IInv, NEW l \in Loaders, Create(l)
  PROVE  IInv'
<1> USE HoldersDistinct DEF IInv, Goto, LockDiscipline
<1>0. /\ l \in Threads /\ pc \in [Threads -> PCs] /\ l # Rig
      /\ pc[l] = "create" /\ lock = l /\ ptr \in [Threads -> Objects]
      /\ Matches(l) = {} /\ tracks \subseteq Addr
  BY DEF Create, Threads, TypeOK, BusyOwnsLock, Resting, LocalFacts
<1>r. \A o \in Threads : o # l => Resting(o)
  BY <1>0 DEF BusyOwnsLock
<1>a. PICK a \in Addr :
        /\ mem[a] = "free"
        /\ mem' = [mem EXCEPT ![a] = "live"]
        /\ path' = [path EXCEPT ![a] = want[l]]
        /\ refcount' = [refcount EXCEPT ![a] = 0]
        /\ importing' = [importing EXCEPT ![a] = TRUE]
        /\ terminated' = [terminated EXCEPT ![a] = FALSE]
        /\ child' = [child EXCEPT ![a] = "running"]
        /\ tracks' = tracks \cup {a}
        /\ ptr' = [ptr EXCEPT ![l] = a]
  BY DEF Create
<1>p. /\ pc' = [pc EXCEPT ![l] = "post"]
      /\ UNCHANGED <<rig, deck, lock, want, dst>>
  BY DEF Create
<1>1. /\ Live' = Live \cup {a} /\ a \notin Live /\ a \in Objects /\ a # Empty
      /\ a \notin rig /\ a \notin tracks
  BY <1>a DEF Live, TypeOK, Objects, NoUseAfterFree
<1>2. /\ Holders(a)' = {}
      /\ \A u \in Live : Holders(u)' = Holders(u)
  BY <1>0, <1>1, <1>a, <1>p, <1>r DEF Holders, Holding, NoUseAfterFree, Resting
<1>3. RefcountExact'
  <2>1. Cardinality(Holders(a)') = 0
    BY <1>2, FS_EmptySet
  <2>2. ASSUME NEW u \in Live
        PROVE  refcount'[u] = Cardinality(Holders(u)') + (IF u = Empty THEN 1 ELSE 0)
    <3>1. refcount'[u] = refcount[u]
      BY <1>1, <1>a DEF TypeOK, Live, Objects
    <3>. QED BY <3>1, <1>2 DEF RefcountExact
  <2>3. refcount'[a] = 0
    BY <1>1, <1>a DEF TypeOK
  <2>. QED BY <1>1, <2>1, <2>2, <2>3 DEF RefcountExact
<1>4. TypeOK'
  BY <1>0, <1>1, <1>a, <1>p DEF TypeOK, PCs
<1>5. BusyOwnsLock'
  BY <1>0, <1>p, <1>r DEF BusyOwnsLock, Resting
<1>6. ListIsHeap'
  BY <1>1, <1>a DEF ListIsHeap
<1>7. PidIsChild'
  BY <1>1, <1>a, <1>p DEF PidIsChild, TypeOK
<1>8. OneTrackPerPath'
  BY <1>0, <1>1, <1>a DEF OneTrackPerPath, TypeOK, Matches
<1>9. NoUseAfterFree'
  BY <1>0, <1>1, <1>a, <1>p, <1>r DEF NoUseAfterFree, UsingPtr, Resting, TypeOK
<1>10. RigReapsEveryImport'
  <2>1. \A t \in rig' : importing'[t] /\ child'[t] # "none"
    BY <1>1, <1>a, <1>p DEF RigReapsEveryImport, TypeOK
  <2>2. ASSUME NEW t \in Live \cap Addr, importing[t] PROVE t \in rig
    <3>1. \A o \in Loaders : pc[o] # "post"
      BY <1>0, <1>r DEF Resting, Threads
    <3>. QED BY <2>2, <3>1 DEF RigReapsEveryImport
  <2>3. pc'[l] = "post" /\ ptr'[l] = a
    BY <1>0, <1>a, <1>p
  <2>4. \A t \in Live : importing'[t] = importing[t]
    BY <1>1, <1>a DEF TypeOK, Live, Objects
  <2>. QED BY <1>1, <1>p, <2>1, <2>2, <2>3, <2>4 DEF RigReapsEveryImport
<1>11. ZeroIsTransient'
  <2>1. ASSUME NEW t \in Live PROVE refcount[t] # 0
    <3>1. SUFFICES ASSUME refcount[t] = 0 PROVE FALSE
      OBVIOUS
    <3>2. PICK o \in Threads : pc[o] \in {"post", "free"} /\ ptr[o] = t
      BY <3>1 DEF ZeroIsTransient
    <3>. QED BY <3>2, <1>0, <1>r DEF Resting
  <2>2. \A t \in Live : refcount'[t] = refcount[t]
    BY <1>1, <1>a DEF TypeOK, Live, Objects
  <2>3. pc'[l] = "post" /\ ptr'[l] = a
    BY <1>0, <1>a, <1>p
  <2>. QED BY <1>0, <1>1, <2>1, <2>2, <2>3 DEF ZeroIsTransient
<1>12. LocalFacts'
  <2>1. /\ pc'[l] = "post" /\ ptr'[l] = a /\ importing'[a]
        /\ child'[a] # "none" /\ refcount'[a] = 0
    BY <1>0, <1>1, <1>a, <1>p DEF TypeOK
  <2>2. \A o \in Threads : o # l => pc'[o] \in {"idle", "poll"}
    BY <1>p, <1>r DEF Resting
  <2>. QED BY <1>1, <1>p, <2>1, <2>2 DEF LocalFacts
<1>. QED BY <1>3, <1>4, <1>5, <1>6, <1>7, <1>8, <1>9, <1>10, <1>11, <1>12

-------------------------------------------------------------------------------
(***************************************************************************)
(* The theorems.                                                           *)
(***************************************************************************)
LEMMA StutterStep ==
  ASSUME IInv, UNCHANGED vars
  PROVE  IInv'
<1> USE DEF vars, IInv
<1>1. TypeOK' /\ BusyOwnsLock' /\ ListIsHeap' /\ PidIsChild'
  BY DEF TypeOK, BusyOwnsLock, Resting, ListIsHeap, PidIsChild, Live
<1>2. RefcountExact'
  BY SameHoldersExact DEF SameHolders, Holding
<1>3. NoUseAfterFree' /\ OneTrackPerPath' /\ RigReapsEveryImport'
  BY DEF NoUseAfterFree, UsingPtr, OneTrackPerPath, RigReapsEveryImport, Live
<1>4. ZeroIsTransient' /\ LocalFacts'
  BY DEF ZeroIsTransient, LocalFacts, Matches, Live
<1>. QED BY <1>1, <1>2, <1>3, <1>4

(* The strengthened invariant holds in every reachable state: each loader  *)
(* step, rig step and process exit preserves it (track.c, rig.c).          *)
THEOREM InductiveInvariant ==
  ASSUME LockDiscipline
  PROVE  Spec => []IInv
<1>1. Init => IInv
  BY InitInv
<1>2. ASSUME IInv, [Next]_vars PROVE IInv'
  <2>1. ASSUME NEW l \in Loaders, LoaderNext(l) PROVE IInv'
    <3>. l \in Threads
      BY DEF Threads
    <3>. QED BY <1>2, <2>1, LoadStep, UnloadStep, CloneStep, ScanStep,
                CreateStep, CreateFailsStep, PostStep, AcquireStep,
                SetTrackStep, ReleaseStep, CheckStep, FreeStep DEF LoaderNext
  <2>2. ASSUME RigNext PROVE IInv'
    BY <1>2, <2>2, HoldersDistinct, RigLockStep, RigUnlockStep, StopImportStep,
       ReapStep, ReleaseStep, CheckStep, FreeStep DEF RigNext
  <2>3. ASSUME NEW t \in Addr, ChildExits(t) PROVE IInv'
    BY <1>2, <2>3, ChildExitsStep
  <2>4. CASE UNCHANGED vars
    BY <1>2, <2>4, StutterStep
  <2>. QED BY <1>2, <2>1, <2>2, <2>3, <2>4 DEF Next
<1>. QED BY <1>1, <1>2, PTL DEF Spec

(* Every variable keeps its type; the counts are never negative, so the    *)
(* unsigned refcount of the code never wraps.                              *)
THEOREM TypeCorrect ==
  ASSUME LockDiscipline
  PROVE  Spec => []TypeOK
<1>1. IInv => TypeOK
  BY DEF IInv
<1>. QED BY <1>1, InductiveInvariant, PTL

(* The reference count is exact: it equals the number of decks, lists and  *)
(* threads that hold the track (track_acquire, track_release).             *)
THEOREM CountIsExact ==
  ASSUME LockDiscipline
  PROVE  Spec => []RefcountExact
<1>1. IInv => RefcountExact
  BY DEF IInv
<1>. QED BY <1>1, InductiveInvariant, PTL

(* No deck, list or thread uses a track that has been freed.               *)
THEOREM MemorySafe ==
  ASSUME LockDiscipline
  PROVE  Spec => []NoUseAfterFree
<1>1. IInv => NoUseAfterFree
  BY DEF IInv
<1>. QED BY <1>1, InductiveInvariant, PTL

(* A track is freed only when it has no process and nothing reaches it.    *)
THEOREM FreeIsSafe ==
  ASSUME LockDiscipline
  PROVE  Spec => []FreeOnlyUnheld
<1>1. IInv => FreeOnlyUnheld
  BY FreeIsUnheld DEF FreeOnlyUnheld, UsingPtr, Resting
<1>. QED BY <1>1, InductiveInvariant, PTL

(* An import is terminated only when the rig's is the last reference.      *)
THEOREM TerminateIsSafe ==
  ASSUME LockDiscipline
  PROVE  Spec => []TerminateOnlyAbandoned
<1>1. ASSUME IInv PROVE TerminateOnlyAbandoned
  <2> SUFFICES ASSUME NEW th \in Threads, pc[th] = "check", importing[ptr[th]]
               PROVE  /\ Holders(ptr[th]) = {RigList}
                      /\ child[ptr[th]] # "none"
    BY DEF TerminateOnlyAbandoned
  <2>1. /\ ptr[th] \in Live /\ ptr[th] # Empty /\ ptr[th] \in Addr
        /\ refcount[ptr[th]] = 1
    BY <1>1 DEF IInv, NoUseAfterFree, UsingPtr, LocalFacts, PidIsChild, Live
  <2>2. ptr[th] \in rig
    BY <1>1, <2>1, OneBusy DEF IInv, RigReapsEveryImport, Resting, Threads
  <2>3. RigList \in Holders(ptr[th])
    BY <2>2 DEF Holders
  <2>4. Cardinality(Holders(ptr[th])) = 1
    <3>1. Cardinality(Holders(ptr[th])) \in Nat
      BY HoldersFinite, CountChanges
    <3>. QED BY <1>1, <2>1, <3>1 DEF IInv, RefcountExact
  <2>5. Holders(ptr[th]) = {RigList}
    BY <2>3, <2>4, HoldersFinite, CountWitness
  <2>. QED BY <1>1, <2>2, <2>5 DEF IInv, PidIsChild
<1>. QED BY <1>1, InductiveInvariant, PTL

(* A file is in memory, and being imported, at most once.                  *)
THEOREM NoSecondImport ==
  ASSUME LockDiscipline
  PROVE  Spec => []OneTrackPerPath
<1>1. IInv => OneTrackPerPath
  BY DEF IInv
<1>. QED BY <1>1, InductiveInvariant, PTL

(* The rig has every running import on its list, and nothing else.         *)
THEOREM EveryImportReaped ==
  ASSUME LockDiscipline
  PROVE  Spec => []RigReapsEveryImport
<1>1. IInv => RigReapsEveryImport
  BY DEF IInv
<1>. QED BY <1>1, InductiveInvariant, PTL
===============================================================================
