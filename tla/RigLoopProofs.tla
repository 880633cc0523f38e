---------------------------- MODULE RigLoopProofs -----------------------------
(***************************************************************************)
(* The audio and the lines that the rig reads, and that a job that is      *)
(* reaped has lost none of them, for any jobs and any size of a sample,    *)
(* of a block, of a track and of the pipes.                                *)
(***************************************************************************)
EXTENDS RigLoop, FiniteSetTheorems, SequenceTheorems, WellFoundedInduction, TLAPS

Job == [child : {"none", "running", "exited", "reaped"}, open : BOOLEAN,
        written : Nat, bytes : Nat, blocks : Nat, length : Nat, popped : Nat,
        listing : Seq(Nat \X Int)]

(* What is read was written; what a crate's job holds is left open.        *)
AudioType ==
  /\ job = [j \in Jobs |-> job[j]]
  /\ \A t \in Tracks : job[t] \in Job /\ job[t].bytes <= job[t].written

(* What has been read is announced before the rig turns to anything else.  *)
Announced ==
  \A t \in Tracks :
    \/ pc = "commit" /\ Head(todo) = t
    \/ job[t].length = job[t].bytes \div SAMPLE

(***************************************************************************)
(* Division.                                                               *)
(***************************************************************************)
LEMMA DivMod ==
  ASSUME NEW n \in Nat, NEW d \in Nat \ {0}
  PROVE  /\ n \div d \in Nat /\ n % d \in 0 .. d - 1
         /\ n = (n \div d) * d + (n % d)
  OBVIOUS

(* More blocks hold more.                                                  *)
LEMMA Scaled ==
  ASSUME NEW k \in Nat, NEW m \in Nat, NEW d \in Nat, k <= m
  PROVE  k * d <= m * d
  OBVIOUS

(* The block of a byte is that in which its count of blocks places it.     *)
LEMMA BlockOfByte ==
  ASSUME NEW n \in Nat, NEW m \in Nat, NEW d \in Nat \ {0}, n <= m * d
  PROVE  /\ n \div d <= m
         /\ n \div d = m => n = m * d
         /\ n \div d < m => n + (d - (n % d)) <= m * d
         /\ n \div d = m => n + (d - (n % d)) = (m + 1) * d
<1> DEFINE q == n \div d
           r == n % d
<1>1. q \in Nat /\ r \in 0 .. d - 1 /\ n = q * d + r BY DivMod
<1> HIDE DEF q, r
<1>2. q <= m
  <2> SUFFICES ASSUME m + 1 <= q PROVE FALSE BY <1>1
  <2>1. (m + 1) * d <= q * d BY <1>1, Scaled
  <2>2. (m + 1) * d = m * d + d OBVIOUS
  <2>3. m * d \in Nat /\ q * d \in Nat BY <1>1
  <2> QED BY <1>1, <2>1, <2>2, <2>3
<1>3. q = m => n = m * d BY <1>1
<1>4. q < m => n + (d - r) <= m * d
  <2> SUFFICES ASSUME q + 1 <= m PROVE n + (d - r) <= m * d BY <1>1
  <2>1. (q + 1) * d <= m * d BY <1>1, Scaled
  <2>2. (q + 1) * d = q * d + d BY <1>1
  <2>3. m * d \in Nat /\ q * d \in Nat BY <1>1
  <2> QED BY <1>1, <2>1, <2>2, <2>3
<1>5. q = m => n + (d - r) = (m + 1) * d
  <2>1. (m + 1) * d = m * d + d OBVIOUS
  <2>2. m * d \in Nat OBVIOUS
  <2> QED BY <1>1, <2>1, <2>2
<1> QED BY <1>2, <1>3, <1>4, <1>5 DEF q, r

(***************************************************************************)
(* What a step does to a track.                                            *)
(***************************************************************************)
SameAudio(t) ==
  /\ job'[t].bytes = job[t].bytes /\ job'[t].blocks = job[t].blocks
  /\ job'[t].length = job[t].length

IInv == AudioType /\ PublishedIsStored /\ Announced

(* The sizes, for the steps below.                                         *)
LEMMA Sizes ==
  /\ SAMPLE \in Nat \ {0} /\ BlockBytes \in Nat \ {0} /\ TRACK_MAX_BLOCKS \in Nat
  /\ \A t \in Tracks : t \in Jobs /\ t \notin Crates
  BY RigLoopAssumption DEF Jobs

(* A step that reads no audio leaves the audio as it was.                  *)
LEMMA AudioAlone ==
  ASSUME IInv, job' = [j \in Jobs |-> job'[j]],
         \A t \in Tracks : /\ job'[t] \in Job /\ job'[t].bytes <= job'[t].written
                          /\ SameAudio(t),
         pc = "commit" => pc' = "commit" /\ todo' = todo
  PROVE  IInv'
<1>1. AudioType' BY DEF AudioType
<1>2. PublishedIsStored' BY DEF IInv, PublishedIsStored, SameAudio
<1>3. Announced'
  <2> SUFFICES ASSUME NEW t \in Tracks
               PROVE  \/ pc' = "commit" /\ Head(todo)' = t
                      \/ job'[t].length = job'[t].bytes \div SAMPLE
    BY DEF Announced
  <2>1. CASE pc = "commit" /\ Head(todo) = t BY <2>1
  <2>2. CASE job[t].length = job[t].bytes \div SAMPLE BY <2>2 DEF SameAudio
  <2> QED BY <2>1, <2>2 DEF IInv, Announced
<1> QED BY <1>1, <1>2, <1>3 DEF IInv

(* A read fills a block and goes no further.                               *)
LEMMA ReadStep ==
  ASSUME IInv, NEW t \in Tracks, ReadAudio(t)
  PROVE  IInv'
<1> DEFINE n == job[t].bytes
           m == job[t].blocks
           read == Smaller(Avail(t), Room(t))
<1>1. /\ n \in Nat /\ m \in Nat /\ job[t].written \in Nat /\ n <= job[t].written
      /\ job[t] \in Job /\ job[t].length \in Nat
  BY DEF IInv, AudioType, Job
<1>2. n <= m * BlockBytes /\ m <= TRACK_MAX_BLOCKS /\ job[t].length * SAMPLE <= n
  BY DEF IInv, PublishedIsStored
<1>3. /\ n \div BlockBytes <= m
      /\ n \div BlockBytes < m => n + (BlockBytes - (n % BlockBytes)) <= m * BlockBytes
      /\ n \div BlockBytes = m =>
           n + (BlockBytes - (n % BlockBytes)) = (m + 1) * BlockBytes
  BY <1>1, <1>2, Sizes, BlockOfByte
<1>4. BlockBytes - (n % BlockBytes) \in Nat BY <1>1, Sizes, DivMod
<1>5. /\ read \in Nat /\ n + read <= job[t].written
      /\ n + read <= n + (BlockBytes - (n % BlockBytes))
  BY <1>1, <1>4 DEF Smaller, Avail, Room
<1>6. /\ job' = [job EXCEPT ![t].blocks = IF Block(t) = job[t].blocks
                                            THEN job[t].blocks + 1 ELSE job[t].blocks,
                            ![t].bytes = n + read]
      /\ pc = "read" /\ (Block(t) = m => m < TRACK_MAX_BLOCKS)
  BY DEF ReadAudio, At
<1>7. \A j \in Jobs \ {t} : job'[j] = job[j]
  BY <1>6 DEF IInv, AudioType
<1>8. /\ job'[t].bytes = n + read /\ job'[t].length = job[t].length
      /\ job'[t].blocks = (IF Block(t) = m THEN m + 1 ELSE m)
      /\ job'[t].written = job[t].written /\ job'[t] \in Job
  <2>1. t \in DOMAIN job /\ n + read \in Nat /\ m + 1 \in Nat
    BY <1>1, <1>5, Sizes DEF IInv, AudioType
  <2>2. PICK b \in Nat : /\ b = IF Block(t) = m THEN m + 1 ELSE m
                        /\ job' = [job EXCEPT ![t].blocks = b, ![t].bytes = n + read]
    BY <1>1, <1>6, <2>1
  <2>3. job'[t] = [job[t] EXCEPT !.blocks = b, !.bytes = n + read] BY <2>1, <2>2
  <2> QED BY <1>1, <2>1, <2>2, <2>3 DEF Job
<1>9. /\ job'[t].bytes <= job'[t].blocks * BlockBytes
      /\ job'[t].blocks <= TRACK_MAX_BLOCKS
      /\ job'[t].length * SAMPLE <= job'[t].bytes
  <2>1. CASE Block(t) = m
    <3>1. n + read <= (m + 1) * BlockBytes BY <1>1, <1>3, <1>4, <1>5, <2>1, Sizes DEF Block
    <3>2. job[t].length * SAMPLE <= n + read BY <1>1, <1>2, <1>5, Sizes
    <3> QED BY <1>1, <1>6, <1>8, <2>1, <3>1, <3>2, Sizes
  <2>2. CASE Block(t) # m
    <3>1. n \div BlockBytes \in Nat BY <1>1, Sizes, DivMod
    <3>2. n \div BlockBytes < m BY <1>1, <1>3, <2>2, <3>1 DEF Block
    <3>3. n + read <= m * BlockBytes BY <1>1, <1>3, <1>4, <1>5, <3>2, Sizes
    <3>4. job[t].length * SAMPLE <= n + read BY <1>1, <1>2, <1>5, Sizes
    <3> QED BY <1>2, <1>8, <2>2, <3>3, <3>4
  <2> QED BY <2>1, <2>2
<1>10. AudioType'
  <2>1. job' = [j \in Jobs |-> job'[j]] BY <1>6 DEF IInv, AudioType
  <2>2. \A u \in Tracks : job'[u] \in Job /\ job'[u].bytes <= job'[u].written
    BY <1>5, <1>7, <1>8, Sizes DEF IInv, AudioType
  <2> QED BY <2>1, <2>2 DEF AudioType
<1>11. PublishedIsStored'
  BY <1>7, <1>9, Sizes DEF IInv, PublishedIsStored
<1>12. Announced'
  <2>1. \A u \in Tracks : job[u].length = job[u].bytes \div SAMPLE
    BY <1>6 DEF IInv, Announced
  <2>2. CASE Avail(t) > 0
    <3>1. pc' = "commit" /\ todo' = todo /\ Head(todo) = t BY <2>2 DEF ReadAudio, At
    <3> QED BY <1>7, <2>1, <3>1, Sizes DEF Announced
  <2>3. CASE ~(Avail(t) > 0)
    <3>1. read = 0 BY <1>1, <1>4, <2>3 DEF Smaller, Avail, Room
    <3>2. job'[t].bytes = n BY <1>1, <1>8, <3>1
    <3> QED BY <1>7, <1>8, <2>1, <3>2, Sizes DEF Announced
  <2> QED BY <2>2, <2>3
<1> QED BY <1>10, <1>11, <1>12 DEF IInv

(* What is announced was read.                                             *)
LEMMA CommitStep ==
  ASSUME IInv, NEW t \in Tracks, Commit(t)
  PROVE  IInv'
<1> DEFINE n == job[t].bytes
<1>1. n \in Nat /\ job[t] \in Job /\ n <= job[t].written
  BY DEF IInv, AudioType, Job
<1>2. n \div SAMPLE \in Nat /\ (n \div SAMPLE) * SAMPLE <= n
  <2>0. SAMPLE \in Nat \ {0} BY Sizes
  <2>1. /\ n \div SAMPLE \in Nat /\ n % SAMPLE \in 0 .. SAMPLE - 1
        /\ n = (n \div SAMPLE) * SAMPLE + (n % SAMPLE)
    BY <1>1, <2>0, DivMod
  <2>2. (n \div SAMPLE) * SAMPLE \in Nat BY <2>1, Sizes
  <2> QED BY <2>1, <2>2
<1>3. job' = [job EXCEPT ![t].length = n \div SAMPLE] /\ pc = "commit" /\ Head(todo) = t
  BY DEF Commit
<1>4. \A j \in Jobs \ {t} : job'[j] = job[j] BY <1>3 DEF IInv, AudioType
<1>5. /\ job'[t].length = n \div SAMPLE /\ job'[t].bytes = n
      /\ job'[t].blocks = job[t].blocks /\ job'[t].written = job[t].written
      /\ job'[t] \in Job
  BY <1>1, <1>2, <1>3, Sizes DEF IInv, AudioType, Job
<1>6. AudioType'
  <2>1. job' = [j \in Jobs |-> job'[j]] BY <1>3 DEF IInv, AudioType
  <2>2. \A u \in Tracks : job'[u] \in Job /\ job'[u].bytes <= job'[u].written
    BY <1>1, <1>4, <1>5, Sizes DEF IInv, AudioType
  <2> QED BY <2>1, <2>2 DEF AudioType
<1>7. PublishedIsStored' BY <1>2, <1>4, <1>5, Sizes DEF IInv, PublishedIsStored
<1>8. Announced' BY <1>3, <1>4, <1>5, Sizes DEF IInv, Announced
<1> QED BY <1>6, <1>7, <1>8 DEF IInv

(* A process that writes changes what is written and nothing that was read. *)
LEMMA WrittenTo ==
  ASSUME NEW r \in Job, NEW n \in Nat
  PROVE  LET w == [r EXCEPT !.written = n]
         IN  /\ w \in Job /\ w.written = n
             /\ w.bytes = r.bytes /\ w.blocks = r.blocks /\ w.length = r.length
  BY DEF Job

(***************************************************************************)
(* The theorems.                                                           *)
(***************************************************************************)
LEMMA AudioStep ==
  ASSUME IInv, [Next]_vars
  PROVE  IInv'
<1> USE DEF childVars, listVars, pollVars
<1>0. /\ job = [j \in Jobs |-> job[j]] /\ \A t \in Tracks : t \in Jobs
      /\ \A t \in Tracks : job[t] \in Job /\ job[t].bytes <= job[t].written
  BY Sizes DEF IInv, AudioType
<1>e. CASE job' = job /\ (pc = "commit" => pc' = "commit" /\ todo' = todo)
  BY <1>e, <1>0, AudioAlone DEF SameAudio
<1>p. ASSUME NEW j \in Jobs, NEW c \in {"none", "running", "exited", "reaped"},
             NEW o \in BOOLEAN, UNCHANGED <<pc, todo>>,
             job' = [job EXCEPT ![j].child = c, ![j].open = o]
      PROVE  IInv'
  <2>1. job' = [k \in Jobs |-> job'[k]] BY <1>0, <1>p
  <2>2. ASSUME NEW t \in Tracks
        PROVE  /\ job'[t] \in Job /\ job'[t].bytes <= job'[t].written /\ SameAudio(t)
    <3>1. CASE t # j BY <1>0, <1>p, <3>1 DEF SameAudio
    <3>2. CASE t = j
      <4>1. job'[t] = [job[t] EXCEPT !.child = c, !.open = o] BY <1>0, <1>p, <3>2
      <4> QED BY <1>0, <4>1 DEF SameAudio, Job
    <3> QED BY <3>1, <3>2
  <2> QED BY <1>p, <2>1, <2>2, AudioAlone
<1>1. CASE Fill BY <1>1, <1>e DEF Fill
<1>2. CASE Poll BY <1>2, <1>e DEF Poll
<1>3. CASE Drain BY <1>3, <1>e DEF Drain
<1>4. CASE Lock BY <1>4, <1>e DEF Lock
<1>5. CASE Handle BY <1>5, <1>e DEF Handle
<1>6. CASE Close
  <2>1. ASSUME NEW t \in Tracks
        PROVE  /\ job'[t] \in Job /\ job'[t].bytes <= job'[t].written /\ SameAudio(t)
    <3>1. job'[t] = IF t = Head(todo) THEN [job[t] EXCEPT !.open = FALSE] ELSE job[t]
      BY <1>0, <1>6 DEF Close
    <3> QED BY <1>0, <3>1 DEF SameAudio, Job
  <2>2. job' = [j \in Jobs |-> job'[j]] /\ pc # "commit" BY <1>0, <1>6 DEF Close
  <2> QED BY <2>1, <2>2, AudioAlone
<1>7. CASE Reap
  <2>1. ASSUME NEW t \in Tracks
        PROVE  /\ job'[t] \in Job /\ job'[t].bytes <= job'[t].written /\ SameAudio(t)
    <3>1. job'[t] = IF t = Head(todo) THEN [job[t] EXCEPT !.child = "reaped"] ELSE job[t]
      BY <1>0, <1>7 DEF Reap
    <3> QED BY <1>0, <3>1 DEF SameAudio, Job
  <2>2. job' = [j \in Jobs |-> job'[j]] /\ pc # "commit" BY <1>0, <1>7 DEF Reap
  <2> QED BY <2>1, <2>2, AudioAlone
<1>8. ASSUME NEW t \in Tracks, ReadAudio(t) PROVE IInv' BY <1>8, ReadStep
<1>9. ASSUME NEW t \in Tracks, more_space_fails(t) PROVE IInv'
  BY <1>9, <1>e DEF more_space_fails, At
<1>10. ASSUME NEW t \in Tracks, Commit(t) PROVE IInv' BY <1>10, CommitStep
<1>11. ASSUME NEW c \in Crates, ReadLine(c) PROVE IInv'
  <2>1. job' = [j \in Jobs |-> job'[j]] /\ \A j \in Jobs \ {c} : job'[j] = job[j]
    BY <1>0, <1>11 DEF ReadLine
  <2>2. pc # "commit" BY <1>11 DEF ReadLine, At
  <2> QED BY <1>0, <2>1, <2>2, Sizes, AudioAlone DEF SameAudio
<1>12. CASE Interrupted BY <1>12, <1>e DEF Interrupted
<1>13. CASE Quit BY <1>13, <1>e DEF Quit
<1>14. ASSUME NEW j \in Jobs, Post(j) PROVE IInv'
  <2>1. /\ job' = [job EXCEPT ![j].child = "running", ![j].open = TRUE]
        /\ UNCHANGED <<pc, todo>>
    BY <1>14 DEF Post, fork_pipe_nb
  <2> QED BY <1>p, <2>1
<1>15. ASSUME NEW j \in Jobs, Write(j) PROVE IInv'
  <2>1. ASSUME NEW t \in Tracks
        PROVE  /\ job'[t] \in Job /\ job'[t].bytes <= job'[t].written /\ SameAudio(t)
    <3>1. job'[t] = IF t = j THEN [job[t] EXCEPT !.written = job[t].written + 1]
                             ELSE job[t]
      BY <1>0, <1>15 DEF Write
    <3>2. CASE t = j
      <4>1. job[t] \in Job /\ job[t].bytes <= job[t].written BY <1>0
      <4>2. job[t].written \in Nat /\ job[t].bytes \in Nat BY <4>1 DEF Job
      <4>3. job'[t] = [job[t] EXCEPT !.written = job[t].written + 1] BY <3>1, <3>2
      <4>4. job'[t] \in Job BY <4>1, <4>2, <4>3, WrittenTo
      <4>5. job'[t].written = job[t].written + 1 /\ SameAudio(t)
        BY <4>1, <4>3, WrittenTo DEF SameAudio
      <4> QED BY <4>1, <4>2, <4>4, <4>5 DEF SameAudio
    <3>3. CASE t # j BY <1>0, <3>1, <3>3 DEF SameAudio
    <3> QED BY <3>2, <3>3
  <2>2. job' = [k \in Jobs |-> job'[k]] /\ UNCHANGED <<pc, todo>>
    BY <1>0, <1>15 DEF Write
  <2> QED BY <2>1, <2>2, AudioAlone
<1>16. ASSUME NEW j \in Jobs, Exit(j) \/ Terminate(j) PROVE IInv'
  <2>1. ASSUME NEW t \in Tracks
        PROVE  /\ job'[t] \in Job /\ job'[t].bytes <= job'[t].written /\ SameAudio(t)
    <3>1. job'[t] = IF t = j THEN [job[t] EXCEPT !.child = "exited"] ELSE job[t]
      BY <1>0, <1>16 DEF Exit, Terminate
    <3> QED BY <1>0, <3>1 DEF SameAudio, Job
  <2>2. job' = [k \in Jobs |-> job'[k]] /\ UNCHANGED <<pc, todo>>
    BY <1>0, <1>16 DEF Exit, Terminate
  <2> QED BY <2>1, <2>2, AudioAlone
<1>17. CASE UNCHANGED vars BY <1>17, <1>e DEF vars
<1> QED
  BY <1>1, <1>2, <1>3, <1>4, <1>5, <1>6, <1>7, <1>8, <1>9, <1>10, <1>11, <1>12, <1>13,
     <1>14, <1>15, <1>16, <1>17
  DEF Next, Rig

LEMMA AudioInit == Init => IInv
<1> SUFFICES ASSUME Init PROVE IInv OBVIOUS
<1> USE Sizes DEF Init
<1>1. New \in Job BY DEF New, Job
<1>2. \A t \in Tracks : job[t] = New OBVIOUS
<1>3. AudioType
  <2>1. job = [j \in Jobs |-> job[j]] OBVIOUS
  <2>2. New.bytes <= New.written BY DEF New
  <2> QED BY <1>1, <1>2, <2>1, <2>2 DEF AudioType
<1>4. PublishedIsStored
  <2>1. 0 * SAMPLE = 0 /\ 0 * BlockBytes = 0 /\ 0 <= TRACK_MAX_BLOCKS OBVIOUS
  <2>2. New.length = 0 /\ New.bytes = 0 /\ New.blocks = 0 BY DEF New
  <2> QED BY <1>2, <2>1, <2>2 DEF PublishedIsStored
<1>5. Announced
  <2>1. 0 \div SAMPLE = 0 OBVIOUS
  <2>2. New.length = 0 /\ New.bytes = 0 BY DEF New
  <2> QED BY <1>2, <2>1, <2>2 DEF Announced
<1> QED BY <1>3, <1>4, <1>5 DEF IInv

(* However large a sample, a block and a track are, and whatever is posted,
   written, killed or cut short, every sample below the length of a track was
   stored whole in a block that is there, and no track has too many blocks. *)
THEOREM RigPublishes == Spec => []PublishedIsStored
<1>1. Init => IInv BY AudioInit
<1>2. IInv /\ [Next]_vars => IInv' BY AudioStep
<1>3. IInv => PublishedIsStored BY DEF IInv
<1> QED BY <1>1, <1>2, <1>3, PTL DEF Spec

(* No audio stays behind in memory: when the rig turns to another job, or to
   the end of this one, the whole samples it has read are announced.       *)
THEOREM RigAnnounces == Spec => []Announced
<1>1. Init => IInv BY AudioInit
<1>2. IInv /\ [Next]_vars => IInv' BY AudioStep
<1>3. IInv => Announced BY DEF IInv
<1> QED BY <1>1, <1>2, <1>3, PTL DEF Spec

(***************************************************************************)
(* Lines: the n-th newline of a scan, and the line that it ends.           *)
(***************************************************************************)
Upto(ends, n) == {k \in ends : k <= n}

Numbered(ends, n) == CHOOSE m \in ends : Cardinality(Upto(ends, m)) = n

Line(ends, n) ==
  <<(IF n = 1 THEN 0 ELSE Numbered(ends, n - 1)) + 1, Numbered(ends, n) - 1>>

(* A set of numbers that is not empty has a least one.                     *)
LEMMA NatMin ==
  ASSUME NEW T, T \subseteq Nat, T # {}
  PROVE  \E x \in T : \A y \in T : x <= y
<1>1. PICK x \in T : \A y \in T : ~(<<y, x>> \in OpToRel(<, Nat))
  <2> HIDE DEF OpToRel
  <2> QED BY NatLessThanWellFounded, WFMin, Zenon
<1>2. \A y \in T : ~(y < x) BY <1>1 DEF OpToRel
<1> QED BY <1>2

(* The newlines up to a byte can be counted.                               *)
LEMMA UptoFinite ==
  ASSUME NEW ends, \A k \in ends : k \in Nat \ {0}, NEW n \in Nat
  PROVE  /\ IsFiniteSet(Upto(ends, n)) /\ Cardinality(Upto(ends, n)) \in Nat
         /\ n \in ends => Cardinality(Upto(ends, n)) # 0
<1>1. Upto(ends, n) \subseteq 1 .. n BY DEF Upto
<1>2. IsFiniteSet(1 .. n) BY FS_Interval
<1>3. IsFiniteSet(Upto(ends, n)) BY <1>1, <1>2, FS_Subset
<1>4. n \in ends => Upto(ends, n) # {} BY DEF Upto
<1> QED BY <1>3, <1>4, FS_CardinalityType, FS_EmptySet

(* A newline is that of its number.                                        *)
LEMMA LineAt ==
  ASSUME NEW ends, \A k \in ends : k \in Nat \ {0}, NEW m \in ends
  PROVE  Numbered(ends, Cardinality(Upto(ends, m))) = m
<1>1. ASSUME NEW k \in ends, NEW l \in ends, k < l
      PROVE  Cardinality(Upto(ends, k)) # Cardinality(Upto(ends, l))
  <2>1. Upto(ends, k) \subseteq Upto(ends, l) /\ l \in Upto(ends, l) /\ l \notin Upto(ends, k)
    BY <1>1 DEF Upto
  <2>2. IsFiniteSet(Upto(ends, l)) BY UptoFinite
  <2> QED BY <2>1, <2>2, FS_Subset
<1>2. \A k \in ends : Cardinality(Upto(ends, k)) = Cardinality(Upto(ends, m)) => k = m
  BY <1>1
<1> QED BY <1>2 DEF Numbered

(* The line after a byte that ends one, or after none, begins there.       *)
LEMMA NextLine ==
  ASSUME NEW ends, \A k \in ends : k \in Nat \ {0},
         NEW p \in Nat, p = 0 \/ p \in ends,
         NEW e \in ends, p < e, \A k \in ends : p < k => e <= k
  PROVE  /\ Cardinality(Upto(ends, e)) = Cardinality(Upto(ends, p)) + 1
         /\ Line(ends, Cardinality(Upto(ends, e))) = <<p + 1, e - 1>>
<1>1. Upto(ends, e) = Upto(ends, p) \cup {e} /\ e \notin Upto(ends, p) BY DEF Upto
<1>2. Cardinality(Upto(ends, e)) = Cardinality(Upto(ends, p)) + 1
  BY <1>1, UptoFinite, FS_AddElement
<1>3. Numbered(ends, Cardinality(Upto(ends, e))) = e BY LineAt
<1>4. CASE p = 0
  <2>1. Upto(ends, 0) = {} BY DEF Upto
  <2>2. Cardinality(Upto(ends, e)) = 1 BY <1>2, <1>4, <2>1, FS_EmptySet
  <2> QED BY <1>2, <1>3, <1>4, <2>2 DEF Line
<1>5. CASE p \in ends
  <2>1. Numbered(ends, Cardinality(Upto(ends, p))) = p BY <1>5, LineAt
  <2>2. Cardinality(Upto(ends, p)) \in Nat \ {0} BY <1>5, UptoFinite
  <2> QED BY <1>2, <1>3, <2>1, <2>2 DEF Line
<1> QED BY <1>4, <1>5

(* The end of a line is the first newline, and there is none where it is 0. *)
LEMMA LineEnds ==
  ASSUME NEW c \in Crates, text[c] \subseteq Nat \ {0}, NEW from \in Nat, NEW to \in Nat
  PROVE  LET e == EndOfLine(c, from, to)
         IN  \/ e = 0 /\ \A k \in text[c] : ~(from < k /\ k <= to)
             \/ /\ e \in text[c] /\ from < e /\ e <= to
                /\ \A k \in text[c] : from < k => e <= k
<1> DEFINE ends == {n \in text[c] : from < n /\ n <= to}
<1>1. CASE ends = {} BY <1>1 DEF EndOfLine
<1>2. CASE ends # {}
  <2>1. \E n \in ends : \A m \in ends : n <= m BY <1>2, NatMin
  <2>2. EndOfLine(c, from, to) = CHOOSE n \in ends : \A m \in ends : n <= m
    BY <1>2 DEF EndOfLine
  <2>3. /\ EndOfLine(c, from, to) \in ends
        /\ \A m \in ends : EndOfLine(c, from, to) <= m
    BY <2>1, <2>2
  <2> QED BY <2>3
<1> QED BY <1>1, <1>2

(***************************************************************************)
(* Lists of jobs.                                                          *)
(***************************************************************************)
Distinct(list) == \A i, k \in 1 .. Len(list) : list[i] = list[k] => i = k

Holds(list, j) == \E i \in 1 .. Len(list) : list[i] = j

(* list_del() takes one entry out and leaves the others.                   *)
LEMMA Removed ==
  ASSUME NEW S, NEW list \in Seq(S), NEW j, Distinct(list)
  PROVE  /\ RemoveFirst(list, j) \in Seq(S) /\ Distinct(RemoveFirst(list, j))
         /\ \A k : Holds(RemoveFirst(list, j), k) => Holds(list, k) /\ k # j
<1>1. CASE ~Holds(list, j)
  <2>1. RemoveFirst(list, j) = list BY <1>1 DEF RemoveFirst, Holds
  <2> QED BY <1>1, <2>1 DEF Holds
<1>2. CASE Holds(list, j)
  <2> DEFINE I == {i \in 1 .. Len(list) : list[i] = j}
             at == CHOOSE x \in I : \A y \in I : x <= y
             rest == RemoveFirst(list, j)
  <2>1. Len(list) \in Nat OBVIOUS
  <2>2. I # {} /\ I \subseteq Nat BY <1>2 DEF Holds
  <2>3. at \in I BY <2>2, NatMin
  <2>4. SelectInSeq(list, LAMBDA v : v = j) = at BY <2>2 DEF SelectInSeq, Min
  <2>5. rest = SubSeq(list, 1, at - 1) \o SubSeq(list, at + 1, Len(list))
    BY <1>2, <2>4 DEF RemoveFirst, RemoveAt, Holds
  <2> HIDE DEF at
  <2>6. at \in 1 .. Len(list) /\ list[at] = j BY <2>3
  <2>7. /\ SubSeq(list, 1, at - 1) \in Seq(S) /\ Len(SubSeq(list, 1, at - 1)) = at - 1
        /\ \A i \in 1 .. at - 1 : SubSeq(list, 1, at - 1)[i] = list[i]
    BY <2>1, <2>6
  <2>8. /\ SubSeq(list, at + 1, Len(list)) \in Seq(S)
        /\ Len(SubSeq(list, at + 1, Len(list))) = Len(list) - at
        /\ \A i \in 1 .. Len(list) - at :
             SubSeq(list, at + 1, Len(list))[i] = list[at + i]
    BY <2>1, <2>6
  <2> HIDE DEF rest
  <2>9. /\ rest \in Seq(S) /\ Len(rest) = Len(list) - 1
        /\ \A i \in 1 .. Len(list) - 1 : rest[i] = IF i < at THEN list[i] ELSE list[i + 1]
    <3> DEFINE a == SubSeq(list, 1, at - 1)
               b == SubSeq(list, at + 1, Len(list))
    <3>1. /\ a \o b \in Seq(S) /\ Len(a \o b) = Len(a) + Len(b)
          /\ \A i \in 1 .. Len(a) + Len(b) :
               (a \o b)[i] = IF i <= Len(a) THEN a[i] ELSE b[i - Len(a)]
      BY <2>7, <2>8, ConcatProperties
    <3>2. /\ Len(a) = at - 1 /\ Len(b) = Len(list) - at
          /\ \A i \in 1 .. at - 1 : a[i] = list[i]
          /\ \A i \in 1 .. Len(list) - at : b[i] = list[at + i]
          /\ rest = a \o b
      BY <2>5, <2>7, <2>8
    <3> HIDE DEF a, b
    <3>3. Len(a) + Len(b) = Len(list) - 1 BY <2>1, <2>6, <3>2
    <3>4. ASSUME NEW i \in 1 .. Len(list) - 1
          PROVE  rest[i] = IF i < at THEN list[i] ELSE list[i + 1]
      <4>1. rest[i] = IF i <= at - 1 THEN a[i] ELSE b[i - (at - 1)]
        BY <3>1, <3>2, <3>3
      <4>2. CASE i < at BY <2>6, <3>2, <4>1, <4>2
      <4>3. CASE ~(i < at)
        <5>1. i - (at - 1) \in 1 .. Len(list) - at BY <2>1, <2>6, <4>3
        <5>2. at + (i - (at - 1)) = i + 1 BY <2>6
        <5> QED BY <2>6, <3>2, <4>1, <4>3, <5>1, <5>2
      <4> QED BY <4>2, <4>3
    <3> QED BY <3>1, <3>2, <3>3, <3>4
  <2>10. Distinct(rest)
    <3> SUFFICES ASSUME NEW i \in 1 .. Len(rest), NEW k \in 1 .. Len(rest),
                        rest[i] = rest[k]
                 PROVE  i = k
      BY DEF Distinct
    <3> QED BY <2>1, <2>6, <2>9 DEF Distinct
  <2>11. ASSUME NEW k, Holds(rest, k) PROVE Holds(list, k) /\ k # j
    <3>1. PICK i \in 1 .. Len(rest) : rest[i] = k BY <2>11 DEF Holds
    <3>2. PICK n \in 1 .. Len(list) : rest[i] = list[n] /\ n # at
      BY <2>1, <2>6, <2>9, <3>1
    <3> QED BY <2>6, <3>1, <3>2 DEF Holds, Distinct
  <2> QED BY <2>9, <2>10, <2>11 DEF rest
<1> QED BY <1>1, <1>2

(* A job is posted at the head of its list.                                *)
LEMMA Pushed ==
  ASSUME NEW S, NEW list \in Seq(S), NEW j \in S, Distinct(list), ~Holds(list, j)
  PROVE  /\ <<j>> \o list \in Seq(S) /\ Distinct(<<j>> \o list)
         /\ \A k : Holds(<<j>> \o list, k) => Holds(list, k) \/ k = j
<1>1. <<j>> \in Seq(S) /\ Len(<<j>>) = 1 /\ <<j>>[1] = j /\ Len(list) \in Nat OBVIOUS
<1>2. /\ <<j>> \o list \in Seq(S) /\ Len(<<j>> \o list) = Len(list) + 1
      /\ \A i \in 1 .. Len(list) + 1 :
           (<<j>> \o list)[i] = IF i = 1 THEN j ELSE list[i - 1]
  <2>1. /\ <<j>> \o list \in Seq(S) /\ Len(<<j>> \o list) = 1 + Len(list)
        /\ \A i \in 1 .. 1 + Len(list) :
             (<<j>> \o list)[i] = IF i <= 1 THEN <<j>>[i] ELSE list[i - 1]
    BY <1>1, ConcatProperties
  <2> QED BY <1>1, <2>1
<1> DEFINE long == <<j>> \o list
<1> HIDE DEF long
<1>3. /\ Len(long) = Len(list) + 1
      /\ \A i \in 1 .. Len(list) + 1 : long[i] = IF i = 1 THEN j ELSE list[i - 1]
  BY <1>2 DEF long
<1>4. ASSUME NEW i \in 1 .. Len(list) + 1, i # 1
      PROVE  i - 1 \in 1 .. Len(list) /\ long[i] = list[i - 1] /\ long[i] # j
  BY <1>1, <1>3, <1>4 DEF Holds
<1>5. Distinct(long)
  <2> SUFFICES ASSUME NEW i \in 1 .. Len(list) + 1, NEW k \in 1 .. Len(list) + 1,
                      long[i] = long[k]
               PROVE  i = k
    BY <1>3 DEF Distinct
  <2>1. CASE i = 1 \/ k = 1 BY <1>3, <1>4, <2>1
  <2>2. CASE i # 1 /\ k # 1
    <3>1. i - 1 = k - 1 BY <1>4, <2>2 DEF Distinct
    <3> QED BY <3>1
  <2> QED BY <2>1, <2>2
<1>6. \A k : Holds(long, k) => Holds(list, k) \/ k = j BY <1>3, <1>4 DEF Holds
<1> QED BY <1>2, <1>5, <1>6 DEF long

(* A round takes the tracks, then the crates; a job is in one list only.   *)
LEMMA Joined ==
  ASSUME NEW S, NEW T, S \cap T = {}, NEW s \in Seq(S), NEW t \in Seq(T),
         Distinct(s), Distinct(t)
  PROVE  /\ s \o t \in Seq(S \cup T) /\ Distinct(s \o t)
         /\ \A k : Holds(s \o t, k) => Holds(s, k) \/ Holds(t, k)
<1>1. s \in Seq(S \cup T) /\ t \in Seq(S \cup T) /\ Len(s) \in Nat /\ Len(t) \in Nat
  BY SeqMonotonic
<1> DEFINE st == s \o t
<1>2. /\ st \in Seq(S \cup T) /\ Len(st) = Len(s) + Len(t)
      /\ \A i \in 1 .. Len(s) + Len(t) :
           st[i] = IF i <= Len(s) THEN s[i] ELSE t[i - Len(s)]
  BY <1>1, ConcatProperties
<1> HIDE DEF st
<1>3. ASSUME NEW i \in 1 .. Len(s) + Len(t)
      PROVE  \/ i \in 1 .. Len(s) /\ st[i] = s[i] /\ st[i] \in S
             \/ /\ i \notin 1 .. Len(s) /\ i - Len(s) \in 1 .. Len(t)
                /\ st[i] = t[i - Len(s)] /\ st[i] \in T
  <2>1. CASE i <= Len(s) BY <1>1, <1>2, <2>1
  <2>2. CASE ~(i <= Len(s)) BY <1>1, <1>2, <2>2
  <2> QED BY <2>1, <2>2
<1>4. Distinct(st)
  <2> SUFFICES ASSUME NEW i \in 1 .. Len(s) + Len(t), NEW k \in 1 .. Len(s) + Len(t),
                      st[i] = st[k]
               PROVE  i = k
    BY <1>2 DEF Distinct
  <2>1. CASE i \in 1 .. Len(s) BY <1>3, <2>1 DEF Distinct
  <2>2. CASE i \notin 1 .. Len(s)
    <3>1. i - Len(s) = k - Len(s) BY <1>3, <2>2 DEF Distinct
    <3> QED BY <1>1, <3>1
  <2> QED BY <2>1, <2>2
<1>5. \A k : Holds(st, k) => Holds(s, k) \/ Holds(t, k) BY <1>2, <1>3 DEF Holds
<1> QED BY <1>2, <1>4, <1>5 DEF st

(* The job that is done leaves the round.                                  *)
LEMMA Tailed ==
  ASSUME NEW S, NEW list \in Seq(S), list # <<>>, Distinct(list)
  PROVE  /\ Tail(list) \in Seq(S) /\ Distinct(Tail(list))
         /\ Tail(list) = <<>> <=> Len(list) = 1
         /\ Holds(list, Head(list)) /\ Head(list) \in S
         /\ \A k : Holds(Tail(list), k) => Holds(list, k) /\ k # Head(list)
<1>1. /\ Tail(list) \in Seq(S) /\ Len(Tail(list)) = Len(list) - 1 /\ Len(list) \in Nat
      /\ \A i \in 1 .. Len(list) - 1 : Tail(list)[i] = list[i + 1]
      /\ Len(list) # 0 /\ Head(list) = list[1] /\ Head(list) \in S
  BY HeadTailProperties, EmptySeq
<1>2. Distinct(Tail(list))
  <2> SUFFICES ASSUME NEW i \in 1 .. Len(list) - 1, NEW k \in 1 .. Len(list) - 1,
                      Tail(list)[i] = Tail(list)[k]
               PROVE  i = k
    BY <1>1 DEF Distinct
  <2>1. i + 1 = k + 1 BY <1>1 DEF Distinct
  <2> QED BY <2>1
<1>3. \A k : Holds(Tail(list), k) => Holds(list, k) /\ k # Head(list)
  BY <1>1 DEF Holds, Distinct
<1>4. Tail(list) = <<>> <=> Len(list) = 1
  <2>1. Len(Tail(list)) = 0 <=> Tail(list) = <<>> BY <1>1, EmptySeq
  <2> QED BY <1>1, <2>1
<1> QED BY <1>1, <1>2, <1>3, <1>4 DEF Holds

(***************************************************************************)
(* The jobs and what has become of their output.                           *)
(***************************************************************************)
(* The lists of the rig, and of a round, hold jobs that are not yet reaped. *)
Live(list) ==
  Distinct(list) /\ \A j : Holds(list, j) => job[j].child \in {"running", "exited"}

InRound == pc \in {"handle", "read", "commit", "stop", "wait"}

ListInv ==
  /\ job = [j \in Jobs |-> job[j]] /\ \A j \in Jobs : job[j] \in Job
  /\ tracks \in Seq(Tracks) /\ Live(tracks)
  /\ excrates \in Seq(Crates) /\ Live(excrates)
  /\ todo \in Seq(Jobs) /\ Live(todo)
  /\ todo # <<>> <=> InRound

(* The lines up to a byte.                                                 *)
LinesUpto(ends, p) == [n \in 1 .. Cardinality(Upto(ends, p)) |-> Line(ends, n)]

(* A listing holds the lines up to the last newline that was taken.        *)
Scanned(ends, r) ==
  /\ \A k \in ends : k \in Nat \ {0}
  /\ r.popped <= r.bytes /\ r.bytes <= r.written /\ r.bytes - r.popped <= BufSize
  /\ r.popped = 0 \/ r.popped \in ends
  /\ r.listing = LinesUpto(ends, r.popped)

(* Nothing more comes, and nothing is left in the pipe.                    *)
Exhausted(r) == r.child \in {"exited", "reaped"} /\ r.bytes = r.written

(* A job has been read to its end, or to the end of the room that it has.  *)
Ended(j, r) ==
  /\ j \in Tracks => Exhausted(r) \/ r.bytes = r.blocks * BlockBytes
  /\ j \in Crates =>
       /\ \A k \in text[j] : ~(r.popped < k /\ k <= r.bytes)
       /\ Exhausted(r) \/ r.bytes - r.popped = BufSize

Complete ==
  \A j \in Jobs :
    job[j].child = "reaped" \/ (pc \in {"stop", "wait"} /\ Head(todo) = j) => Ended(j, job[j])

EndInv == IInv /\ ListInv /\ (\A c \in Crates : Scanned(text[c], job[c])) /\ Complete

(* What a step does to the output of a job that the rig does not read.     *)
Unread(j) ==
  /\ job'[j].bytes = job[j].bytes /\ job'[j].blocks = job[j].blocks
  /\ job'[j].popped = job[j].popped /\ job'[j].listing = job[j].listing
  /\ \/ job'[j].written = job[j].written
     \/ job[j].child = "running" /\ job'[j].written = job[j].written + 1

(* A process starts, ends and is reaped.                                   *)
Follows(j) ==
  \/ job'[j].child = job[j].child
  \/ job[j].child = "none" /\ job'[j].child = "running"
  \/ job[j].child = "running" /\ job'[j].child = "exited"
  \/ Reap /\ Head(todo) = j /\ job[j].child = "exited" /\ job'[j].child = "reaped"

Step(j) == job'[j] \in Job /\ Follows(j) /\ Unread(j)

(* The lines that are taken are appended to the listing, in order.         *)
LEMMA LineTaken ==
  ASSUME NEW ends, NEW r \in Job, Scanned(ends, r), NEW e \in ends, r.popped < e,
         \A k \in ends : r.popped < k => e <= k
  PROVE  /\ Append(r.listing, <<r.popped + 1, e - 1>>) \in Seq(Nat \X Int)
         /\ Append(r.listing, <<r.popped + 1, e - 1>>) = LinesUpto(ends, e)
<1> DEFINE k == Cardinality(Upto(ends, r.popped))
           x == <<r.popped + 1, e - 1>>
           long == Append(r.listing, x)
<1>1. r.popped \in Nat /\ r.listing \in Seq(Nat \X Int) BY DEF Job
<1>2. ends \subseteq Nat \ {0} /\ e \in Nat \ {0} /\ x \in Nat \X Int
  BY <1>1 DEF Scanned
<1>3. k \in Nat /\ Cardinality(Upto(ends, e)) = k + 1 /\ Line(ends, k + 1) = x
  <2>1. r.popped = 0 \/ r.popped \in ends BY DEF Scanned
  <2>2. k \in Nat BY <1>1, <1>2, UptoFinite
  <2>3. /\ Cardinality(Upto(ends, e)) = k + 1
        /\ Line(ends, Cardinality(Upto(ends, e))) = <<r.popped + 1, e - 1>>
    BY <1>1, <1>2, <2>1, NextLine
  <2> QED BY <2>2, <2>3
<1>4. r.listing = [n \in 1 .. k |-> Line(ends, n)] BY DEF Scanned, LinesUpto
<1> HIDE DEF k, x
<1>5. Len(r.listing) = k BY <1>1, <1>3, <1>4, LenProperties
<1>6. /\ long \in Seq(Nat \X Int) /\ Len(long) = k + 1
      /\ \A n \in 1 .. k : long[n] = r.listing[n]
      /\ long[k + 1] = x
  BY <1>1, <1>2, <1>5, AppendProperties
<1>7. DOMAIN long = 1 .. k + 1 BY <1>6, LenProperties
<1>8. \A n \in 1 .. k + 1 : long[n] = Line(ends, n) BY <1>3, <1>4, <1>6
<1>9. long = [n \in 1 .. k + 1 |-> Line(ends, n)]
  <2>1. long = [n \in 1 .. k + 1 |-> long[n]] BY <1>6, <1>7, LenProperties
  <2> QED BY <1>8, <2>1
<1> QED BY <1>3, <1>6, <1>9 DEF x, LinesUpto

(* A round of a scan takes a line, waits for more, or ends the job.        *)
LEMMA ReadLineStep ==
  ASSUME EndInv, NEW c \in Crates, ReadLine(c)
  PROVE  /\ pc = "read" /\ Head(todo) = c /\ text' = text
         /\ job' = [j \in Jobs |-> job'[j]] /\ \A j \in Jobs \ {c} : job'[j] = job[j]
         /\ job'[c] \in Job /\ job'[c].child = job[c].child /\ Scanned(text[c], job'[c])
         /\ UNCHANGED listVars
         /\ \/ pc' = "stop" /\ todo' = todo /\ Ended(c, job'[c])
            \/ UNCHANGED <<pc, todo>>
            \/ Onward
<1> DEFINE r == job[c]
           got == get_line(c)
<1>1. /\ r \in Job /\ c \in Jobs /\ c \notin Tracks /\ Scanned(text[c], r)
      /\ job = [j \in Jobs |-> job[j]]
  BY RigLoopAssumption DEF EndInv, ListInv, Jobs
<1>2. /\ r.popped \in Nat /\ r.bytes \in Nat /\ r.written \in Nat /\ BufSize \in Nat
      /\ r.listing \in Seq(Nat \X Int)
  BY <1>1, RigLoopAssumption DEF Job
<1>3. /\ text[c] \subseteq Nat \ {0} /\ r.popped <= r.bytes /\ r.bytes <= r.written
      /\ r.bytes - r.popped <= BufSize /\ (r.popped = 0 \/ r.popped \in text[c])
      /\ r.listing = LinesUpto(text[c], r.popped)
  BY <1>1 DEF Scanned
<1>4. PICK u \in Nat : /\ u = top_up(c)
                       /\ u <= r.written - r.bytes /\ u <= BufSize - (r.bytes - r.popped)
                       /\ u = 0 => \/ r.written - r.bytes = 0
                                   \/ BufSize - (r.bytes - r.popped) = 0
  <2>1. top_up(c) = Smaller(r.written - r.bytes, BufSize - (r.bytes - r.popped))
    BY DEF top_up, Avail
  <2>2. r.written - r.bytes \in Nat /\ BufSize - (r.bytes - r.popped) \in Nat
    BY <1>2, <1>3
  <2>3. \A m \in Nat, n \in Nat :
          /\ Smaller(m, n) \in Nat /\ Smaller(m, n) <= m /\ Smaller(m, n) <= n
          /\ Smaller(m, n) = 0 => m = 0 \/ n = 0
    BY DEF Smaller
  <2> QED BY <2>1, <2>2, <2>3
<1>t. PICK top \in Nat : top = r.bytes + u BY <1>2
<1>u. /\ r.bytes <= top /\ top <= r.written /\ top - r.popped <= BufSize
      /\ r.popped <= top
      /\ top = r.bytes => u = 0 /\ (r.bytes = r.written \/ r.bytes - r.popped = BufSize)
  <2> DEFINE p == r.popped
             b == r.bytes
             w == r.written
  <2>1. /\ p \in Nat /\ b \in Nat /\ w \in Nat /\ BufSize \in Nat
        /\ p <= b /\ b <= w /\ b - p <= BufSize
        /\ u <= w - b /\ u <= BufSize - (b - p) /\ top = b + u
        /\ u = 0 => w - b = 0 \/ BufSize - (b - p) = 0
    BY <1>2, <1>3, <1>4, <1>t
  <2> HIDE DEF p, b, w
  <2>2. /\ b <= top /\ top <= w /\ top - p <= BufSize /\ p <= top
        /\ top = b => u = 0 /\ (b = w \/ b - p = BufSize)
    BY <2>1
  <2> QED BY <2>2 DEF p, b, w
<1> DEFINE e == EndOfLine(c, r.popped, top)
<1>5. \/ e = 0 /\ \A k \in text[c] : ~(r.popped < k /\ k <= top)
      \/ /\ e \in text[c] /\ r.popped < e /\ e <= top
         /\ \A k \in text[c] : r.popped < k => e <= k
  BY <1>2, <1>3, LineEnds
<1>6. /\ got.top = top /\ got.end = e
      /\ got.result \in {"full", "eof"} => e = 0
      /\ got.result = "full" => top - r.popped = BufSize
      /\ got.result = "eof" => top = r.bytes /\ top - r.popped # BufSize
                               /\ (Avail(c) = 0 => AtEOF(c))
      /\ got.result = "line" => e # 0
  <2> HIDE DEF e
  <2>1. got = [result |-> IF Avail(c) = 0 /\ ~AtEOF(c) THEN "again"
                          ELSE IF e # 0 THEN "line"
                          ELSE IF top - r.popped = BufSize THEN "full"
                          ELSE IF top_up(c) > 0 THEN "again" ELSE "eof",
               top |-> top, end |-> e]
    <3>1. job[c].bytes + top_up(c) = top BY <1>2, <1>4, <1>t
    <3> QED BY <3>1 DEF get_line, e
  <2>2. ~(top_up(c) > 0) => top = r.bytes
    <3>1. ~(u > 0) => u = 0 OBVIOUS
    <3> QED BY <1>2, <1>4, <1>t, <3>1
  <2> HIDE DEF got
  <2> QED BY <2>1, <2>2
<1> HIDE DEF got, e
<1> DEFINE read == [job EXCEPT ![c].bytes = top]
<1>7. /\ pc = "read" /\ Head(todo) = c /\ text' = text /\ UNCHANGED listVars
      /\ \/ got.result = "again" /\ job' = read /\ Onward
         \/ got.result \in {"full", "eof"} /\ job' = read /\ pc' = "stop" /\ todo' = todo
         \/ /\ got.result = "line" /\ UNCHANGED <<pc, todo>>
            /\ job' = [read EXCEPT ![c].popped = e,
                          ![c].listing = Append(read[c].listing, <<r.popped + 1, e - 1>>)]
  BY <1>6 DEF ReadLine, At, got, childVars
<1>8. read[c] = [r EXCEPT !.bytes = top] /\ read[c].listing = r.listing
  BY <1>1 DEF Job
<1>9. CASE job' = read
  <2>1. /\ job' = [j \in Jobs |-> job'[j]] /\ \A j \in Jobs \ {c} : job'[j] = job[j]
        /\ job'[c] = [r EXCEPT !.bytes = top]
    BY <1>1, <1>8, <1>9
  <2>2. /\ job'[c] \in Job /\ job'[c].child = r.child /\ job'[c].bytes = top
        /\ job'[c].popped = r.popped /\ job'[c].written = r.written
        /\ job'[c].listing = r.listing
    BY <1>1, <2>1 DEF Job
  <2>3. Scanned(text[c], job'[c]) BY <1>2, <1>3, <1>u, <2>2 DEF Scanned
  <2>4. got.result \in {"full", "eof"} => Ended(c, job'[c])
    <3>0. ASSUME got.result \in {"full", "eof"}
          PROVE  \A k \in text[c] : ~(job'[c].popped < k /\ k <= job'[c].bytes)
      BY <1>2, <1>3, <1>5, <1>6, <2>2, <3>0
    <3>1. CASE got.result = "full"
      <4>1. job'[c].bytes - job'[c].popped = BufSize BY <1>6, <2>2, <3>1
      <4>2. c \notin Tracks BY <1>1
      <4> QED BY <3>0, <3>1, <4>1, <4>2 DEF Ended
    <3>2. CASE got.result = "eof"
      <4>1. r.bytes = r.written BY <1>u, <1>6, <3>2
      <4>2. Avail(c) = 0 BY <1>2, <4>1 DEF Avail
      <4>3. job[c].child = "exited" BY <1>6, <3>2, <4>2 DEF AtEOF
      <4>4. Exhausted(job'[c]) BY <1>6, <2>2, <3>2, <4>1, <4>3 DEF Exhausted
      <4>5. c \notin Tracks BY <1>1
      <4> QED BY <3>0, <3>2, <4>4, <4>5 DEF Ended
    <3> QED BY <3>1, <3>2
  <2>5. got.result # "line" \/ UNCHANGED <<pc, todo>> BY <1>7
  <2> QED BY <1>7, <2>1, <2>2, <2>3, <2>4, <2>5
<1>10. CASE /\ got.result = "line" /\ UNCHANGED <<pc, todo>>
            /\ job' = [read EXCEPT ![c].popped = e,
                          ![c].listing = Append(read[c].listing, <<r.popped + 1, e - 1>>)]
  <2>1. e \in text[c] /\ r.popped < e /\ e <= top /\ e \in Nat
        /\ \A k \in text[c] : r.popped < k => e <= k
    BY <1>3, <1>5, <1>6, <1>10
  <2>2. PICK l \in Seq(Nat \X Int) :
          /\ l = Append(r.listing, <<r.popped + 1, e - 1>>)
          /\ l = LinesUpto(text[c], e)
    BY <1>1, <2>1, LineTaken
  <2>3. job' = [read EXCEPT ![c].popped = e, ![c].listing = l] BY <1>8, <1>10, <2>2
  <2>4. /\ job' = [j \in Jobs |-> job'[j]] /\ \A j \in Jobs \ {c} : job'[j] = job[j]
        /\ job'[c] = [read[c] EXCEPT !.popped = e, !.listing = l]
    BY <1>1, <2>3
  <2>5. job'[c] = [r EXCEPT !.bytes = top, !.popped = e, !.listing = l]
    BY <1>8, <2>4
  <2>6. job'[c] \in Job BY <1>1, <2>1, <2>5 DEF Job
  <2>7. /\ job'[c].child = r.child /\ job'[c].bytes = top
        /\ job'[c].popped = e /\ job'[c].written = r.written /\ job'[c].listing = l
    BY <1>1, <2>5 DEF Job
  <2>8. Scanned(text[c], job'[c])
    <3>1. e <= top /\ top - e <= BufSize BY <1>2, <1>u, <2>1, RigLoopAssumption
    <3> QED BY <1>3, <1>u, <2>1, <2>2, <2>7, <3>1 DEF Scanned
  <2> QED BY <1>7, <1>10, <2>4, <2>6, <2>7, <2>8
<1> QED BY <1>7, <1>9, <1>10

(* Every other step leaves a job unread, but for the audio of its round.   *)
LEMMA JobStep ==
  ASSUME EndInv, [Next]_vars, \A c \in Crates : ~ReadLine(c), NEW j \in Jobs
  PROVE  /\ job' = [k \in Jobs |-> job'[k]] /\ job'[j] \in Job /\ Follows(j)
         /\ Unread(j) \/ (j \in Tracks /\ ReadAudio(j))
<1> USE DEF childVars, listVars, pollVars
<1>0. job = [k \in Jobs |-> job[k]] /\ \A k \in Jobs : job[k] \in Job
  BY DEF EndInv, ListInv
<1>e. CASE job' = job BY <1>e, <1>0 DEF Follows, Unread
<1>1. CASE Fill BY <1>1, <1>e DEF Fill
<1>2. CASE Poll BY <1>2, <1>e DEF Poll
<1>3. CASE Drain BY <1>3, <1>e DEF Drain
<1>4. CASE Lock BY <1>4, <1>e DEF Lock
<1>5. CASE Handle BY <1>5, <1>e DEF Handle
<1>6. CASE Close
  <2>1. /\ job' = [k \in Jobs |-> job'[k]]
        /\ job'[j] = IF j = Head(todo) THEN [job[j] EXCEPT !.open = FALSE] ELSE job[j]
    BY <1>0, <1>6 DEF Close
  <2> QED BY <1>0, <2>1 DEF Job, Follows, Unread
<1>7. CASE Reap
  <2>1. /\ job' = [k \in Jobs |-> job'[k]] /\ job[Head(todo)].child = "exited"
        /\ job'[j] = IF j = Head(todo) THEN [job[j] EXCEPT !.child = "reaped"] ELSE job[j]
    BY <1>0, <1>7 DEF Reap
  <2> QED BY <1>0, <1>7, <2>1 DEF Job, Follows, Unread
<1>8. ASSUME NEW t \in Tracks, ReadAudio(t)
      PROVE  /\ job' = [k \in Jobs |-> job'[k]] /\ job'[j] \in Job /\ Follows(j)
             /\ Unread(j) \/ (j \in Tracks /\ ReadAudio(j))
  <2>1. IInv' BY <1>8, ReadStep DEF EndInv
  <2>2. t \in Jobs /\ job'[t] \in Job BY <2>1, Sizes DEF IInv, AudioType
  <2>3. PICK b, n : job' = [job EXCEPT ![t].blocks = b, ![t].bytes = n]
    BY <1>8 DEF ReadAudio
  <2>4. /\ job' = [k \in Jobs |-> job'[k]] /\ \A k \in Jobs \ {t} : job'[k] = job[k]
        /\ job'[t] = [job[t] EXCEPT !.blocks = b, !.bytes = n]
    BY <1>0, <2>2, <2>3
  <2>5. job'[t].child = job[t].child BY <1>0, <2>2, <2>4 DEF Job
  <2>6. CASE j = t BY <1>8, <2>2, <2>4, <2>5, <2>6 DEF Follows
  <2>7. CASE j # t BY <1>0, <2>4, <2>7 DEF Follows, Unread
  <2> QED BY <2>6, <2>7
<1>9. ASSUME NEW t \in Tracks, more_space_fails(t) PROVE job' = job
  BY <1>9 DEF more_space_fails
<1>10. ASSUME NEW t \in Tracks, Commit(t)
       PROVE  job' = [k \in Jobs |-> job'[k]] /\ job'[j] \in Job /\ Follows(j) /\ Unread(j)
  <2>1. IInv' BY <1>10, CommitStep DEF EndInv
  <2>2. t \in Jobs /\ job'[t] \in Job BY <2>1, Sizes DEF IInv, AudioType
  <2>3. PICK n : job' = [job EXCEPT ![t].length = n] BY <1>10 DEF Commit
  <2>4. /\ job' = [k \in Jobs |-> job'[k]] /\ \A k \in Jobs \ {t} : job'[k] = job[k]
        /\ job'[t] = [job[t] EXCEPT !.length = n]
    BY <1>0, <2>2, <2>3
  <2>5. CASE j = t BY <1>0, <2>2, <2>4, <2>5 DEF Job, Follows, Unread
  <2>6. CASE j # t BY <1>0, <2>4, <2>6 DEF Follows, Unread
  <2> QED BY <2>4, <2>5, <2>6
<1>12. CASE Interrupted BY <1>12, <1>e DEF Interrupted
<1>13. CASE Quit BY <1>13, <1>e DEF Quit
<1>14. ASSUME NEW i \in Jobs, Post(i)
       PROVE  job' = [k \in Jobs |-> job'[k]] /\ job'[j] \in Job /\ Follows(j) /\ Unread(j)
  <2>1. /\ job[i].child = "none" /\ job' = [k \in Jobs |-> job'[k]]
        /\ job'[j] = IF j = i THEN [job[j] EXCEPT !.child = "running", !.open = TRUE]
                      ELSE job[j]
    BY <1>0, <1>14 DEF Post, fork_pipe_nb
  <2> QED BY <1>0, <2>1 DEF Job, Follows, Unread
<1>15. ASSUME NEW i \in Jobs, Write(i)
       PROVE  job' = [k \in Jobs |-> job'[k]] /\ job'[j] \in Job /\ Follows(j) /\ Unread(j)
  <2>1. /\ job[i].child = "running" /\ job' = [k \in Jobs |-> job'[k]]
        /\ job'[j] = IF j = i THEN [job[j] EXCEPT !.written = job[i].written + 1]
                      ELSE job[j]
    BY <1>0, <1>15 DEF Write
  <2>2. CASE j = i
    <3>1. job[j].written + 1 \in Nat BY <1>0 DEF Job
    <3>2. PICK n \in Nat : n = job[j].written + 1 BY <3>1
    <3>3. job'[j] = [job[j] EXCEPT !.written = n] BY <2>1, <2>2, <3>2
    <3> QED BY <1>0, <2>1, <2>2, <3>2, <3>3 DEF Job, Follows, Unread
  <2>3. CASE j # i BY <1>0, <2>1, <2>3 DEF Follows, Unread
  <2> QED BY <2>1, <2>2, <2>3
<1>16. ASSUME NEW i \in Jobs, Exit(i) \/ Terminate(i)
       PROVE  job' = [k \in Jobs |-> job'[k]] /\ job'[j] \in Job /\ Follows(j) /\ Unread(j)
  <2>1. /\ job[i].child = "running" /\ job' = [k \in Jobs |-> job'[k]]
        /\ job'[j] = IF j = i THEN [job[j] EXCEPT !.child = "exited"] ELSE job[j]
    BY <1>0, <1>16 DEF Exit, Terminate
  <2> QED BY <1>0, <2>1 DEF Job, Follows, Unread
<1>17. CASE UNCHANGED vars BY <1>17, <1>e DEF vars
<1> QED
  BY <1>e, <1>1, <1>2, <1>3, <1>4, <1>5, <1>6, <1>7, <1>8, <1>9, <1>10, <1>12, <1>13,
     <1>14, <1>15, <1>16, <1>17
  DEF Next, Rig

(* A process that ends is not forgotten before it is reaped.               *)
LEMMA Lives ==
  ASSUME EndInv, [Next]_vars
  PROVE  /\ job' = [k \in Jobs |-> job'[k]] /\ \A j \in Jobs : job'[j] \in Job /\ Follows(j)
         /\ ~Reap => \A j \in Jobs : job[j].child \in {"running", "exited"}
                                    => job'[j].child \in {"running", "exited"}
<1>1. CASE \E c \in Crates : ReadLine(c)
  <2>1. PICK c \in Crates : ReadLine(c) BY <1>1
  <2> QED BY <2>1, ReadLineStep DEF EndInv, ListInv, Follows
<1>2. CASE \A c \in Crates : ~ReadLine(c)
  <2>1. job' = [k \in Jobs |-> job'[k]] BY AudioStep DEF EndInv, IInv, AudioType
  <2>2. \A j \in Jobs : job'[j] \in Job /\ Follows(j) BY <1>2, JobStep
  <2> QED BY <2>1, <2>2 DEF Follows
<1> QED BY <1>1, <1>2

(* The round goes on with the job after this one, or is over.              *)
LEMMA OnwardStep ==
  ASSUME EndInv, Onward, InRound
  PROVE  /\ todo' \in Seq(Jobs) /\ Distinct(todo') /\ (todo' # <<>> <=> InRound')
         /\ \A k : Holds(todo', k) => Holds(todo, k) /\ k # Head(todo)
<1>1. todo \in Seq(Jobs) /\ todo # <<>> /\ Distinct(todo)
  BY DEF EndInv, ListInv, Live
<1>2. todo' = Tail(todo) /\ pc' = IF Len(todo) = 1 THEN "fill" ELSE "handle"
  BY DEF Onward
<1>3. /\ todo' \in Seq(Jobs) /\ Distinct(todo')
      /\ (todo' = <<>> <=> Len(todo) = 1)
      /\ \A k : Holds(todo', k) => Holds(todo, k) /\ k # Head(todo)
  BY <1>1, <1>2, Tailed
<1> QED BY <1>2, <1>3 DEF InRound

(* The job of the round is one of the lists'.                              *)
LEMMA HeadLive ==
  ASSUME EndInv, InRound
  PROVE  Head(todo) \in Jobs /\ Holds(todo, Head(todo))
<1>1. todo \in Seq(Jobs) /\ todo # <<>> /\ Distinct(todo)
  BY DEF EndInv, ListInv, Live
<1> QED BY <1>1, Tailed

(* The lists of the rig and of the round keep to jobs that are not reaped. *)
LEMMA ListStep ==
  ASSUME EndInv, [Next]_vars
  PROVE  ListInv'
<1> USE DEF childVars, listVars, pollVars
<1>0. /\ tracks \in Seq(Tracks) /\ Live(tracks) /\ excrates \in Seq(Crates) /\ Live(excrates)
      /\ todo \in Seq(Jobs) /\ Live(todo) /\ (todo # <<>> <=> InRound)
  BY DEF EndInv, ListInv
<1>1. /\ job' = [k \in Jobs |-> job'[k]] /\ \A j \in Jobs : job'[j] \in Job
      /\ ~Reap => \A j \in Jobs : job[j].child \in {"running", "exited"}
                                 => job'[j].child \in {"running", "exited"}
  BY Lives
<1>2. /\ \A k : Holds(tracks, k) => k \in Jobs
      /\ \A k : Holds(excrates, k) => k \in Jobs
      /\ \A k : Holds(todo, k) => k \in Jobs
  BY <1>0 DEF Holds, Jobs
<1>l. ASSUME ~Reap, UNCHANGED listVars PROVE Live(tracks)' /\ Live(excrates)'
  BY <1>0, <1>1, <1>2, <1>l DEF Live, Distinct, Holds
<1>t. ASSUME ~Reap, UNCHANGED todo, InRound' <=> InRound
      PROVE  Live(todo)' /\ todo' \in Seq(Jobs) /\ (todo' # <<>> <=> InRound')
  BY <1>0, <1>1, <1>2, <1>t DEF Live, Distinct, Holds
<1>n. ASSUME ~Reap, Onward, InRound
      PROVE  Live(todo)' /\ todo' \in Seq(Jobs) /\ (todo' # <<>> <=> InRound')
  <2>1. /\ todo' \in Seq(Jobs) /\ Distinct(todo') /\ (todo' # <<>> <=> InRound')
        /\ \A k : Holds(todo', k) => Holds(todo, k)
    BY <1>n, OnwardStep
  <2>2. \A k : Holds(todo', k) => job'[k].child \in {"running", "exited"}
    BY <1>0, <1>1, <1>2, <1>n, <2>1 DEF Live
  <2> QED BY <2>1, <2>2 DEF Live, Distinct, Holds
<1>s. ASSUME ~Reap, UNCHANGED listVars, UNCHANGED todo, InRound' <=> InRound PROVE ListInv'
  BY <1>0, <1>1, <1>l, <1>s, <1>t DEF ListInv
<1>o. ASSUME ~Reap, UNCHANGED listVars, Onward, InRound PROVE ListInv'
  BY <1>0, <1>1, <1>l, <1>o, <1>n DEF ListInv
<1>p. pc # "wait" => ~Reap BY DEF Reap
<1>3. CASE Fill BY <1>3, <1>p, <1>s DEF Fill, InRound
<1>4. CASE Poll BY <1>4, <1>p, <1>s DEF Poll, InRound
<1>5. CASE Drain BY <1>5, <1>p, <1>s DEF Drain, InRound
<1>6. CASE Lock
  <2>1. /\ pc = "lock" /\ todo' = tracks \o excrates /\ UNCHANGED listVars
        /\ pc' = IF tracks \o excrates = <<>> THEN "fill" ELSE "handle"
    BY <1>6 DEF Lock, Listed
  <2>2. /\ tracks \o excrates \in Seq(Tracks \cup Crates) /\ Distinct(tracks \o excrates)
        /\ \A k : Holds(tracks \o excrates, k) => Holds(tracks, k) \/ Holds(excrates, k)
    BY <1>0, RigLoopAssumption, Joined DEF Live
  <2>3. ~Reap BY <2>1, <1>p
  <2>4. \A k : Holds(todo', k) => job'[k].child \in {"running", "exited"}
    BY <1>0, <1>1, <1>2, <2>1, <2>2, <2>3 DEF Live
  <2>5. /\ Live(todo)' /\ todo' \in Seq(Jobs) /\ (todo' # <<>> <=> InRound')
    BY <2>1, <2>2, <2>4 DEF Live, Distinct, Holds, Jobs, InRound
  <2> QED BY <1>0, <1>1, <1>l, <2>1, <2>3, <2>5 DEF ListInv
<1>7. CASE Handle
  <2>1. pc = "handle" /\ UNCHANGED listVars /\ ((pc' = "read" /\ todo' = todo) \/ Onward)
    BY <1>7 DEF Handle
  <2> QED BY <2>1, <1>p, <1>s, <1>o DEF InRound
<1>8. CASE Close BY <1>8, <1>p, <1>s DEF Close, InRound
<1>9. ASSUME NEW t \in Tracks, ReadAudio(t) PROVE ListInv'
  <2>1. /\ pc = "read" /\ UNCHANGED listVars
        /\ ((pc' \in {"commit", "stop"} /\ todo' = todo) \/ Onward)
    BY <1>9 DEF ReadAudio, At
  <2> QED BY <2>1, <1>p, <1>s, <1>o DEF InRound
<1>10. ASSUME NEW t \in Tracks, more_space_fails(t) PROVE ListInv'
  BY <1>10, <1>p, <1>s DEF more_space_fails, At, InRound
<1>11. ASSUME NEW t \in Tracks, Commit(t) PROVE ListInv'
  BY <1>11, <1>p, <1>s DEF Commit, InRound
<1>12. ASSUME NEW c \in Crates, ReadLine(c) PROVE ListInv'
  <2>1. /\ pc = "read" /\ UNCHANGED listVars
        /\ \/ pc' = "stop" /\ todo' = todo
           \/ UNCHANGED <<pc, todo>>
           \/ Onward
    BY <1>12, ReadLineStep
  <2> QED BY <2>1, <1>p, <1>s, <1>o DEF InRound
<1>13. CASE Interrupted BY <1>13, <1>p, <1>s DEF Interrupted, InRound
<1>14. CASE Quit
  <2>1. pc # "wait" /\ UNCHANGED listVars /\ UNCHANGED <<todo, pc, job>>
    BY <1>14 DEF Quit, RigHoldsLock
  <2> QED BY <2>1, <1>0, <1>p, <1>s DEF InRound
<1>15. ASSUME NEW j \in Jobs, Write(j) \/ Exit(j) \/ Terminate(j) PROVE ListInv'
  <2>1. UNCHANGED listVars /\ UNCHANGED <<todo, pc>> BY <1>15 DEF Write, Exit, Terminate
  <2>2. ~Reap
    <3>1. Reap => pc' # pc BY DEF Reap, Onward
    <3> QED BY <2>1, <3>1
  <2> QED BY <2>1, <2>2, <1>s DEF InRound
<1>16. CASE UNCHANGED vars
  <2>1. UNCHANGED listVars /\ UNCHANGED <<todo, pc>> BY <1>16 DEF vars
  <2>2. ~Reap
    <3>1. Reap => pc' # pc BY DEF Reap, Onward
    <3> QED BY <2>1, <3>1
  <2> QED BY <2>1, <2>2, <1>s DEF InRound
<1>17. ASSUME NEW j \in Jobs, Post(j) PROVE ListInv'
  <2>1. /\ UNCHANGED <<todo, pc>> /\ ~InRound /\ job[j].child = "none"
        /\ job' = [job EXCEPT ![j].child = "running", ![j].open = TRUE]
        /\ \/ j \in Tracks /\ tracks' = <<j>> \o tracks /\ UNCHANGED excrates
           \/ j \in Crates /\ excrates' = <<j>> \o excrates /\ UNCHANGED tracks
    BY <1>17 DEF Post, fork_pipe_nb, RigHoldsLock, InRound, Jobs
  <2>2. ~Reap BY <2>1 DEF Reap, InRound
  <2>3. ~Holds(tracks, j) /\ ~Holds(excrates, j) BY <1>0, <2>1 DEF Live
  <2>4. job'[j].child = "running" BY <2>1 DEF EndInv, ListInv, Job
  <2>5. CASE j \in Tracks /\ tracks' = <<j>> \o tracks /\ UNCHANGED excrates
    <3>1. /\ tracks' \in Seq(Tracks) /\ Distinct(tracks')
          /\ \A k : Holds(tracks', k) => Holds(tracks, k) \/ k = j
      BY <1>0, <2>3, <2>5, Pushed DEF Live
    <3>2. \A k : Holds(tracks', k) => job'[k].child \in {"running", "exited"}
      BY <1>0, <1>1, <1>2, <2>2, <2>4, <3>1 DEF Live
    <3>3. Live(tracks)' /\ Live(excrates)'
      BY <1>0, <1>1, <1>2, <2>2, <2>5, <3>1, <3>2 DEF Live, Distinct, Holds
    <3> QED BY <1>0, <1>1, <1>t, <2>1, <2>2, <2>5, <3>1, <3>3 DEF ListInv, InRound
  <2>6. CASE j \in Crates /\ excrates' = <<j>> \o excrates /\ UNCHANGED tracks
    <3>1. /\ excrates' \in Seq(Crates) /\ Distinct(excrates')
          /\ \A k : Holds(excrates', k) => Holds(excrates, k) \/ k = j
      BY <1>0, <2>3, <2>6, Pushed DEF Live
    <3>2. \A k : Holds(excrates', k) => job'[k].child \in {"running", "exited"}
      BY <1>0, <1>1, <1>2, <2>2, <2>4, <3>1 DEF Live
    <3>3. Live(tracks)' /\ Live(excrates)'
      BY <1>0, <1>1, <1>2, <2>2, <2>6, <3>1, <3>2 DEF Live, Distinct, Holds
    <3> QED BY <1>0, <1>1, <1>t, <2>1, <2>2, <2>6, <3>1, <3>3 DEF ListInv, InRound
  <2> QED BY <2>1, <2>5, <2>6
<1>18. CASE Reap
  <2> DEFINE h == Head(todo)
  <2>1. /\ tracks' = RemoveFirst(tracks, h) /\ excrates' = RemoveFirst(excrates, h)
        /\ job' = [job EXCEPT ![h].child = "reaped"] /\ Onward /\ InRound
    BY <1>18 DEF Reap, Others, InRound
  <2>2. h \in Jobs /\ \A k \in Jobs \ {h} : job'[k] = job[k]
    BY <2>1, HeadLive DEF EndInv, ListInv
  <2> HIDE DEF h
  <2>3. /\ tracks' \in Seq(Tracks) /\ Distinct(tracks')
        /\ \A k : Holds(tracks', k) => Holds(tracks, k) /\ k # h
        /\ excrates' \in Seq(Crates) /\ Distinct(excrates')
        /\ \A k : Holds(excrates', k) => Holds(excrates, k) /\ k # h
    BY <1>0, <2>1, Removed DEF Live
  <2>4. /\ todo' \in Seq(Jobs) /\ Distinct(todo') /\ (todo' # <<>> <=> InRound')
        /\ \A k : Holds(todo', k) => Holds(todo, k) /\ k # h
    BY <2>1, OnwardStep DEF h
  <2>5. /\ \A k : Holds(tracks', k) => job'[k].child \in {"running", "exited"}
        /\ \A k : Holds(excrates', k) => job'[k].child \in {"running", "exited"}
        /\ \A k : Holds(todo', k) => job'[k].child \in {"running", "exited"}
    BY <1>0, <1>2, <2>2, <2>3, <2>4 DEF Live
  <2>6. Live(tracks)' /\ Live(excrates)' /\ Live(todo)'
    BY <2>3, <2>4, <2>5 DEF Live, Distinct, Holds
  <2> QED BY <1>1, <2>3, <2>4, <2>6 DEF ListInv
<1> QED
  BY <1>3, <1>4, <1>5, <1>6, <1>7, <1>8, <1>9, <1>10, <1>11, <1>12, <1>13, <1>14, <1>15,
     <1>16, <1>17, <1>18
  DEF Next, Rig

(* The newlines of a scan are given, and its listing grows with its reads. *)
LEMMA ScanStep ==
  ASSUME EndInv, [Next]_vars, NEW c \in Crates
  PROVE  text' = text /\ Scanned(text[c], job'[c])
<1>0. c \in Jobs /\ c \notin Tracks /\ job[c] \in Job /\ Scanned(text[c], job[c])
  BY RigLoopAssumption DEF EndInv, ListInv, Jobs
<1>1. ASSUME NEW d \in Crates, ReadLine(d) PROVE text' = text /\ Scanned(text[c], job'[c])
  BY <1>0, <1>1, ReadLineStep
<1>2. ASSUME \A d \in Crates : ~ReadLine(d) PROVE text' = text /\ Scanned(text[c], job'[c])
  <2>1. text' = text
    BY <1>2 DEF Next, Rig, Fill, Poll, Drain, Lock, Handle, Close, Reap, ReadAudio,
      more_space_fails, Commit, Interrupted, Quit, Post, fork_pipe_nb, Write, Exit,
      Terminate, vars, childVars
  <2>2. Unread(c) /\ job'[c] \in Job BY <1>0, <1>2, JobStep
  <2>3. /\ job[c].written \in Nat /\ job[c].bytes \in Nat
        /\ job[c].bytes <= job[c].written => job[c].bytes <= job'[c].written
    BY <1>0, <2>2 DEF Job, Unread
  <2> QED BY <1>0, <2>1, <2>2, <2>3 DEF Scanned, Unread
<1> QED BY <1>1, <1>2

(* A job that has ended stays as it is.                                    *)
LEMMA EndedStays ==
  ASSUME NEW j \in Jobs, Unread(j), Follows(j), Ended(j, job[j]), job[j] \in Job,
         text' = text
  PROVE  Ended(j, job'[j])
<1>1. Exhausted(job[j]) => Exhausted(job'[j])
  BY DEF Exhausted, Unread, Follows
<1>2. /\ job'[j].bytes = job[j].bytes /\ job'[j].blocks = job[j].blocks
      /\ job'[j].popped = job[j].popped
  BY DEF Unread
<1> QED BY <1>1, <1>2 DEF Ended

(* A read of audio that ends its job has read all, and a job ends for want
   of room only at the end of its last block.                              *)
LEMMA AudioEnds ==
  ASSUME EndInv, NEW t \in Tracks, ReadAudio(t) \/ more_space_fails(t), pc' = "stop"
  PROVE  Ended(t, job'[t])
<1>0. /\ t \in Jobs /\ t \notin Crates /\ job[t] \in Job
      /\ job = [j \in Jobs |-> job[j]] /\ BlockBytes \in Nat \ {0}
  BY RigLoopAssumption DEF EndInv, ListInv, Jobs
<1>1. CASE ReadAudio(t)
  <2> DEFINE n == job[t].bytes + Smaller(Avail(t), Room(t))
  <2>1. AtEOF(t) /\ Avail(t) = 0 BY <1>1 DEF ReadAudio, Onward, AtEOF
  <2>2. Room(t) \in Nat
    <3>1. job[t].bytes \in Nat BY <1>0 DEF Job
    <3> QED BY <1>0, <3>1, DivMod DEF Room
  <2>3. n = job[t].bytes
    <3>1. job[t].bytes \in Nat BY <1>0 DEF Job
    <3> QED BY <2>1, <2>2, <3>1 DEF Smaller
  <2>4. PICK b : job' = [job EXCEPT ![t].blocks = b, ![t].bytes = n]
    BY <1>1 DEF ReadAudio
  <2>5. job'[t] = [job[t] EXCEPT !.blocks = b, !.bytes = n] BY <1>0, <2>4
  <2>6. /\ job'[t].child = "exited" /\ job'[t].written = job[t].written
        /\ job'[t].bytes = job[t].bytes
    BY <1>0, <2>1, <2>3, <2>5 DEF Job, AtEOF
  <2>7. job[t].written = job[t].bytes BY <1>0, <2>1 DEF Avail, Job
  <2> QED BY <1>0, <2>6, <2>7 DEF Ended, Exhausted
<1>2. CASE more_space_fails(t)
  <2>1. job' = job /\ job[t].bytes \div BlockBytes = job[t].blocks
    BY <1>2 DEF more_space_fails, Block
  <2>2. /\ job[t].bytes \in Nat /\ job[t].blocks \in Nat
        /\ job[t].bytes <= job[t].blocks * BlockBytes
    BY <1>0 DEF EndInv, IInv, PublishedIsStored, Job
  <2>3. job[t].bytes = job[t].blocks * BlockBytes BY <1>0, <2>1, <2>2, BlockOfByte
  <2> QED BY <1>0, <2>1, <2>3 DEF Ended
<1> QED BY <1>1, <1>2

(* The rig stops and reaps only a job that has ended.                      *)
LEMMA CompleteStep ==
  ASSUME EndInv, [Next]_vars
  PROVE  Complete'
<1> DEFINE Over(j) == job[j].child = "reaped" \/ (pc \in {"stop", "wait"} /\ Head(todo) = j)
<1> SUFFICES ASSUME NEW j \in Jobs, Over(j)' PROVE Ended(j, job[j])'
  BY DEF Complete
<1>0. job[j] \in Job /\ (Over(j) => Ended(j, job[j]))
  BY DEF EndInv, ListInv, Complete
<1>1. text' = text
  BY DEF Next, Rig, Fill, Poll, Drain, Lock, Handle, Close, Reap, ReadAudio, ReadLine,
    more_space_fails, Commit, Interrupted, Quit, Post, fork_pipe_nb, Write, Exit,
    Terminate, vars, childVars
<1>2. Ended(j, job'[j]) => Ended(j, job[j])' BY <1>1 DEF Ended, Exhausted
<1>3. ASSUME NEW c \in Crates, ReadLine(c) PROVE Ended(j, job'[j])
  <2>1. /\ pc = "read" /\ Head(todo) = c /\ job'[c].child = job[c].child
        /\ \A k \in Jobs \ {c} : job'[k] = job[k]
        /\ \/ pc' = "stop" /\ todo' = todo /\ Ended(c, job'[c])
           \/ UNCHANGED <<pc, todo>>
           \/ Onward
    BY <1>3, ReadLineStep
  <2>2. Holds(todo, c) BY <2>1, HeadLive DEF InRound
  <2>3. job[c].child # "reaped" BY <2>2 DEF EndInv, ListInv, Live
  <2>4. CASE j = c BY <2>1, <2>3, <2>4 DEF Onward
  <2>5. CASE j # c
    <3>1. Over(j) BY <2>1, <2>5 DEF Onward
    <3> QED BY <1>0, <2>1, <2>5, <3>1
  <2> QED BY <2>4, <2>5
<1>4. ASSUME \A c \in Crates : ~ReadLine(c) PROVE Ended(j, job'[j])
  <2>1. Follows(j) /\ (Unread(j) \/ (j \in Tracks /\ ReadAudio(j))) BY <1>4, JobStep
  <2>2. CASE j \in Tracks /\ ReadAudio(j)
    <3>1. pc = "read" /\ Head(todo) = j BY <2>2 DEF ReadAudio, At
    <3>2. job[j].child # "reaped" /\ ~Reap
      <4>1. Holds(todo, j) BY <3>1, HeadLive DEF InRound
      <4> QED BY <3>1, <4>1 DEF EndInv, ListInv, Live, Reap
    <3>3. job'[j].child # "reaped" BY <2>1, <3>2 DEF Follows
    <3>4. pc' = "stop" BY <2>2, <3>1, <3>3 DEF ReadAudio, Onward
    <3> QED BY <2>2, <3>4, AudioEnds
  <2>3. CASE Unread(j) /\ ~(j \in Tracks /\ ReadAudio(j))
    <3>1. CASE j \in Tracks /\ more_space_fails(j)
      <4>1. pc' = "stop" BY <3>1 DEF more_space_fails
      <4> QED BY <3>1, <4>1, AudioEnds
    <3>2. CASE ~(j \in Tracks /\ more_space_fails(j))
      <4>1. Over(j)
        <5>1. CASE job'[j].child = "reaped" BY <2>1, <5>1 DEF Follows, Reap
        <5>2. CASE pc' \in {"stop", "wait"} /\ Head(todo') = j
          <6>1. pc \in {"stop", "wait"} /\ todo' = todo
            BY <1>4, <2>3, <3>2, <5>2
            DEF Next, Rig, Fill, Poll, Drain, Lock, Handle, Close, Reap, ReadAudio, At,
              more_space_fails, Commit, Onward, Interrupted, Quit, Post, Write, Exit,
              Terminate, vars
          <6> QED BY <5>2, <6>1
        <5> QED BY <5>1, <5>2
      <4>2. Ended(j, job[j]) BY <1>0, <4>1
      <4> QED BY <1>0, <1>1, <2>1, <2>3, <4>2, EndedStays
    <3> QED BY <3>1, <3>2
  <2> QED BY <2>1, <2>2, <2>3
<1> QED BY <1>2, <1>3, <1>4

(* Nothing is posted at the start.                                         *)
LEMMA EndInit == Init => EndInv
<1> SUFFICES ASSUME Init PROVE EndInv OBVIOUS
<1>1. /\ job = [j \in Jobs |-> New] /\ text \in [Crates -> Texts]
      /\ tracks = <<>> /\ excrates = <<>> /\ todo = <<>> /\ pc = "fill"
  BY DEF Init
<1>2. New \in Job /\ New.child = "none" /\ New.popped = 0 /\ New.bytes = 0
      /\ New.written = 0 /\ New.listing = <<>>
  BY DEF New, Job
<1>3. ListInv
  <2>1. Len(<<>>) = 0 /\ \A S : <<>> \in Seq(S) BY EmptySeq
  <2> QED BY <1>1, <1>2, <2>1 DEF ListInv, Live, Distinct, Holds, InRound
<1>4. ASSUME NEW c \in Crates PROVE Scanned(text[c], job[c])
  <2>1. job[c] = New /\ text[c] \subseteq Nat \ {0}
    BY <1>1, RigLoopAssumption DEF Jobs
  <2>2. Upto(text[c], 0) = {} BY <2>1 DEF Upto
  <2>3. Cardinality(Upto(text[c], 0)) = 0 BY <2>2, FS_EmptySet
  <2>4. LinesUpto(text[c], 0) = <<>>
    <3>1. LinesUpto(text[c], 0) = [n \in 1 .. 0 |-> Line(text[c], n)] BY <2>3 DEF LinesUpto
    <3> QED BY <3>1
  <2> QED BY <1>2, <2>1, <2>4, RigLoopAssumption DEF Scanned
<1>5. Complete BY <1>1, <1>2 DEF Complete
<1> QED BY <1>3, <1>4, <1>5, AudioInit DEF EndInv

(* A track that ends its last block is whole: a block holds whole samples. *)
LEMMA WholeBlocks ==
  ASSUME NEW m \in Nat, NEW d \in Nat \ {0}, NEW block \in Nat \ {0}, block % d = 0
  PROVE  ((m * block) \div d) * d = m * block
<1> DEFINE q == block \div d
           n == m * block
<1>1. q \in Nat /\ block = q * d BY DivMod
<1>2. n \in Nat /\ m * q \in Nat /\ n = (m * q) * d BY <1>1
<1> HIDE DEF q, n
<1>3. /\ n \div d <= m * q
      /\ n \div d < m * q => n + (d - (n % d)) <= (m * q) * d
      /\ n \div d \in Nat /\ n % d \in 0 .. d - 1
  <2>1. m * q \in Nat /\ n <= (m * q) * d BY <1>2
  <2> QED BY <1>2, <2>1, BlockOfByte, DivMod
<1>4. n \div d = m * q BY <1>2, <1>3
<1> QED BY <1>2, <1>4 DEF n

(* A reaped job has ended, so that its track or listing is complete.       *)
LEMMA EndSafe == EndInv => NothingLost
<1> SUFFICES ASSUME EndInv PROVE NothingLost OBVIOUS
<1>1. ASSUME NEW t \in Tracks, job[t].child = "reaped"
      PROVE  \/ job[t].length = job[t].written \div SAMPLE
             \/ job[t].length * SAMPLE = job[t].blocks * BlockBytes
  <2>1. t \in Jobs /\ job[t] \in Job /\ Ended(t, job[t])
    BY <1>1 DEF EndInv, ListInv, Complete, Jobs
  <2>2. ~(pc = "commit" /\ Head(todo) = t)
    <3>1. InRound => Holds(todo, Head(todo)) BY HeadLive
    <3> QED BY <1>1, <3>1 DEF EndInv, ListInv, Live, InRound
  <2>3. job[t].length = job[t].bytes \div SAMPLE
    BY <2>2 DEF EndInv, IInv, Announced
  <2>4. job[t].blocks \in Nat BY <2>1 DEF Job
  <2>5. ((job[t].blocks * BlockBytes) \div SAMPLE) * SAMPLE = job[t].blocks * BlockBytes
    <3>1. BlockBytes % SAMPLE = 0 BY RigLoopAssumption
    <3> QED BY <2>4, <3>1, Sizes, WholeBlocks
  <2> QED BY <2>1, <2>3, <2>5 DEF Ended, Exhausted
<1>2. ASSUME NEW c \in Crates, job[c].child = "reaped"
      PROVE  \/ job[c].listing = Lines(c)
             \/ /\ job[c].bytes - job[c].popped = BufSize
                /\ EndOfLine(c, job[c].popped, job[c].bytes) = 0
                /\ job[c].listing = SubSeq(Lines(c), 1, Len(job[c].listing))
  <2> DEFINE r == job[c]
  <2>1. c \in Jobs /\ r \in Job /\ Ended(c, r) /\ Scanned(text[c], r)
    BY <1>2 DEF EndInv, ListInv, Complete, Jobs
  <2>2. r.popped \in Nat /\ r.bytes \in Nat /\ r.written \in Nat BY <2>1 DEF Job
  <2>3. /\ text[c] \subseteq Nat \ {0} /\ r.listing = LinesUpto(text[c], r.popped)
        /\ r.popped <= r.bytes /\ r.bytes <= r.written
    BY <2>1 DEF Scanned
  <2>4. /\ \A k \in text[c] : ~(r.popped < k /\ k <= r.bytes)
        /\ Exhausted(r) \/ r.bytes - r.popped = BufSize
    BY <2>1 DEF Ended
  <2>5. Lines(c) = LinesUpto(text[c], r.written) BY DEF Lines, LineNumbered, LinesUpto, Line, Numbered, Upto
  <2>6. CASE Exhausted(r)
    <3>1. r.bytes = r.written BY <2>6 DEF Exhausted
    <3>2. Upto(text[c], r.popped) = Upto(text[c], r.written)
      BY <2>2, <2>3, <2>4, <3>1 DEF Upto
    <3>3. LinesUpto(text[c], r.popped) = LinesUpto(text[c], r.written)
      <4> HIDE DEF r
      <4> QED BY <3>2, Zenon DEF LinesUpto
    <3> QED BY <2>3, <2>5, <3>3
  <2>7. CASE r.bytes - r.popped = BufSize
    <3>1. EndOfLine(c, r.popped, r.bytes) = 0
      BY <2>2, <2>3, <2>4, LineEnds
    <3> DEFINE k == Cardinality(Upto(text[c], r.popped))
               w == Cardinality(Upto(text[c], r.written))
               T == {Line(text[c], n) : n \in 1 .. w}
    <3>2. k \in Nat /\ w \in Nat /\ IsFiniteSet(Upto(text[c], r.written))
      BY <2>2, <2>3, UptoFinite
    <3>3. Upto(text[c], r.popped) \subseteq Upto(text[c], r.written)
      BY <2>2, <2>3 DEF Upto
    <3>4. k <= w BY <3>2, <3>3, FS_Subset
    <3>5. /\ LinesUpto(text[c], r.popped) = [n \in 1 .. k |-> Line(text[c], n)]
          /\ LinesUpto(text[c], r.written) = [n \in 1 .. w |-> Line(text[c], n)]
      BY DEF LinesUpto
    <3> HIDE DEF k, w
    <3>6. /\ LinesUpto(text[c], r.popped) \in Seq(T) /\ Len(LinesUpto(text[c], r.popped)) = k
          /\ LinesUpto(text[c], r.written) \in Seq(T) /\ Len(LinesUpto(text[c], r.written)) = w
      BY <3>2, <3>4, <3>5
    <3> DEFINE all == LinesUpto(text[c], r.written)
               some == LinesUpto(text[c], r.popped)
    <3>7. \A n \in 1 .. k : some[n] = all[n] /\ all[n] \in T
      BY <3>2, <3>4, <3>5
    <3> HIDE DEF all, some, T
    <3>8. some \in Seq(T) /\ Len(some) = k BY <3>6 DEF some
    <3>9. /\ SubSeq(all, 1, k) \in Seq(T) /\ Len(SubSeq(all, 1, k)) = k
          /\ \A n \in 1 .. k : SubSeq(all, 1, k)[n] = all[n]
      <4>1. /\ SubSeq(all, 1, k) \in Seq(T)
            /\ Len(SubSeq(all, 1, k)) = IF 1 <= k THEN k - 1 + 1 ELSE 0
            /\ \A n \in 1 .. k - 1 + 1 : SubSeq(all, 1, k)[n] = all[1 + n - 1]
        BY <3>2, <3>7, SubSeqProperties
      <4> QED BY <3>2, <4>1
    <3>10. some = SubSeq(all, 1, k) BY <3>7, <3>8, <3>9, SeqEqual
    <3> QED BY <2>3, <2>5, <2>7, <3>1, <3>8, <3>10 DEF all, some
  <2> QED BY <2>4, <2>6, <2>7
<1> QED BY <1>1, <1>2 DEF NothingLost

(* Whatever is posted, written, killed or cut short, and for any sizes of the
   buffers, what the process of a reaped job wrote is in its track to the last
   whole sample, or in its listing to the last whole line, unless the track ran
   out of blocks or a line filled the buffer.                              *)
THEOREM RigLosesNothing == Spec => []NothingLost
<1>1. Init => EndInv BY EndInit
<1>2. EndInv /\ [Next]_vars => EndInv'
  <2> SUFFICES ASSUME EndInv, [Next]_vars PROVE EndInv' OBVIOUS
  <2>1. IInv' BY AudioStep DEF EndInv
  <2>2. \A c \in Crates : Scanned(text[c], job[c])'
    <3> SUFFICES ASSUME NEW c \in Crates PROVE Scanned(text[c], job[c])' OBVIOUS
    <3>1. text' = text /\ Scanned(text[c], job'[c]) BY ScanStep
    <3> QED BY <3>1
  <2> QED BY <2>1, <2>2, ListStep, CompleteStep DEF EndInv
<1>3. EndInv => NothingLost BY EndSafe
<1> QED BY <1>1, <1>2, <1>3, PTL DEF Spec

===============================================================================
