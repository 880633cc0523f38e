----------------------------- MODULE SelectorProofs -----------------------------
(***************************************************************************)
(* Theorems of Selector: what the binary search and the insertion do to an *)
(* index, that the listings agree, the references of the scans, the window *)
(* and its cursor, and the view and the target that the cursor follows.    *)
(*                                                                         *)
(* What a recursive function of the model computes is shown with a set of  *)
(* the arguments for which it fails, which has no least element.           *)
(***************************************************************************)
EXTENDS Selector, FiniteSetTheorems, SequenceTheorems, WellFoundedInduction, TLAPS

-----------------------------------------------------------------------------
(* The binary search.  It calls itself on smaller parts only, so there is  *)
(* a function that does what it says, and what it returns follows by       *)
(* induction on the size of the part.                                      *)

(* A set of naturals has a least element: induction in the form of sets.   *)
LEMMA NatMin ==
  ASSUME NEW T, T \subseteq Nat, T # {}
  PROVE  \E x \in T : \A y \in T : x <= y
<1>1. PICK x \in T : \A y \in T : ~(<<y, x>> \in OpToRel(<, Nat))
  <2> HIDE DEF OpToRel
  <2> QED
    BY NatLessThanWellFounded, WFMin, Zenon
<1>2. \A y \in T : ~(y < x)
  BY <1>1 DEF OpToRel
<1> QED
  BY <1>2

Probe(at, n, base, seq, r, rank) ==
  LET mid == n \div 2
      x == seq[base + mid + 1]
  IN  IF n = 0 THEN 0
      ELSE IF rank[r] < rank[x] THEN at[mid][base]
      ELSE IF rank[r] > rank[x] THEN mid + 1 + at[n - mid - 1][base + mid + 1]
      ELSE mid

IsSearch(at, seq, r, rank) ==
  at = [n \in 0 .. Len(seq) |-> [base \in Nat |-> Probe(at, n, base, seq, r, rank)]]

Search(seq, r, rank) == CHOOSE at : IsSearch(at, seq, r, rank)

ProbedTo(at, m, seq, r, rank) ==
  /\ at \in [0 .. Len(seq) -> [Nat -> Int]]
  /\ \A n \in 0 .. Len(seq), base \in Nat :
       n < m => at[n][base] = Probe(at, n, base, seq, r, rank)

(* Both halves are smaller.                                                *)
LEMMA Halves ==
  ASSUME NEW n \in Nat \ {0}
  PROVE  /\ n \div 2 \in Nat /\ n \div 2 < n
         /\ n - n \div 2 - 1 \in Nat /\ n - n \div 2 - 1 < n
  OBVIOUS

LEMMA ProbeReadsSmaller ==
  ASSUME NEW seq, NEW r, NEW rank, Len(seq) \in Nat, NEW f, NEW g,
         NEW n \in 0 .. Len(seq), NEW base \in Nat,
         \A k \in 0 .. Len(seq) : k < n => f[k] = g[k]
  PROVE  Probe(f, n, base, seq, r, rank) = Probe(g, n, base, seq, r, rank)
<1>1. CASE n = 0
  BY <1>1 DEF Probe
<1>2. CASE n # 0
  <2>1. /\ n \div 2 \in 0 .. Len(seq) /\ n \div 2 < n
        /\ n - n \div 2 - 1 \in 0 .. Len(seq) /\ n - n \div 2 - 1 < n
    BY <1>2, Halves
  <2>2. f[n \div 2] = g[n \div 2] /\ f[n - n \div 2 - 1] = g[n - n \div 2 - 1]
    BY <2>1
  <2> QED
    BY <2>2, Zenon DEF Probe
<1> QED
  BY <1>1, <1>2

LEMMA ProbeIsInt ==
  ASSUME NEW seq, NEW r, NEW rank, Len(seq) \in Nat,
         NEW f \in [0 .. Len(seq) -> [Nat -> Int]],
         NEW n \in 0 .. Len(seq), NEW base \in Nat
  PROVE  Probe(f, n, base, seq, r, rank) \in Int
<1>1. CASE n = 0
  BY <1>1 DEF Probe
<1>2. CASE n # 0
  <2>1. /\ n \div 2 \in 0 .. Len(seq) /\ n - n \div 2 - 1 \in 0 .. Len(seq)
        /\ base + n \div 2 + 1 \in Nat /\ n \div 2 + 1 \in Int
    BY <1>2, Halves
  <2>2. f[n \div 2][base] \in Int /\ f[n - n \div 2 - 1][base + n \div 2 + 1] \in Int
    BY <2>1
  <2>3. n \div 2 + 1 + f[n - n \div 2 - 1][base + n \div 2 + 1] \in Int
    BY <2>1, <2>2
  <2> QED
    BY <2>1, <2>2, <2>3, <1>2 DEF Probe
<1> QED
  BY <1>1, <1>2

LEMMA ProbedFurther ==
  ASSUME NEW seq, NEW r, NEW rank, Len(seq) \in Nat, NEW m \in Nat, NEW f,
         ProbedTo(f, m, seq, r, rank)
  PROVE  \E g : ProbedTo(g, m + 1, seq, r, rank)
<1> DEFINE row == [base \in Nat |-> Probe(f, m, base, seq, r, rank)]
           g == [n \in 0 .. Len(seq) |-> IF n = m THEN row ELSE f[n]]
<1>1. /\ f \in [0 .. Len(seq) -> [Nat -> Int]]
      /\ \A n \in 0 .. Len(seq), base \in Nat :
           n < m => f[n][base] = Probe(f, n, base, seq, r, rank)
  BY DEF ProbedTo
<1>2. m \in 0 .. Len(seq) => row \in [Nat -> Int]
  BY <1>1, ProbeIsInt
<1>3. \A base \in Nat : row[base] = Probe(f, m, base, seq, r, rank)
  OBVIOUS
<1> HIDE DEF row
<1>4. g \in [0 .. Len(seq) -> [Nat -> Int]]
  BY <1>1, <1>2
<1>5. \A n \in 0 .. Len(seq) : g[n] = IF n = m THEN row ELSE f[n]
  OBVIOUS
<1> HIDE DEF g
<1>6. ASSUME NEW n \in 0 .. Len(seq), NEW base \in Nat, n < m + 1
      PROVE  g[n][base] = Probe(g, n, base, seq, r, rank)
  <2>1. \A k \in 0 .. Len(seq) : k < n => f[k] = g[k]
    BY <1>5, <1>6
  <2>2. Probe(f, n, base, seq, r, rank) = Probe(g, n, base, seq, r, rank)
    BY <2>1, ProbeReadsSmaller
  <2>3. CASE n = m
    BY <2>2, <2>3, <1>3, <1>5
  <2>4. CASE n # m
    BY <2>2, <2>4, <1>1, <1>5, <1>6
  <2> QED
    BY <2>3, <2>4
<1> QED
  BY <1>4, <1>6 DEF ProbedTo

LEMMA SearchExists ==
  ASSUME NEW seq, NEW r, NEW rank, Len(seq) \in Nat
  PROVE  IsSearch(Search(seq, r, rank), seq, r, rank)
<1>1. \A m \in Nat : \E f : ProbedTo(f, m, seq, r, rank)
  <2> DEFINE Bad == {m \in Nat : ~\E f : ProbedTo(f, m, seq, r, rank)}
  <2> SUFFICES ASSUME Bad # {} PROVE FALSE
    OBVIOUS
  <2>1. PICK m \in Bad : \A k \in Bad : m <= k
    BY NatMin
  <2>2. CASE m = 0
    <3> DEFINE f == [n \in 0 .. Len(seq) |-> [base \in Nat |-> 0]]
    <3>1. f \in [0 .. Len(seq) -> [Nat -> Int]]
      OBVIOUS
    <3> HIDE DEF f
    <3>2. ProbedTo(f, m, seq, r, rank)
      BY <2>2, <3>1 DEF ProbedTo
    <3> QED
      BY <3>2
  <2>3. CASE m # 0
    <3>1. m - 1 \in Nat /\ m - 1 \notin Bad /\ (m - 1) + 1 = m
      BY <2>1, <2>3
    <3>2. \E f : ProbedTo(f, (m - 1) + 1, seq, r, rank)
      BY <3>1, ProbedFurther
    <3> QED
      BY <3>1, <3>2
  <2> QED
    BY <2>2, <2>3
<1>2. PICK f : ProbedTo(f, Len(seq) + 1, seq, r, rank)
  BY <1>1
<1> DEFINE Row(n) == [base \in Nat |-> Probe(f, n, base, seq, r, rank)]
<1>3. /\ f \in [0 .. Len(seq) -> [Nat -> Int]]
      /\ \A n \in 0 .. Len(seq), base \in Nat :
           f[n][base] = Probe(f, n, base, seq, r, rank)
  BY <1>2 DEF ProbedTo
<1>4. ASSUME NEW n \in 0 .. Len(seq) PROVE f[n] = Row(n)
  BY <1>3
<1> HIDE DEF Row
<1>5. f = [n \in 0 .. Len(seq) |-> Row(n)]
  BY <1>3, <1>4
<1>6. IsSearch(f, seq, r, rank)
  BY <1>5, Zenon DEF IsSearch, Row
<1> QED
  BY <1>6, Zenon DEF Search

LEMMA SearchIs ==
  ASSUME NEW seq, NEW r, NEW rank, Len(seq) \in Nat, NEW at, at = Search(seq, r, rank)
  PROVE  /\ BinSearch(seq, r, rank) = at[Len(seq)][0]
         /\ \A n \in 0 .. Len(seq), base \in Nat :
              at[n][base] = Probe(at, n, base, seq, r, rank)
<1>1. BinSearch(seq, r, rank) = Search(seq, r, rank)[Len(seq)][0]
  BY Zenon DEF BinSearch, Search, IsSearch, Probe
<1>2. IsSearch(at, seq, r, rank)
  BY SearchExists
<1> DEFINE Row(n) == [base \in Nat |-> Probe(at, n, base, seq, r, rank)]
<1>3. at = [n \in 0 .. Len(seq) |-> Row(n)]
  BY <1>2, Zenon DEF IsSearch
<1>4. ASSUME NEW n \in 0 .. Len(seq), NEW base \in Nat
      PROVE  Row(n)[base] = Probe(at, n, base, seq, r, rank)
  OBVIOUS
<1> HIDE DEF Row
<1>5. ASSUME NEW n \in 0 .. Len(seq) PROVE at[n] = Row(n)
  BY <1>3, Zenon
<1> QED
  BY <1>1, <1>4, <1>5

(* What fails for some n up to a bound fails for a least one.              *)
LEMMA LeastFailure ==
  ASSUME NEW L \in Nat, NEW T, \A n \in T : n \in 0 .. L, T # {}
  PROVE  \E n \in T : n \in 0 .. L /\ \A k \in 0 .. L : k < n => k \notin T
<1>1. PICK n \in T : \A k \in T : n <= k
  BY NatMin
<1> QED
  BY <1>1

(* Wherever the search goes, it stays in its part.                         *)
LEMMA SearchBound ==
  ASSUME NEW seq, NEW r, NEW rank, Len(seq) \in Nat
  PROVE  BinSearch(seq, r, rank) \in 0 .. Len(seq)
<1> DEFINE at == Search(seq, r, rank)
           Bad == {n \in 0 .. Len(seq) : \E base \in Nat : at[n][base] \notin 0 .. n}
<1>1. /\ BinSearch(seq, r, rank) = at[Len(seq)][0]
      /\ \A n \in 0 .. Len(seq), base \in Nat :
           at[n][base] = Probe(at, n, base, seq, r, rank)
  BY SearchIs
<1> HIDE DEF at
<1>2. Bad = {}
  <2> SUFFICES ASSUME Bad # {} PROVE FALSE
    OBVIOUS
  <2>0. \A n : n \in Bad <=> n \in 0 .. Len(seq) /\ \E base \in Nat : at[n][base] \notin 0 .. n
    OBVIOUS
  <2> HIDE DEF Bad
  <2>1. PICK n \in 0 .. Len(seq) : n \in Bad /\ \A k \in 0 .. Len(seq) : k < n => k \notin Bad
    BY <2>0, LeastFailure
  <2>2. PICK base \in Nat : at[n][base] \notin 0 .. n
    BY <2>0, <2>1
  <2>3. at[n][base] = Probe(at, n, base, seq, r, rank)
    BY <1>1
  <2>4. n # 0
    BY <2>2, <2>3 DEF Probe
  <2>5. /\ n \div 2 \in 0 .. Len(seq) /\ n \div 2 < n
        /\ n - n \div 2 - 1 \in 0 .. Len(seq) /\ n - n \div 2 - 1 < n
        /\ base + n \div 2 + 1 \in Nat
    BY <2>4, Halves
  <2>6. n \div 2 \notin Bad /\ n - n \div 2 - 1 \notin Bad
    BY <2>1, <2>5
  <2>7. at[n \div 2][base] \in 0 .. n \div 2
    BY <2>0, <2>5, <2>6
  <2>8. at[n - n \div 2 - 1][base + n \div 2 + 1] \in 0 .. n - n \div 2 - 1
    BY <2>0, <2>5, <2>6
  <2>9. Probe(at, n, base, seq, r, rank)
          \in {at[n \div 2][base], n \div 2,
               n \div 2 + 1 + at[n - n \div 2 - 1][base + n \div 2 + 1]}
    BY <2>4, Zenon DEF Probe
  <2> QED
    BY <2>2, <2>3, <2>5, <2>7, <2>8, <2>9
<1> QED
  BY <1>1, <1>2

(* z is where the entries of a part that go before r end.                  *)
Splits(z, n, base, seq, r, rank) ==
  /\ z \in 0 .. n
  /\ \A i \in 1 .. Len(seq) : base < i /\ i <= base + z => rank[seq[i]] < rank[r]
  /\ \A i \in 1 .. Len(seq) : base + z < i /\ i <= base + n => rank[r] <= rank[seq[i]]

LEMMA SplitsFurther ==
  ASSUME NEW rank \in [Records -> Int], NEW seq \in Seq(Records), NEW r \in Records,
         IsSortedBy(seq, rank), NEW at, NEW n \in Nat, n # 0, NEW base \in Nat,
         base + n <= Len(seq), at[n][base] = Probe(at, n, base, seq, r, rank),
         \A k \in 0 .. Len(seq), b \in Nat :
           k < n /\ b + k <= Len(seq) => Splits(at[k][b], k, b, seq, r, rank)
  PROVE  Splits(at[n][base], n, base, seq, r, rank)
<1>0. /\ Len(seq) \in Nat /\ DOMAIN seq = 1 .. Len(seq)
      /\ rank[r] \in Int /\ \A i \in 1 .. Len(seq) : rank[seq[i]] \in Int
  OBVIOUS
<1>1. \A i, j \in 1 .. Len(seq) : i < j => rank[seq[i]] < rank[seq[j]]
  BY <1>0, Zenon DEF IsSortedBy
<1> DEFINE mid == n \div 2
           rest == n - mid - 1
           m == base + mid + 1
<1>2. /\ mid \in Nat /\ mid < n /\ rest \in Nat /\ rest < n /\ n = mid + 1 + rest
      /\ m = base + mid + 1
  BY Halves
<1>3. at[n][base] = IF rank[r] < rank[seq[m]] THEN at[mid][base]
                    ELSE IF rank[r] > rank[seq[m]] THEN mid + 1 + at[rest][m]
                    ELSE mid
  BY Zenon DEF Probe
<1> HIDE DEF mid, rest, m
<1>4. m \in 1 .. Len(seq)
  BY <1>0, <1>2
<1>5. /\ \A i \in 1 .. Len(seq) : i < m => rank[seq[i]] < rank[seq[m]]
      /\ \A i \in 1 .. Len(seq) : m < i => rank[seq[m]] < rank[seq[i]]
      /\ rank[seq[m]] \in Int
  BY <1>0, <1>1, <1>4
<1>6. /\ mid \in 0 .. Len(seq) /\ base + mid <= Len(seq)
      /\ rest \in 0 .. Len(seq) /\ m \in Nat /\ m + rest <= Len(seq)
  BY <1>0, <1>2
<1>7. /\ Splits(at[mid][base], mid, base, seq, r, rank)
      /\ Splits(at[rest][m], rest, m, seq, r, rank)
  BY <1>2, <1>6
<1>8. CASE rank[r] < rank[seq[m]]
  <2>1. PICK z \in 0 .. mid :
          /\ z = at[mid][base]
          /\ \A i \in 1 .. Len(seq) : base < i /\ i <= base + z => rank[seq[i]] < rank[r]
          /\ \A i \in 1 .. Len(seq) : base + z < i /\ i <= base + mid => rank[r] <= rank[seq[i]]
    BY <1>7 DEF Splits
  <2>2. \A i \in 1 .. Len(seq) : m <= i => rank[r] <= rank[seq[i]]
    BY <1>0, <1>4, <1>5, <1>8
  <2>3. Splits(z, n, base, seq, r, rank)
    BY <1>0, <1>2, <2>1, <2>2 DEF Splits
  <2> QED
    BY <1>3, <1>8, <2>1, <2>3
<1>9. CASE rank[r] > rank[seq[m]]
  <2>1. PICK z \in 0 .. rest :
          /\ z = at[rest][m]
          /\ \A i \in 1 .. Len(seq) : m < i /\ i <= m + z => rank[seq[i]] < rank[r]
          /\ \A i \in 1 .. Len(seq) : m + z < i /\ i <= m + rest => rank[r] <= rank[seq[i]]
    BY <1>7 DEF Splits
  <2>2. \A i \in 1 .. Len(seq) : i <= m => rank[seq[i]] < rank[r]
    BY <1>0, <1>4, <1>5, <1>9
  <2>3. Splits(mid + 1 + z, n, base, seq, r, rank)
    <3>0. z \in Nat /\ z <= rest
      BY <1>2
    <3>1. /\ mid + 1 + z \in 0 .. n
          /\ base + (mid + 1 + z) = m + z /\ base + n = m + rest
      BY <1>2, <3>0
    <3>2. \A i \in 1 .. Len(seq) : i <= m + z => rank[seq[i]] < rank[r]
      BY <1>2, <2>1, <2>2
    <3> QED
      BY <2>1, <3>1, <3>2 DEF Splits
  <2> QED
    BY <1>0, <1>3, <1>5, <1>9, <2>1, <2>3
<1>10. CASE rank[r] = rank[seq[m]]
  <2>0. /\ \A i \in 1 .. Len(seq) : i < m => rank[seq[i]] < rank[r]
        /\ \A i \in 1 .. Len(seq) : m <= i => rank[r] <= rank[seq[i]]
    BY <1>0, <1>4, <1>5, <1>10
  <2>1. Splits(mid, n, base, seq, r, rank)
    BY <1>2, <2>0 DEF Splits
  <2> QED
    BY <1>0, <1>3, <1>10, <2>1
<1> QED
  BY <1>0, <1>5, <1>8, <1>9, <1>10

LEMMA SearchSplits ==
  ASSUME NEW rank \in [Records -> Int], NEW seq \in Seq(Records), NEW r \in Records,
         IsSortedBy(seq, rank)
  PROVE  Splits(BinSearch(seq, r, rank), Len(seq), 0, seq, r, rank)
<1> DEFINE at == Search(seq, r, rank)
           Bad == {n \in 0 .. Len(seq) :
                     \E b \in Nat : /\ b + n <= Len(seq)
                                    /\ ~Splits(at[n][b], n, b, seq, r, rank)}
<1>0. Len(seq) \in Nat
  OBVIOUS
<1>1. /\ BinSearch(seq, r, rank) = at[Len(seq)][0]
      /\ \A n \in 0 .. Len(seq), base \in Nat :
           at[n][base] = Probe(at, n, base, seq, r, rank)
  BY SearchIs, <1>0
<1> HIDE DEF at
<1>2. Bad = {}
  <2> SUFFICES ASSUME Bad # {} PROVE FALSE
    OBVIOUS
  <2>0. \A n : n \in Bad <=> /\ n \in 0 .. Len(seq)
                             /\ \E b \in Nat : /\ b + n <= Len(seq)
                                              /\ ~Splits(at[n][b], n, b, seq, r, rank)
    OBVIOUS
  <2> HIDE DEF Bad
  <2>1. PICK n \in 0 .. Len(seq) : n \in Bad /\ \A k \in 0 .. Len(seq) : k < n => k \notin Bad
    BY <1>0, <2>0, LeastFailure
  <2>2. PICK base \in Nat : base + n <= Len(seq) /\ ~Splits(at[n][base], n, base, seq, r, rank)
    BY <2>0, <2>1
  <2>3. at[n][base] = Probe(at, n, base, seq, r, rank)
    BY <1>1
  <2>4. \A k \in 0 .. Len(seq), b \in Nat :
          k < n /\ b + k <= Len(seq) => Splits(at[k][b], k, b, seq, r, rank)
    BY <2>0, <2>1
  <2>5. CASE n = 0
    BY <2>2, <2>3, <2>5, <1>0 DEF Probe, Splits
  <2>6. CASE n # 0
    <3>1. n \in Nat /\ base + n <= Len(seq)
      BY <2>2
    <3>2. Splits(at[n][base], n, base, seq, r, rank)
      BY <2>3, <2>4, <2>6, <3>1, SplitsFurther
    <3> QED
      BY <2>2, <3>2
  <2> QED
    BY <2>5, <2>6
<1> QED
  BY <1>0, <1>1, <1>2

-----------------------------------------------------------------------------
(* Sorted sequences and listings.                                          *)

LEMMA InsertAtIs ==
  ASSUME NEW S, NEW seq \in Seq(S), NEW z \in 0 .. Len(seq), NEW r \in S
  PROVE  LET t == InsertAt(seq, z + 1, r)
         IN  /\ t \in Seq(S) /\ Len(t) = Len(seq) + 1
             /\ \A i \in 1 .. Len(seq) + 1 :
                  t[i] = IF i <= z THEN seq[i] ELSE IF i = z + 1 THEN r ELSE seq[i - 1]
<1> DEFINE t == InsertAt(seq, z + 1, r)
           a == SubSeq(seq, 1, z)
           b == SubSeq(seq, z + 1, Len(seq))
<1>0. Len(seq) \in Nat /\ z \in Nat /\ z <= Len(seq)
  OBVIOUS
<1>1. t = (a \o <<r>>) \o b
  <2>1. (z + 1) - 1 = z
    BY <1>0
  <2> QED
    BY <2>1 DEF InsertAt
<1>2. /\ a \in Seq(S) /\ Len(a) = z
      /\ \A i \in 1 .. z : a[i] = seq[i]
  BY <1>0, SubSeqProperties
<1>3. /\ b \in Seq(S) /\ Len(b) = Len(seq) - z
      /\ \A i \in 1 .. Len(seq) - z : b[i] = seq[z + i]
  BY <1>0, SubSeqProperties
<1> HIDE DEF a, b, t
<1> DEFINE c == a \o <<r>>
<1>4. /\ <<r>> \in Seq(S) /\ Len(<<r>>) = 1 /\ <<r>>[1] = r
  OBVIOUS
<1>5. /\ c \in Seq(S) /\ Len(c) = z + 1
      /\ \A i \in 1 .. z : c[i] = seq[i]
      /\ c[z + 1] = r
  BY <1>0, <1>2, <1>4, ConcatProperties
<1>6. t = c \o b
  BY <1>1
<1> HIDE DEF c
<1>7. /\ t \in Seq(S) /\ Len(t) = Len(c) + Len(b)
      /\ \A i \in 1 .. Len(c) + Len(b) :
           t[i] = IF i <= Len(c) THEN c[i] ELSE b[i - Len(c)]
  BY <1>3, <1>5, <1>6, ConcatProperties, Zenon
<1>8. /\ t \in Seq(S) /\ Len(t) = Len(seq) + 1
      /\ \A i \in 1 .. Len(seq) + 1 :
           t[i] = IF i <= z THEN seq[i] ELSE IF i = z + 1 THEN r ELSE seq[i - 1]
  <2>1. Len(c) = z + 1 /\ Len(b) = Len(seq) - z /\ Len(c) + Len(b) = Len(seq) + 1
    BY <1>0, <1>3, <1>5
  <2>2. ASSUME NEW i \in 1 .. Len(seq) + 1
        PROVE  t[i] = IF i <= z THEN seq[i] ELSE IF i = z + 1 THEN r ELSE seq[i - 1]
    <3>1. t[i] = IF i <= z + 1 THEN c[i] ELSE b[i - (z + 1)]
      BY <1>7, <2>1
    <3>2. CASE i <= z + 1
      BY <1>0, <1>5, <3>1, <3>2
    <3>3. CASE z + 1 < i
      <4>1. i - (z + 1) \in 1 .. Len(seq) - z /\ z + (i - (z + 1)) = i - 1
        BY <1>0, <3>3
      <4>2. b[i - (z + 1)] = seq[i - 1]
        BY <1>3, <4>1
      <4> QED
        BY <1>0, <3>1, <3>3, <4>2
    <3> QED
      BY <1>0, <3>2, <3>3
  <2> QED
    BY <1>7, <2>1, <2>2
<1> QED
  BY <1>8 DEF t

LEMMA SortedRank ==
  ASSUME NEW rank \in [Records -> Int], NEW seq \in Seq(Records), IsSortedBy(seq, rank)
  PROVE  /\ Len(seq) \in Nat /\ DOMAIN seq = 1 .. Len(seq)
         /\ \A i \in 1 .. Len(seq) : seq[i] \in Records /\ rank[seq[i]] \in Int
         /\ \A i, j \in 1 .. Len(seq) : i < j => rank[seq[i]] < rank[seq[j]]
         /\ \A x : x \in ToSet(seq) <=> \E i \in 1 .. Len(seq) : seq[i] = x
<1>1. /\ Len(seq) \in Nat /\ DOMAIN seq = 1 .. Len(seq)
      /\ \A i \in 1 .. Len(seq) : seq[i] \in Records /\ rank[seq[i]] \in Int
  OBVIOUS
<1>2. \A i, j \in 1 .. Len(seq) : i < j => rank[seq[i]] < rank[seq[j]]
  BY <1>1, Zenon DEF IsSortedBy
<1>3. \A x : x \in ToSet(seq) <=> \E i \in 1 .. Len(seq) : seq[i] = x
  BY <1>1 DEF ToSet
<1> QED
  BY <1>1, <1>2, <1>3

(* What the search finds is what is there.                                 *)
LEMMA FoundIsThere ==
  ASSUME NEW rank \in [Records -> Int], IsInjective(rank),
         NEW seq \in Seq(Records), NEW r \in Records, IsSortedBy(seq, rank)
  PROVE  Found(seq, r, rank) <=> r \in ToSet(seq)
<1> DEFINE z == BinSearch(seq, r, rank)
<1>1. Splits(z, Len(seq), 0, seq, r, rank)
  BY SearchSplits
<1>2. Found(seq, r, rank) <=> (z < Len(seq) /\ seq[z + 1] = r)
  BY DEF Found
<1> HIDE DEF z
<1>3. /\ z \in 0 .. Len(seq)
      /\ \A i \in 1 .. Len(seq) : i <= z => rank[seq[i]] < rank[r]
      /\ \A i \in 1 .. Len(seq) : z < i => rank[r] <= rank[seq[i]]
  BY <1>1, SortedRank DEF Splits
<1>4. ASSUME z < Len(seq), seq[z + 1] = r PROVE r \in ToSet(seq)
  <2>1. z + 1 \in 1 .. Len(seq)
    BY <1>3, <1>4, SortedRank
  <2> QED
    BY <2>1, <1>4, SortedRank
<1>5. ASSUME r \in ToSet(seq) PROVE z < Len(seq) /\ seq[z + 1] = r
  <2>1. PICK i \in 1 .. Len(seq) : seq[i] = r
    BY <1>5, SortedRank
  <2>2. rank[r] \in Int
    OBVIOUS
  <2>3. z < i /\ z + 1 \in 1 .. Len(seq) /\ z < Len(seq)
    BY <1>3, <2>1, <2>2, SortedRank
  <2>4. rank[r] <= rank[seq[z + 1]]
    BY <1>3, <2>3
  <2>5. z + 1 < i => rank[seq[z + 1]] < rank[r]
    BY <2>1, <2>3, SortedRank
  <2>6. rank[seq[z + 1]] \in Int
    BY <2>3, SortedRank
  <2>7. z + 1 = i
    BY <1>3, <2>2, <2>3, <2>4, <2>5, <2>6
  <2> QED
    BY <2>1, <2>3, <2>7
<1> QED
  BY <1>2, <1>4, <1>5

(* index_insert() keeps the order, and adds what is not there.             *)
LEMMA Inserted ==
  ASSUME NEW rank \in [Records -> Int], IsInjective(rank),
         NEW seq \in Seq(Records), NEW r \in Records, IsSortedBy(seq, rank)
  PROVE  /\ Insert(seq, r, rank) \in Seq(Records) /\ IsSortedBy(Insert(seq, r, rank), rank)
         /\ ToSet(Insert(seq, r, rank)) = ToSet(seq) \cup {r}
<1> DEFINE t == Insert(seq, r, rank)
<1>1. CASE Found(seq, r, rank)
  <2>1. t = seq /\ r \in ToSet(seq)
    BY <1>1, FoundIsThere DEF Insert
  <2> QED
    BY <2>1
<1>2. CASE ~Found(seq, r, rank)
  <2> DEFINE z == BinSearch(seq, r, rank)
  <2>1. Splits(z, Len(seq), 0, seq, r, rank)
    BY SearchSplits
  <2>2. t = InsertAt(seq, z + 1, r)
    BY <1>2 DEF Insert
  <2> HIDE DEF z, t
  <2>3. /\ z \in 0 .. Len(seq)
        /\ \A i \in 1 .. Len(seq) : i <= z => rank[seq[i]] < rank[r]
        /\ \A i \in 1 .. Len(seq) : z < i => rank[r] <= rank[seq[i]]
    BY <2>1, SortedRank DEF Splits
  <2>4. \A i \in 1 .. Len(seq) : seq[i] # r
    BY <1>2, FoundIsThere, SortedRank
  <2>5. \A i \in 1 .. Len(seq) : rank[seq[i]] # rank[r]
    BY <2>4, SortedRank DEF IsInjective
  <2>6. /\ t \in Seq(Records) /\ Len(t) = Len(seq) + 1
        /\ \A i \in 1 .. Len(seq) + 1 :
             t[i] = IF i <= z THEN seq[i] ELSE IF i = z + 1 THEN r ELSE seq[i - 1]
    <3>1. LET u == InsertAt(seq, z + 1, r)
          IN  /\ u \in Seq(Records) /\ Len(u) = Len(seq) + 1
              /\ \A i \in 1 .. Len(seq) + 1 :
                   u[i] = IF i <= z THEN seq[i] ELSE IF i = z + 1 THEN r ELSE seq[i - 1]
      <4>1. z \in 0 .. Len(seq) /\ seq \in Seq(Records) /\ r \in Records
        BY <2>3
      <4>2. \A R : \A q \in Seq(R) : \A n \in 0 .. Len(q) : \A x \in R :
               LET u == InsertAt(q, n + 1, x)
               IN  /\ u \in Seq(R) /\ Len(u) = Len(q) + 1
                   /\ \A i \in 1 .. Len(q) + 1 :
                        u[i] = IF i <= n THEN q[i] ELSE IF i = n + 1 THEN x ELSE q[i - 1]
        BY InsertAtIs
      <4>3. \A q \in Seq(Records) : \A n \in 0 .. Len(q) : \A x \in Records :
               LET u == InsertAt(q, n + 1, x)
               IN  /\ u \in Seq(Records) /\ Len(u) = Len(q) + 1
                   /\ \A i \in 1 .. Len(q) + 1 :
                        u[i] = IF i <= n THEN q[i] ELSE IF i = n + 1 THEN x ELSE q[i - 1]
        BY <4>2
      <4> QED
        BY <4>1, <4>3, Zenon
    <3> QED
      BY <2>2, <3>1
  <2>7. /\ Len(seq) \in Nat /\ DOMAIN t = 1 .. Len(seq) + 1 /\ rank[r] \in Int
        /\ \A i \in 1 .. Len(seq) : rank[seq[i]] \in Int
    BY <2>6, SortedRank
  <2>8. IsSortedBy(t, rank)
    <3> SUFFICES ASSUME NEW i \in 1 .. Len(seq) + 1, NEW j \in 1 .. Len(seq) + 1, i < j
                 PROVE  rank[t[i]] < rank[t[j]]
      BY <2>7, Zenon DEF IsSortedBy
    <3>0. \A k, l \in 1 .. Len(seq) : k < l => rank[seq[k]] < rank[seq[l]]
      BY SortedRank
    <3>1. CASE j <= z
      <4>1. t[i] = seq[i] /\ t[j] = seq[j] /\ i \in 1 .. Len(seq) /\ j \in 1 .. Len(seq)
        BY <2>3, <2>6, <2>7, <3>1
      <4> QED
        BY <4>1, <3>0
    <3>2. CASE j = z + 1
      <4>1. t[i] = seq[i] /\ t[j] = r /\ i \in 1 .. Len(seq) /\ i <= z
        BY <2>3, <2>6, <2>7, <3>2
      <4> QED
        BY <4>1, <2>3
    <3>3. CASE z + 1 < j
      <4>1. t[j] = seq[j - 1] /\ j - 1 \in 1 .. Len(seq) /\ z < j - 1
        BY <2>3, <2>6, <2>7, <3>3
      <4>2. rank[r] < rank[seq[j - 1]]
        BY <4>1, <2>3, <2>5, <2>7
      <4>3. CASE i <= z
        <5>1. t[i] = seq[i] /\ i \in 1 .. Len(seq) /\ i < j - 1
          BY <4>1, <4>3, <2>3, <2>6, <2>7
        <5> QED
          BY <4>1, <5>1, <3>0
      <4>4. CASE i = z + 1
        <5>1. t[i] = r
          BY <4>4, <2>3, <2>6, <2>7
        <5> QED
          BY <4>1, <4>2, <5>1
      <4>5. CASE z + 1 < i
        <5>1. t[i] = seq[i - 1] /\ i - 1 \in 1 .. Len(seq) /\ i - 1 < j - 1
          BY <4>5, <2>3, <2>6, <2>7
        <5> QED
          BY <4>1, <5>1, <3>0
      <4> QED
        BY <4>3, <4>4, <4>5, <2>3
    <3> QED
      BY <3>1, <3>2, <3>3, <2>3
  <2>9. ToSet(t) = ToSet(seq) \cup {r}
    <3>1. \A x : x \in ToSet(t) <=> \E i \in 1 .. Len(seq) + 1 : t[i] = x
      BY <2>7 DEF ToSet
    <3>2. \A x : x \in ToSet(seq) <=> \E i \in 1 .. Len(seq) : seq[i] = x
      BY SortedRank
    <3>3. ASSUME NEW i \in 1 .. Len(seq) + 1
          PROVE  t[i] = r \/ \E k \in 1 .. Len(seq) : t[i] = seq[k]
      BY <2>3, <2>6, <2>7
    <3>4. ASSUME NEW k \in 1 .. Len(seq)
          PROVE  \E i \in 1 .. Len(seq) + 1 : t[i] = seq[k]
      <4>1. CASE k <= z
        <5>1. k \in 1 .. Len(seq) + 1 /\ t[k] = seq[k]
          BY <4>1, <2>3, <2>6, <2>7
        <5> QED
          BY <5>1
      <4>2. CASE z < k
        <5>1. k + 1 \in 1 .. Len(seq) + 1 /\ t[k + 1] = seq[k]
          <6>1. /\ k + 1 \in 1 .. Len(seq) + 1 /\ ~(k + 1 <= z) /\ k + 1 # z + 1
                /\ (k + 1) - 1 = k
            BY <4>2, <2>3, <2>7
          <6> QED
            BY <6>1, <2>6
        <5> QED
          BY <5>1
      <4> QED
        BY <4>1, <4>2, <2>3
    <3>5. z + 1 \in 1 .. Len(seq) + 1 /\ t[z + 1] = r
      BY <2>3, <2>6, <2>7
    <3> QED
      BY <3>1, <3>2, <3>3, <3>4, <3>5
  <2> QED
    BY <2>6, <2>8, <2>9 DEF t
<1> QED
  BY <1>1, <1>2

ListingType == [by_artist : Seq(Records), by_bpm : Seq(Records), by_order : Seq(Records)]

(* listing_add() keeps the three indexes in agreement.                     *)
LEMMA AddedListing ==
  ASSUME NEW l \in ListingType, IsListing(l), NEW r \in Records
  PROVE  LET m == Added(l, r) IN
         /\ m \in ListingType /\ IsListing(m)
         /\ ToSet(m.by_order) = ToSet(l.by_order) \cup {r}
         /\ r \in ToSet(l.by_order) => m = l
         /\ r \notin ToSet(l.by_order) =>
              /\ m.by_artist = Insert(l.by_artist, r, ARTIST)
              /\ m.by_bpm = Insert(l.by_bpm, r, BPM)
              /\ m.by_order = Append(l.by_order, r)
<1> DEFINE m == Added(l, r)
<1>0. /\ ARTIST \in [Records -> Int] /\ IsInjective(ARTIST)
      /\ BPM \in [Records -> Int] /\ IsInjective(BPM)
  BY ListingsAssumption
<1>1. /\ l.by_artist \in Seq(Records) /\ IsSortedBy(l.by_artist, ARTIST)
      /\ l.by_bpm \in Seq(Records) /\ IsSortedBy(l.by_bpm, BPM)
      /\ l.by_order \in Seq(Records) /\ IsInjective(l.by_order)
      /\ ToSet(l.by_artist) = ToSet(l.by_order) /\ ToSet(l.by_bpm) = ToSet(l.by_order)
  BY DEF ListingType, IsListing
<1>2. Found(l.by_artist, r, ARTIST) <=> r \in ToSet(l.by_order)
  BY <1>0, <1>1, FoundIsThere
<1>3. CASE r \in ToSet(l.by_order)
  <2>1. m = l
    BY <1>2, <1>3 DEF Added
  <2> QED
    BY <2>1, <1>3
<1>4. CASE r \notin ToSet(l.by_order)
  <2> DEFINE a == Insert(l.by_artist, r, ARTIST)
             b == Insert(l.by_bpm, r, BPM)
             o == Append(l.by_order, r)
  <2>1. m = [by_artist |-> a, by_bpm |-> b, by_order |-> o]
    BY <1>2, <1>4 DEF Added
  <2>2. /\ a \in Seq(Records) /\ IsSortedBy(a, ARTIST) /\ ToSet(a) = ToSet(l.by_artist) \cup {r}
    BY <1>0, <1>1, Inserted
  <2>3. /\ b \in Seq(Records) /\ IsSortedBy(b, BPM) /\ ToSet(b) = ToSet(l.by_bpm) \cup {r}
    BY <1>0, <1>1, Inserted
  <2>4. o \in Seq(Records) /\ IsInjective(o) /\ ToSet(o) = ToSet(l.by_order) \cup {r}
    <3>1. /\ o \in Seq(Records) /\ Len(o) = Len(l.by_order) + 1
          /\ \A i \in 1 .. Len(l.by_order) : o[i] = l.by_order[i]
          /\ o[Len(l.by_order) + 1] = r
          /\ Len(l.by_order) \in Nat
          /\ DOMAIN o = 1 .. Len(l.by_order) + 1
          /\ DOMAIN l.by_order = 1 .. Len(l.by_order)
      BY <1>1, AppendProperties
    <3> HIDE DEF o
    <3>2. \A i \in 1 .. Len(l.by_order) : l.by_order[i] # r
      BY <1>4, <3>1 DEF ToSet
    <3>3. \A i, j \in 1 .. Len(l.by_order) : l.by_order[i] = l.by_order[j] => i = j
      BY <1>1, <3>1 DEF IsInjective
    <3>4. IsInjective(o)
      <4> SUFFICES ASSUME NEW i \in 1 .. Len(l.by_order) + 1, NEW j \in 1 .. Len(l.by_order) + 1,
                          o[i] = o[j]
                   PROVE  i = j
        BY <3>1 DEF IsInjective
      <4> QED
        BY <3>1, <3>2, <3>3
    <3>5. ToSet(o) = ToSet(l.by_order) \cup {r}
      <4>1. \A x : x \in ToSet(o) <=> \E i \in 1 .. Len(l.by_order) + 1 : o[i] = x
        BY <3>1 DEF ToSet
      <4>2. \A x : x \in ToSet(l.by_order) <=> \E i \in 1 .. Len(l.by_order) : l.by_order[i] = x
        BY <3>1 DEF ToSet
      <4>3. \A i \in 1 .. Len(l.by_order) + 1 :
              i \in 1 .. Len(l.by_order) \/ i = Len(l.by_order) + 1
        BY <3>1
      <4>4. \A i \in 1 .. Len(l.by_order) : i \in 1 .. Len(l.by_order) + 1
        BY <3>1
      <4>5. Len(l.by_order) + 1 \in 1 .. Len(l.by_order) + 1
        BY <3>1
      <4> QED
        BY <3>1, <4>1, <4>2, <4>3, <4>4, <4>5
    <3> QED
      BY <3>1, <3>4, <3>5
  <2> HIDE DEF a, b, o, m
  <2>5. m \in ListingType /\ m.by_artist = a /\ m.by_bpm = b /\ m.by_order = o
    BY <2>1, <2>2, <2>3, <2>4 DEF ListingType
  <2>6. IsListing(m)
    BY <1>1, <2>2, <2>3, <2>4, <2>5 DEF IsListing
  <2>7. ToSet(m.by_order) = ToSet(l.by_order) \cup {r}
    BY <2>4, <2>5
  <2> QED
    BY <1>4, <2>5, <2>6, <2>7 DEF a, b, o, m
<1> QED
  BY <1>3, <1>4

LEMMA EmptyIsListing ==
  /\ EmptyListing \in ListingType /\ IsListing(EmptyListing)
  /\ ToSet(EmptyListing.by_order) = {}
  /\ EmptyListing.by_artist = << >> /\ EmptyListing.by_bpm = << >>
  /\ EmptyListing.by_order = << >>
<1>1. EmptyListing \in ListingType
  BY DEF EmptyListing, ListingType
<1>2. /\ EmptyListing.by_artist = << >> /\ EmptyListing.by_bpm = << >>
      /\ EmptyListing.by_order = << >>
  BY DEF EmptyListing
<1>3. ToSet(<< >>) = {} /\ IsInjective(<< >>)
  BY DEF ToSet, IsInjective
<1>4. \A rank : IsSortedBy(<< >>, rank)
  BY DEF IsSortedBy
<1> QED
  BY <1>1, <1>2, <1>3, <1>4 DEF IsListing

-----------------------------------------------------------------------------
(* Searches.  index_match() goes through the entries from the first to the *)
(* last, so what it keeps of a sequence follows from what it keeps of the  *)
(* sequence without its last entry.                                        *)

Keep(kept, n, seq, s) ==
  IF n = 0 THEN << >>
  ELSE IF Matches(seq[n], s) THEN Append(kept[n - 1], seq[n]) ELSE kept[n - 1]

IsKept(kept, seq, s) == kept = [n \in 0 .. Len(seq) |-> Keep(kept, n, seq, s)]

Kept(seq, s) == CHOOSE kept : IsKept(kept, seq, s)

KeptTo(kept, m, seq, s) ==
  /\ kept \in [0 .. Len(seq) -> Seq(Records)]
  /\ \A n \in 0 .. Len(seq) : n < m => kept[n] = Keep(kept, n, seq, s)

LEMMA KeepIsSeq ==
  ASSUME NEW seq \in Seq(Records), NEW s, NEW kept, NEW n \in 0 .. Len(seq),
         n # 0 => kept[n - 1] \in Seq(Records)
  PROVE  Keep(kept, n, seq, s) \in Seq(Records)
<1>1. CASE n = 0
  <2>1. << >> \in Seq(Records)
    OBVIOUS
  <2> QED
    BY <1>1, <2>1 DEF Keep
<1>2. CASE n # 0
  <2>1. seq[n] \in Records
    BY <1>2
  <2>2. Append(kept[n - 1], seq[n]) \in Seq(Records)
    BY <1>2, <2>1, AppendProperties
  <2> QED
    BY <1>2, <2>2 DEF Keep
<1> QED
  BY <1>1, <1>2

LEMMA KeptFurther ==
  ASSUME NEW seq \in Seq(Records), NEW s, NEW m \in Nat, NEW f, KeptTo(f, m, seq, s)
  PROVE  \E g : KeptTo(g, m + 1, seq, s)
<1> DEFINE new == Keep(f, m, seq, s)
           g == [n \in 0 .. Len(seq) |-> IF n = m THEN new ELSE f[n]]
<1>1. /\ f \in [0 .. Len(seq) -> Seq(Records)]
      /\ \A n \in 0 .. Len(seq) : n < m => f[n] = Keep(f, n, seq, s)
  BY DEF KeptTo
<1>2. m \in 0 .. Len(seq) => new \in Seq(Records)
  <2> SUFFICES ASSUME m \in 0 .. Len(seq) PROVE new \in Seq(Records)
    OBVIOUS
  <2>1. m # 0 => m - 1 \in 0 .. Len(seq)
    OBVIOUS
  <2>2. m # 0 => f[m - 1] \in Seq(Records)
    BY <1>1, <2>1
  <2> QED
    BY <2>2, KeepIsSeq
<1>3. new = Keep(f, m, seq, s)
  OBVIOUS
<1> HIDE DEF new
<1>4. g \in [0 .. Len(seq) -> Seq(Records)]
  BY <1>1, <1>2
<1>5. \A n \in 0 .. Len(seq) : g[n] = IF n = m THEN new ELSE f[n]
  OBVIOUS
<1> HIDE DEF g
<1>6. ASSUME NEW n \in 0 .. Len(seq), n < m + 1
      PROVE  g[n] = Keep(g, n, seq, s)
  <2>1. n # 0 => g[n - 1] = f[n - 1]
    BY <1>5, <1>6
  <2>2. Keep(g, n, seq, s) = Keep(f, n, seq, s)
    BY <2>1 DEF Keep
  <2> QED
    BY <1>1, <1>3, <1>5, <1>6, <2>2
<1> QED
  BY <1>4, <1>6 DEF KeptTo

LEMMA KeptExists ==
  ASSUME NEW seq \in Seq(Records), NEW s
  PROVE  IsKept(Kept(seq, s), seq, s)
<1>1. \A m \in Nat : \E f : KeptTo(f, m, seq, s)
  <2> DEFINE Bad == {m \in Nat : ~\E f : KeptTo(f, m, seq, s)}
  <2> SUFFICES ASSUME Bad # {} PROVE FALSE
    OBVIOUS
  <2>1. PICK m \in Bad : \A k \in Bad : m <= k
    BY NatMin
  <2>2. CASE m = 0
    <3> DEFINE f == [n \in 0 .. Len(seq) |-> << >>]
    <3>1. f \in [0 .. Len(seq) -> Seq(Records)]
      OBVIOUS
    <3> HIDE DEF f
    <3>2. KeptTo(f, m, seq, s)
      BY <2>2, <3>1 DEF KeptTo
    <3> QED
      BY <3>2
  <2>3. CASE m # 0
    <3>1. m - 1 \in Nat /\ m - 1 \notin Bad /\ (m - 1) + 1 = m
      BY <2>1, <2>3
    <3>2. \E f : KeptTo(f, (m - 1) + 1, seq, s)
      BY <3>1, KeptFurther
    <3> QED
      BY <3>1, <3>2
  <2> QED
    BY <2>2, <2>3
<1>2. PICK f : KeptTo(f, Len(seq) + 1, seq, s)
  <2>1. Len(seq) + 1 \in Nat
    OBVIOUS
  <2> QED
    BY <1>1, <2>1
<1> DEFINE Row(n) == Keep(f, n, seq, s)
<1>3. /\ f \in [0 .. Len(seq) -> Seq(Records)]
      /\ \A n \in 0 .. Len(seq) : f[n] = Row(n)
  <2>1. Len(seq) \in Nat /\ \A n \in 0 .. Len(seq) : n < Len(seq) + 1
    OBVIOUS
  <2> QED
    BY <1>2, <2>1 DEF KeptTo
<1> HIDE DEF Row
<1>4. f = [n \in 0 .. Len(seq) |-> Row(n)]
  BY <1>3
<1>5. IsKept(f, seq, s)
  BY <1>4, Zenon DEF IsKept, Row
<1> QED
  BY <1>5, Zenon DEF Kept

LEMMA KeptIs ==
  ASSUME NEW seq \in Seq(Records), NEW s, NEW f, f = Kept(seq, s)
  PROVE  /\ Matched(seq, s) = f[Len(seq)]
         /\ \A n \in 0 .. Len(seq) : f[n] = Keep(f, n, seq, s)
<1>1. Matched(seq, s) = Kept(seq, s)[Len(seq)]
  BY Zenon DEF Matched, Kept, IsKept, Keep
<1>2. IsKept(f, seq, s)
  BY KeptExists
<1> DEFINE Row(n) == Keep(f, n, seq, s)
<1>3. f = [n \in 0 .. Len(seq) |-> Row(n)]
  BY <1>2, Zenon DEF IsKept
<1> HIDE DEF Row
<1>4. ASSUME NEW n \in 0 .. Len(seq) PROVE f[n] = Row(n)
  BY <1>3, Zenon
<1> QED
  BY <1>1, <1>4 DEF Row

LEMMA MatchedEmpty == \A s : Matched(<< >>, s) = << >>
<1> SUFFICES ASSUME NEW s PROVE Matched(<< >>, s) = << >>
  OBVIOUS
<1>1. << >> \in Seq(Records) /\ Len(<< >>) = 0 /\ 0 \in 0 .. 0
  OBVIOUS
<1>2. PICK f : f = Kept(<< >>, s)
  OBVIOUS
<1>3. Matched(<< >>, s) = f[0] /\ f[0] = Keep(f, 0, << >>, s)
  BY <1>1, <1>2, KeptIs
<1> QED
  BY <1>3 DEF Keep

LEMMA MatchedAppend ==
  ASSUME NEW seq \in Seq(Records), NEW r \in Records, NEW s
  PROVE  Matched(Append(seq, r), s) =
           IF Matches(r, s) THEN Append(Matched(seq, s), r) ELSE Matched(seq, s)
<1> DEFINE t == Append(seq, r)
           L == Len(seq)
<1>1. /\ t \in Seq(Records) /\ L \in Nat /\ Len(t) = L + 1 /\ t[L + 1] = r
      /\ \A n \in 1 .. L : t[n] = seq[n]
  BY AppendProperties
<1> HIDE DEF t
<1>2. PICK f : f = Kept(seq, s)
  OBVIOUS
<1>3. PICK g : g = Kept(t, s)
  OBVIOUS
<1>4. /\ Matched(seq, s) = f[L]
      /\ \A n \in 0 .. L : f[n] = Keep(f, n, seq, s)
  BY <1>2, KeptIs
<1>5. /\ Matched(t, s) = g[L + 1]
      /\ \A n \in 0 .. L + 1 : g[n] = Keep(g, n, t, s)
  BY <1>1, <1>3, KeptIs
<1> DEFINE Bad == {n \in 0 .. L : g[n] # f[n]}
<1> HIDE DEF L
<1>6. Bad = {}
  <2> SUFFICES ASSUME Bad # {} PROVE FALSE
    OBVIOUS
  <2>1. PICK n \in Bad : n \in 0 .. L /\ \A k \in 0 .. L : k < n => k \notin Bad
    <3>1. \A n \in Bad : n \in 0 .. L
      OBVIOUS
    <3> HIDE DEF Bad
    <3> QED
      BY <3>1, <1>1, LeastFailure
  <2>2. f[n] = Keep(f, n, seq, s) /\ g[n] = Keep(g, n, t, s)
    BY <1>1, <1>4, <1>5, <2>1
  <2>3. CASE n = 0
    BY <2>1, <2>2, <2>3 DEF Keep
  <2>4. CASE n # 0
    <3>1. g[n - 1] = f[n - 1] /\ t[n] = seq[n]
      BY <1>1, <2>1, <2>4
    <3> QED
      BY <2>1, <2>2, <2>4, <3>1 DEF Keep
  <2> QED
    BY <2>3, <2>4
<1>7. g[L] = f[L]
  BY <1>1, <1>6
<1>8. g[L + 1] = Keep(g, L + 1, t, s) /\ L + 1 # 0 /\ (L + 1) - 1 = L
  BY <1>1, <1>5
<1>9. Matched(t, s) = IF Matches(r, s) THEN Append(Matched(seq, s), r) ELSE Matched(seq, s)
  BY <1>1, <1>4, <1>5, <1>7, <1>8 DEF Keep
<1> QED
  BY <1>9 DEF t

(* What fails for some sequence fails for an empty one, or for one that it *)
(* does not fail for without its last entry.                               *)
LEMMA ShortestFailure ==
  ASSUME NEW T, \A t \in T : t \in Seq(Records), T # {}
  PROVE  \E t \in T : \/ t = << >>
                      \/ \E u \in Seq(Records), r \in Records : t = Append(u, r) /\ u \notin T
<1> DEFINE Lens == {n \in Nat : \E t \in T : Len(t) = n}
<1>1. \A t \in T : Len(t) \in Lens
  OBVIOUS
<1>2. PICK n \in Lens : \A k \in Lens : n <= k
  BY <1>1, NatMin
<1>3. PICK t \in T : Len(t) = n
  BY <1>2
<1>4. n \in Nat
  BY <1>2
<1> HIDE DEF Lens
<1>5. CASE t = << >>
  BY <1>5
<1>6. CASE t # << >>
  <2> DEFINE u == SubSeq(t, 1, Len(t) - 1)
             r == t[Len(t)]
  <2>1. t \in Seq(Records) /\ Len(t) \in Nat /\ Len(t) # 0
    BY <1>6, EmptySeq
  <2>2. /\ u \in Seq(Records) /\ Len(u) = Len(t) - 1
        /\ \A i \in 1 .. Len(t) - 1 : u[i] = t[i]
    <3>1. /\ 1 \in 1 .. Len(t) + 1 /\ Len(t) - 1 \in 1 - 1 .. Len(t)
          /\ (Len(t) - 1) - 1 + 1 = Len(t) - 1
      BY <2>1
    <3>2. /\ u \in Seq(Records) /\ Len(u) = (Len(t) - 1) - 1 + 1
          /\ \A i \in 1 .. (Len(t) - 1) - 1 + 1 : u[i] = t[1 + i - 1]
      BY <2>1, <3>1, SubSeqProperties
    <3> QED
      BY <2>1, <3>1, <3>2
  <2>3. r \in Records
    BY <2>1
  <2> HIDE DEF u
  <2>4. /\ Append(u, r) \in Seq(Records) /\ Len(Append(u, r)) = Len(t)
        /\ \A i \in 1 .. Len(t) : Append(u, r)[i] = t[i]
    <3>1. /\ Append(u, r) \in Seq(Records) /\ Len(Append(u, r)) = Len(u) + 1
          /\ \A i \in 1 .. Len(u) : Append(u, r)[i] = u[i]
          /\ Append(u, r)[Len(u) + 1] = r
      BY <2>2, <2>3, AppendProperties
    <3> QED
      BY <2>1, <2>2, <3>1
  <2>5. t = Append(u, r)
    BY <2>1, <2>4, SeqEqual
  <2>6. u \notin T
    BY <1>1, <1>2, <1>3, <2>1, <2>2
  <2> QED
    BY <2>2, <2>3, <2>5, <2>6
<1> QED
  BY <1>5, <1>6

LEMMA ToSetAppend ==
  ASSUME NEW u \in Seq(Records), NEW r \in Records
  PROVE  /\ ToSet(Append(u, r)) = ToSet(u) \cup {r}
         /\ \A x \in ToSet(u) : x \in Records
<1> DEFINE t == Append(u, r)
<1>1. /\ Len(u) \in Nat /\ DOMAIN u = 1 .. Len(u) /\ DOMAIN t = 1 .. Len(u) + 1
      /\ \A i \in 1 .. Len(u) : t[i] = u[i] /\ u[i] \in Records
      /\ t[Len(u) + 1] = r
  BY AppendProperties
<1> HIDE DEF t
<1>2. /\ \A x : x \in ToSet(t) <=> \E i \in 1 .. Len(u) + 1 : t[i] = x
      /\ \A x : x \in ToSet(u) <=> \E i \in 1 .. Len(u) : u[i] = x
  BY <1>1 DEF ToSet
<1>3. \A i \in 1 .. Len(u) + 1 : i \in 1 .. Len(u) \/ i = Len(u) + 1
  BY <1>1
<1>4. /\ \A i \in 1 .. Len(u) : i \in 1 .. Len(u) + 1
      /\ Len(u) + 1 \in 1 .. Len(u) + 1
  BY <1>1
<1>5. ToSet(t) = ToSet(u) \cup {r} /\ \A x \in ToSet(u) : x \in Records
  BY <1>1, <1>2, <1>3, <1>4
<1> QED
  BY <1>5 DEF t

LEMMA SortedAppend ==
  ASSUME NEW u \in Seq(Records), NEW r \in Records, NEW rank \in [Records -> Int]
  PROVE  IsSortedBy(Append(u, r), rank) <=>
           IsSortedBy(u, rank) /\ \A x \in ToSet(u) : rank[x] < rank[r]
<1> DEFINE t == Append(u, r)
<1>1. /\ Len(u) \in Nat /\ DOMAIN u = 1 .. Len(u) /\ DOMAIN t = 1 .. Len(u) + 1
      /\ \A i \in 1 .. Len(u) : t[i] = u[i] /\ u[i] \in Records
      /\ t[Len(u) + 1] = r
  BY AppendProperties
<1> HIDE DEF t
<1>2. \A x : x \in ToSet(u) <=> \E i \in 1 .. Len(u) : u[i] = x
  BY <1>1 DEF ToSet
<1>3. IsSortedBy(u, rank) <=>
        \A i, j \in 1 .. Len(u) : i < j => rank[u[i]] < rank[u[j]]
  BY <1>1, Zenon DEF IsSortedBy
<1>4. IsSortedBy(t, rank) <=>
        \A i, j \in 1 .. Len(u) + 1 : i < j => rank[t[i]] < rank[t[j]]
  BY <1>1, Zenon DEF IsSortedBy
<1>5. ASSUME IsSortedBy(t, rank)
      PROVE  IsSortedBy(u, rank) /\ \A x \in ToSet(u) : rank[x] < rank[r]
  <2>1. \A i \in 1 .. Len(u) : i \in 1 .. Len(u) + 1 /\ i < Len(u) + 1
    BY <1>1
  <2>2. Len(u) + 1 \in 1 .. Len(u) + 1
    BY <1>1
  <2>3. \A i \in 1 .. Len(u) : rank[u[i]] < rank[r]
    BY <1>1, <1>4, <1>5, <2>1, <2>2
  <2>4. \A i, j \in 1 .. Len(u) : i < j => rank[u[i]] < rank[u[j]]
    BY <1>1, <1>4, <1>5, <2>1
  <2> QED
    BY <1>2, <1>3, <2>3, <2>4
<1>6. ASSUME IsSortedBy(u, rank), \A x \in ToSet(u) : rank[x] < rank[r]
      PROVE  IsSortedBy(t, rank)
  <2> SUFFICES ASSUME NEW i \in 1 .. Len(u) + 1, NEW j \in 1 .. Len(u) + 1, i < j
               PROVE  rank[t[i]] < rank[t[j]]
    BY <1>4
  <2>1. i \in 1 .. Len(u) /\ t[i] = u[i] /\ u[i] \in ToSet(u)
    BY <1>1, <1>2
  <2>2. CASE j = Len(u) + 1
    BY <1>1, <1>6, <2>1, <2>2
  <2>3. CASE j # Len(u) + 1
    <3>1. j \in 1 .. Len(u) /\ t[j] = u[j]
      BY <1>1, <2>3
    <3> QED
      BY <1>3, <1>6, <2>1, <3>1
  <2> QED
    BY <2>2, <2>3
<1>7. IsSortedBy(t, rank) <=>
        IsSortedBy(u, rank) /\ \A x \in ToSet(u) : rank[x] < rank[r]
  BY <1>5, <1>6
<1> QED
  BY <1>7 DEF t

LEMMA InjectiveAppend ==
  ASSUME NEW u \in Seq(Records), NEW r \in Records
  PROVE  IsInjective(Append(u, r)) <=> IsInjective(u) /\ r \notin ToSet(u)
<1> DEFINE t == Append(u, r)
<1>1. /\ Len(u) \in Nat /\ DOMAIN u = 1 .. Len(u) /\ DOMAIN t = 1 .. Len(u) + 1
      /\ \A i \in 1 .. Len(u) : t[i] = u[i]
      /\ t[Len(u) + 1] = r
  BY AppendProperties
<1> HIDE DEF t
<1>2. \A x : x \in ToSet(u) <=> \E i \in 1 .. Len(u) : u[i] = x
  BY <1>1 DEF ToSet
<1>3. /\ IsInjective(u) <=> \A i, j \in 1 .. Len(u) : u[i] = u[j] => i = j
      /\ IsInjective(t) <=> \A i, j \in 1 .. Len(u) + 1 : t[i] = t[j] => i = j
  BY <1>1 DEF IsInjective
<1>4. /\ \A i \in 1 .. Len(u) : i \in 1 .. Len(u) + 1 /\ i # Len(u) + 1
      /\ \A i \in 1 .. Len(u) + 1 : i \in 1 .. Len(u) \/ i = Len(u) + 1
      /\ Len(u) + 1 \in 1 .. Len(u) + 1
  BY <1>1
<1>5. IsInjective(t) <=> IsInjective(u) /\ r \notin ToSet(u)
  BY <1>1, <1>2, <1>3, <1>4
<1> QED
  BY <1>5 DEF t

(* A search keeps the records that match, and only these.                  *)
LEMMA MatchedSet ==
  ASSUME NEW s, NEW seq \in Seq(Records)
  PROVE  /\ Matched(seq, s) \in Seq(Records)
         /\ ToSet(Matched(seq, s)) = {x \in ToSet(seq) : Matches(x, s)}
<1> DEFINE P(t) == /\ Matched(t, s) \in Seq(Records)
                   /\ ToSet(Matched(t, s)) = {x \in ToSet(t) : Matches(x, s)}
           Bad == {t \in Seq(Records) : ~P(t)}
<1>0. \A t : t \in Bad <=> t \in Seq(Records) /\ ~P(t)
  OBVIOUS
<1>1. Bad = {}
  <2> SUFFICES ASSUME Bad # {} PROVE FALSE
    OBVIOUS
  <2> HIDE DEF Bad, P
  <2>1. PICK t \in Bad : \/ t = << >>
                         \/ \E u \in Seq(Records), r \in Records :
                              t = Append(u, r) /\ u \notin Bad
    BY <1>0, ShortestFailure
  <2>2. CASE t = << >>
    <3>1. Matched(t, s) = << >> /\ << >> \in Seq(Records) /\ ToSet(<< >>) = {}
      BY <2>2, MatchedEmpty DEF ToSet
    <3> QED
      BY <1>0, <2>2, <3>1 DEF P
  <2>3. ASSUME NEW u \in Seq(Records), NEW r \in Records, t = Append(u, r), u \notin Bad
        PROVE  FALSE
    <3>1. /\ Matched(u, s) \in Seq(Records)
          /\ ToSet(Matched(u, s)) = {x \in ToSet(u) : Matches(x, s)}
      BY <1>0, <2>3 DEF P
    <3>2. ToSet(t) = ToSet(u) \cup {r}
      BY <2>3, ToSetAppend
    <3>3. CASE Matches(r, s)
      <4>1. Matched(t, s) = Append(Matched(u, s), r)
        BY <2>3, <3>3, MatchedAppend
      <4>2. Matched(t, s) \in Seq(Records)
        BY <3>1, <4>1, AppendProperties
      <4>3. ToSet(Matched(t, s)) = ToSet(Matched(u, s)) \cup {r}
        BY <3>1, <4>1, ToSetAppend
      <4>4. ToSet(Matched(t, s)) = {x \in ToSet(t) : Matches(x, s)}
        BY <3>1, <3>2, <3>3, <4>3
      <4> QED
        BY <1>0, <4>2, <4>4 DEF P
    <3>4. CASE ~Matches(r, s)
      <4>1. Matched(t, s) = Matched(u, s)
        BY <2>3, <3>4, MatchedAppend
      <4>2. ToSet(Matched(t, s)) = {x \in ToSet(t) : Matches(x, s)}
        BY <3>1, <3>2, <3>4, <4>1
      <4> QED
        BY <1>0, <3>1, <4>1, <4>2 DEF P
    <3> QED
      BY <3>3, <3>4
  <2> QED
    BY <2>1, <2>2, <2>3
<1> HIDE DEF Bad, P
<1>2. P(seq)
  BY <1>0, <1>1
<1> QED
  BY <1>2 DEF P

LEMMA MatchedSorted ==
  ASSUME NEW s, NEW rank \in [Records -> Int], NEW seq \in Seq(Records), IsSortedBy(seq, rank)
  PROVE  IsSortedBy(Matched(seq, s), rank)
<1> DEFINE P(t) == IsSortedBy(t, rank) => IsSortedBy(Matched(t, s), rank)
           Bad == {t \in Seq(Records) : ~P(t)}
<1>0. \A t : t \in Bad <=> t \in Seq(Records) /\ ~P(t)
  OBVIOUS
<1>1. Bad = {}
  <2> SUFFICES ASSUME Bad # {} PROVE FALSE
    OBVIOUS
  <2> HIDE DEF Bad, P
  <2>1. PICK t \in Bad : \/ t = << >>
                         \/ \E u \in Seq(Records), r \in Records :
                              t = Append(u, r) /\ u \notin Bad
    BY <1>0, ShortestFailure
  <2>2. CASE t = << >>
    BY <1>0, <2>1, <2>2, MatchedEmpty DEF P
  <2>3. ASSUME NEW u \in Seq(Records), NEW r \in Records, t = Append(u, r), u \notin Bad
        PROVE  FALSE
    <3>1. IsSortedBy(t, rank) /\ ~IsSortedBy(Matched(t, s), rank)
      BY <1>0 DEF P
    <3>2. IsSortedBy(u, rank) /\ \A x \in ToSet(u) : rank[x] < rank[r]
      BY <2>3, <3>1, SortedAppend
    <3>3. IsSortedBy(Matched(u, s), rank)
      BY <1>0, <2>3, <3>2 DEF P
    <3>4. /\ Matched(u, s) \in Seq(Records)
          /\ ToSet(Matched(u, s)) = {x \in ToSet(u) : Matches(x, s)}
      BY MatchedSet
    <3>5. \A x \in ToSet(Matched(u, s)) : rank[x] < rank[r]
      BY <3>2, <3>4
    <3>6. IsSortedBy(Append(Matched(u, s), r), rank)
      BY <3>3, <3>4, <3>5, SortedAppend
    <3>7. Matched(t, s) \in {Append(Matched(u, s), r), Matched(u, s)}
      BY <2>3, MatchedAppend
    <3> QED
      BY <3>1, <3>3, <3>6, <3>7
  <2> QED
    BY <2>1, <2>2, <2>3
<1> HIDE DEF Bad, P
<1>2. P(seq)
  BY <1>0, <1>1
<1> QED
  BY <1>2 DEF P

LEMMA MatchedInjective ==
  ASSUME NEW s, NEW seq \in Seq(Records), IsInjective(seq)
  PROVE  IsInjective(Matched(seq, s))
<1> DEFINE P(t) == IsInjective(t) => IsInjective(Matched(t, s))
           Bad == {t \in Seq(Records) : ~P(t)}
<1>0. \A t : t \in Bad <=> t \in Seq(Records) /\ ~P(t)
  OBVIOUS
<1>1. Bad = {}
  <2> SUFFICES ASSUME Bad # {} PROVE FALSE
    OBVIOUS
  <2> HIDE DEF Bad, P
  <2>1. PICK t \in Bad : \/ t = << >>
                         \/ \E u \in Seq(Records), r \in Records :
                              t = Append(u, r) /\ u \notin Bad
    BY <1>0, ShortestFailure
  <2>2. CASE t = << >>
    BY <1>0, <2>1, <2>2, MatchedEmpty DEF P
  <2>3. ASSUME NEW u \in Seq(Records), NEW r \in Records, t = Append(u, r), u \notin Bad
        PROVE  FALSE
    <3>1. IsInjective(t) /\ ~IsInjective(Matched(t, s))
      BY <1>0 DEF P
    <3>2. IsInjective(u) /\ r \notin ToSet(u)
      BY <2>3, <3>1, InjectiveAppend
    <3>3. IsInjective(Matched(u, s))
      BY <1>0, <2>3, <3>2 DEF P
    <3>4. Matched(u, s) \in Seq(Records) /\ r \notin ToSet(Matched(u, s))
      BY <3>2, MatchedSet
    <3>5. IsInjective(Append(Matched(u, s), r))
      BY <3>3, <3>4, InjectiveAppend
    <3>6. Matched(t, s) \in {Append(Matched(u, s), r), Matched(u, s)}
      BY <2>3, MatchedAppend
    <3> QED
      BY <3>1, <3>3, <3>5, <3>6
  <2> QED
    BY <2>1, <2>2, <2>3
<1> HIDE DEF Bad, P
<1>2. P(seq)
  BY <1>0, <1>1
<1> QED
  BY <1>2 DEF P

(* Typing one more asks more.                                              *)
LEMMA MatchesMore ==
  ASSUME NEW s \in Seq(Keys), NEW k \in Keys, NEW r
  PROVE  Matches(r, Append(s, k)) <=> Matches(r, s) /\ r \in Matching[k]
<1> DEFINE t == Append(s, k)
<1>1. /\ Len(s) \in Nat /\ DOMAIN s = 1 .. Len(s) /\ DOMAIN t = 1 .. Len(s) + 1
      /\ \A i \in 1 .. Len(s) : t[i] = s[i]
      /\ t[Len(s) + 1] = k
  BY AppendProperties
<1> HIDE DEF t
<1>2. /\ \A i \in 1 .. Len(s) : i \in 1 .. Len(s) + 1
      /\ \A i \in 1 .. Len(s) + 1 : i \in 1 .. Len(s) \/ i = Len(s) + 1
      /\ Len(s) + 1 \in 1 .. Len(s) + 1
  BY <1>1
<1>3. /\ Matches(r, t) <=> \A i \in 1 .. Len(s) + 1 : r \in Matching[t[i]]
      /\ Matches(r, s) <=> \A i \in 1 .. Len(s) : r \in Matching[s[i]]
  BY <1>1, Zenon DEF Matches
<1>4. Matches(r, t) <=> Matches(r, s) /\ r \in Matching[k]
  BY <1>1, <1>2, <1>3
<1> QED
  BY <1>4 DEF t

(* A search that is refined may begin with what the search before it kept. *)
LEMMA MatchedTwice ==
  ASSUME NEW s \in Seq(Keys), NEW k \in Keys, NEW seq \in Seq(Records)
  PROVE  Matched(Matched(seq, s), Append(s, k)) = Matched(seq, Append(s, k))
<1> DEFINE q == Append(s, k)
           P(t) == Matched(Matched(t, s), q) = Matched(t, q)
           Bad == {t \in Seq(Records) : ~P(t)}
<1>0. \A t : t \in Bad <=> t \in Seq(Records) /\ ~P(t)
  OBVIOUS
<1>1. Bad = {}
  <2> SUFFICES ASSUME Bad # {} PROVE FALSE
    OBVIOUS
  <2>0. \A r : Matches(r, q) => Matches(r, s)
    BY MatchesMore
  <2> HIDE DEF Bad, P, q
  <2>1. PICK t \in Bad : \/ t = << >>
                         \/ \E u \in Seq(Records), r \in Records :
                              t = Append(u, r) /\ u \notin Bad
    BY <1>0, ShortestFailure
  <2>2. CASE t = << >>
    BY <1>0, <2>1, <2>2, MatchedEmpty DEF P
  <2>3. ASSUME NEW u \in Seq(Records), NEW r \in Records, t = Append(u, r), u \notin Bad
        PROVE  FALSE
    <3>1. Matched(Matched(u, s), q) = Matched(u, q)
      BY <1>0, <2>3 DEF P
    <3>2. Matched(u, s) \in Seq(Records)
      BY MatchedSet
    <3>3. /\ Matched(t, s) = IF Matches(r, s) THEN Append(Matched(u, s), r) ELSE Matched(u, s)
          /\ Matched(t, q) = IF Matches(r, q) THEN Append(Matched(u, q), r) ELSE Matched(u, q)
      BY <2>3, MatchedAppend
    <3>4. Matched(Append(Matched(u, s), r), q) =
            IF Matches(r, q) THEN Append(Matched(u, q), r) ELSE Matched(u, q)
      BY <3>1, <3>2, MatchedAppend
    <3>5. Matched(Matched(t, s), q) = Matched(t, q)
      BY <2>0, <3>1, <3>3, <3>4
    <3> QED
      BY <1>0, <3>5 DEF P
  <2> QED
    BY <2>1, <2>2, <2>3
<1> HIDE DEF Bad, P
<1>2. P(seq)
  BY <1>0, <1>1
<1> QED
  BY <1>2 DEF P

(* There is one way to sort a set.                                         *)
LEMMA SortedPrefix ==
  ASSUME NEW rank \in [Records -> Int], IsInjective(rank),
         NEW s \in Seq(Records), NEW t \in Seq(Records),
         IsSortedBy(s, rank), IsSortedBy(t, rank),
         \A x \in ToSet(s) : x \in ToSet(t)
  PROVE  \A i \in 1 .. Len(s) : i <= Len(t) /\ (\A k \in 1 .. i - 1 : s[k] = t[k])
                                  => rank[t[i]] <= rank[s[i]]
<1> SUFFICES ASSUME NEW i \in 1 .. Len(s), i <= Len(t), \A k \in 1 .. i - 1 : s[k] = t[k]
             PROVE  rank[t[i]] <= rank[s[i]]
  OBVIOUS
<1>1. PICK j \in 1 .. Len(t) : t[j] = s[i]
  BY SortedRank
<1>2. /\ Len(s) \in Nat /\ Len(t) \in Nat /\ i \in 1 .. Len(t)
      /\ rank[s[i]] \in Int /\ rank[t[i]] \in Int /\ rank[t[j]] \in Int
  BY SortedRank
<1>3. CASE j < i
  <2>1. j \in 1 .. i - 1 /\ j \in 1 .. Len(s)
    BY <1>2, <1>3
  <2>2. s[j] = s[i] /\ rank[s[j]] < rank[s[i]]
    BY <1>1, <1>3, <2>1, SortedRank
  <2> QED
    BY <1>2, <2>2
<1>4. CASE j = i
  BY <1>1, <1>2, <1>4
<1>5. CASE i < j
  <2>1. rank[t[i]] < rank[t[j]]
    BY <1>2, <1>5, SortedRank
  <2> QED
    BY <1>1, <1>2, <2>1
<1> QED
  BY <1>2, <1>3, <1>4, <1>5

LEMMA SortedOnce ==
  ASSUME NEW rank \in [Records -> Int], IsInjective(rank),
         NEW s \in Seq(Records), NEW t \in Seq(Records),
         IsSortedBy(s, rank), IsSortedBy(t, rank), ToSet(s) = ToSet(t)
  PROVE  s = t
<1>0. /\ Len(s) \in Nat /\ Len(t) \in Nat
      /\ \A i \in 1 .. Len(s) : s[i] \in Records /\ rank[s[i]] \in Int
      /\ \A i \in 1 .. Len(t) : t[i] \in Records /\ rank[t[i]] \in Int
  BY SortedRank
<1> DEFINE Bad == {i \in 0 .. Len(s) : i # 0 /\ i <= Len(t) /\ s[i] # t[i]}
<1>1. Bad = {}
  <2> SUFFICES ASSUME Bad # {} PROVE FALSE
    OBVIOUS
  <2>0. \A i : i \in Bad <=> i \in 0 .. Len(s) /\ i # 0 /\ i <= Len(t) /\ s[i] # t[i]
    OBVIOUS
  <2> HIDE DEF Bad
  <2>1. PICK i \in 0 .. Len(s) : i \in Bad /\ \A k \in 0 .. Len(s) : k < i => k \notin Bad
    BY <1>0, <2>0, LeastFailure
  <2>2. i \in 1 .. Len(s) /\ i \in 1 .. Len(t) /\ s[i] # t[i]
    BY <1>0, <2>0, <2>1
  <2>3. ASSUME NEW k \in 1 .. i - 1 PROVE s[k] = t[k]
    <3>1. k \in 0 .. Len(s) /\ k < i /\ k # 0 /\ k <= Len(t)
      BY <1>0, <2>2
    <3> QED
      BY <2>0, <2>1, <3>1
  <2>4. rank[t[i]] <= rank[s[i]]
    <3>1. \A j \in 1 .. Len(s) : j <= Len(t) /\ (\A k \in 1 .. j - 1 : s[k] = t[k])
                                   => rank[t[j]] <= rank[s[j]]
      BY SortedPrefix
    <3> QED
      BY <1>0, <2>2, <2>3, <3>1
  <2>5. rank[s[i]] <= rank[t[i]]
    <3>1. \A j \in 1 .. Len(t) : j <= Len(s) /\ (\A k \in 1 .. j - 1 : t[k] = s[k])
                                   => rank[s[j]] <= rank[t[j]]
      BY SortedPrefix
    <3> QED
      BY <1>0, <2>2, <2>3, <3>1
  <2>6. rank[s[i]] = rank[t[i]]
    BY <1>0, <2>2, <2>4, <2>5
  <2> QED
    BY <1>0, <2>2, <2>6 DEF IsInjective
<1>2. \A i \in 1 .. Len(s) : i <= Len(t) => s[i] = t[i]
  BY <1>0, <1>1
<1>3. ASSUME Len(s) < Len(t) PROVE FALSE
  <2>1. Len(s) + 1 \in 1 .. Len(t)
    BY <1>0, <1>3
  <2>2. PICK j \in 1 .. Len(s) : s[j] = t[Len(s) + 1]
    BY <2>1, SortedRank
  <2>3. j \in 1 .. Len(t) /\ j < Len(s) + 1 /\ t[j] = t[Len(s) + 1]
    BY <1>0, <1>2, <1>3, <2>2
  <2>4. rank[t[j]] < rank[t[Len(s) + 1]]
    BY <2>1, <2>3, SortedRank
  <2> QED
    BY <1>0, <2>1, <2>3, <2>4
<1>4. ASSUME Len(t) < Len(s) PROVE FALSE
  <2>1. Len(t) + 1 \in 1 .. Len(s)
    BY <1>0, <1>4
  <2>2. PICK j \in 1 .. Len(t) : t[j] = s[Len(t) + 1]
    BY <2>1, SortedRank
  <2>3. j \in 1 .. Len(s) /\ j < Len(t) + 1 /\ s[j] = s[Len(t) + 1]
    BY <1>0, <1>2, <1>4, <2>2
  <2>4. rank[s[j]] < rank[s[Len(t) + 1]]
    BY <2>1, <2>3, SortedRank
  <2> QED
    BY <1>0, <2>1, <2>3, <2>4
<1>5. Len(s) = Len(t)
  BY <1>0, <1>3, <1>4
<1> QED
  BY <1>0, <1>2, <1>5, SeqEqual

(* An addition to a sorted view gives what a new search would give.        *)
LEMMA MatchedInsert ==
  ASSUME NEW rank \in [Records -> Int], IsInjective(rank), NEW s,
         NEW seq \in Seq(Records), IsSortedBy(seq, rank), NEW r \in Records
  PROVE  Matched(Insert(seq, r, rank), s) =
           IF Matches(r, s) THEN Insert(Matched(seq, s), r, rank) ELSE Matched(seq, s)
<1> DEFINE t == Insert(seq, r, rank)
           u == Matched(seq, s)
           v == Matched(t, s)
<1>1. /\ t \in Seq(Records) /\ IsSortedBy(t, rank) /\ ToSet(t) = ToSet(seq) \cup {r}
  BY Inserted
<1>2. /\ u \in Seq(Records) /\ IsSortedBy(u, rank)
      /\ ToSet(u) = {x \in ToSet(seq) : Matches(x, s)}
  BY MatchedSet, MatchedSorted
<1> HIDE DEF t
<1>3. /\ v \in Seq(Records) /\ IsSortedBy(v, rank)
      /\ ToSet(v) = {x \in ToSet(t) : Matches(x, s)}
  BY <1>1, MatchedSet, MatchedSorted
<1> HIDE DEF u, v
<1>4. CASE Matches(r, s)
  <2> DEFINE w == Insert(u, r, rank)
  <2>1. w \in Seq(Records) /\ IsSortedBy(w, rank) /\ ToSet(w) = ToSet(u) \cup {r}
    BY <1>2, Inserted
  <2> HIDE DEF w
  <2>2. ToSet(v) = ToSet(w)
    BY <1>1, <1>2, <1>3, <1>4, <2>1
  <2>3. v = w
    BY <1>3, <2>1, <2>2, SortedOnce
  <2> QED
    BY <1>4, <2>3 DEF t, u, v, w
<1>5. CASE ~Matches(r, s)
  <2>1. ToSet(v) = ToSet(u)
    BY <1>1, <1>2, <1>3, <1>5
  <2>2. v = u
    BY <1>2, <1>3, <2>1, SortedOnce
  <2> QED
    BY <1>5, <2>2 DEF t, u, v
<1> QED
  BY <1>4, <1>5

(* Entries that are all different fit into the memory of an index.         *)
LEMMA EntriesFit ==
  ASSUME NEW seq \in Seq(Records), IsInjective(seq)
  PROVE  Len(seq) \in Nat /\ Size \in Nat /\ Len(seq) < Size
<1>1. IsFiniteSet(Records) /\ Cardinality(Records) \in Nat
  BY ListingsAssumption, FS_CardinalityType
<1>2. Len(seq) \in Nat /\ seq \in [1 .. Len(seq) -> Records]
  OBVIOUS
<1>3. IsFiniteSet(1 .. Len(seq)) /\ Cardinality(1 .. Len(seq)) = Len(seq)
  BY <1>2, FS_Interval
<1>4. seq \in Injection(1 .. Len(seq), Records)
  BY <1>2 DEF Injection
<1>5. Cardinality(1 .. Len(seq)) <= Cardinality(Records)
  BY <1>1, <1>4, FS_Injection
<1> QED
  BY <1>1, <1>2, <1>3, <1>5 DEF Size

LEMMA SortedInjective ==
  ASSUME NEW rank \in [Records -> Int], NEW seq \in Seq(Records), IsSortedBy(seq, rank)
  PROVE  IsInjective(seq)
<1> SUFFICES ASSUME NEW i \in 1 .. Len(seq), NEW j \in 1 .. Len(seq), seq[i] = seq[j]
             PROVE  i = j
  BY SortedRank DEF IsInjective
<1>1. /\ rank[seq[i]] \in Int
      /\ i < j => rank[seq[i]] < rank[seq[j]]
      /\ j < i => rank[seq[j]] < rank[seq[i]]
  BY SortedRank
<1> QED
  BY <1>1

-----------------------------------------------------------------------------
(* Scans.                                                                  *)

IsScan(x) ==
  x \in [refcount : Nat, pid : BOOLEAN, terminated : BOOLEAN,
         listing : {x.listing}, left : {x.left}]

ScanTypes ==
  /\ scan = [e \in Excrates |-> scan[e]] /\ \A e \in Excrates : IsScan(scan[e])
  /\ excrate \in [Scanned -> Excrates]
  /\ busy \in [Scanned -> BOOLEAN]

IsHeld(e) == \E c \in Scanned : excrate[c] = e

(* No two crates share a scan.                                             *)
ScansOwned == \A c, d \in Scanned : excrate[c] = excrate[d] => c = d

Watching == \A c \in Scanned, e \in Excrates : <<c, e>> \in watches <=> excrate[c] = e

CountExact ==
  \A e \in Excrates :
    scan[e].refcount = (IF IsHeld(e) THEN 1 ELSE 0) + (IF scan[e].pid THEN 1 ELSE 0)

EndedUnheld ==
  \A e \in Excrates : scan[e].pid => (scan[e].terminated <=> ~IsHeld(e))

IInv == ScanTypes /\ ScansOwned /\ Watching /\ CountExact /\ EndedUnheld /\ BusyWhileScanning

LEMMA ReleasedScan ==
  ASSUME NEW x, IsScan(x), x.refcount \in 1 .. 2, x.refcount = 1 => ~x.pid
  PROVE  /\ IsScan(Released(x)) /\ Released(x).refcount = x.refcount - 1
         /\ Released(x).pid = x.pid
         /\ x.pid => Released(x).terminated
<1>1. CASE x.refcount = 1
  <2>1. Released(x) = Freed
    BY <1>1 DEF Released
  <2>2. IsScan(Freed) /\ Freed.refcount = 0 /\ Freed.pid = FALSE
    BY DEF IsScan, Freed
  <2>3. x.pid = FALSE
    BY <1>1 DEF IsScan
  <2>4. IsScan(Released(x)) /\ Released(x).refcount = x.refcount - 1
    BY <1>1, <2>1, <2>2
  <2>5. Released(x).pid = x.pid /\ (x.pid => Released(x).terminated)
    BY <2>1, <2>2, <2>3
  <2> QED
    BY <2>4, <2>5
<1>2. CASE x.refcount = 2 /\ x.pid
  <2>1. Released(x) = [x EXCEPT !.refcount = 1, !.terminated = TRUE]
    BY <1>2 DEF Released
  <2>2. /\ Released(x).refcount = 1 /\ Released(x).pid = x.pid
        /\ Released(x).terminated = TRUE
        /\ Released(x).listing = x.listing /\ Released(x).left = x.left
    BY <2>1 DEF IsScan
  <2>3. Released(x) \in [refcount : Nat, pid : BOOLEAN, terminated : BOOLEAN,
                         listing : {x.listing}, left : {x.left}]
    <3>1. [x EXCEPT !.refcount = 1]
             \in [refcount : Nat, pid : BOOLEAN, terminated : BOOLEAN,
                  listing : {x.listing}, left : {x.left}]
      BY DEF IsScan
    <3> QED
      BY <3>1, <2>1
  <2>4. IsScan(Released(x))
    BY <2>2, <2>3 DEF IsScan
  <2> QED
    BY <1>2, <2>2, <2>4
<1>3. CASE x.refcount = 2 /\ ~x.pid
  <2>1. Released(x) = [x EXCEPT !.refcount = @ - 1]
    BY <1>3 DEF Released
  <2> QED
    BY <1>3, <2>1 DEF IsScan
<1> QED
  BY <1>1, <1>2, <1>3

LEMMA InitIInv == Init => IInv
<1> SUFFICES ASSUME InitLibrary PROVE IInv
  BY DEF Init
<1>0. /\ First0 \in [Scanned -> Excrates]
      /\ \A c, d \in Scanned : First0[c] = First0[d] => c = d
  BY LibraryAssumption DEF IsInjective
<1>1. PICK output \in Outputs :
        scan = [e \in Excrates |->
                  IF \E c \in Scanned : First0[c] = e THEN Started(output) ELSE Freed]
  BY DEF InitLibrary
<1>2. ScanTypes
  BY <1>0, <1>1 DEF ScanTypes, InitLibrary, Started, Freed, IsScan
<1>3. ScansOwned /\ Watching
  BY <1>0 DEF ScansOwned, Watching, InitLibrary
<1>4. CountExact /\ EndedUnheld
  BY <1>0, <1>1 DEF CountExact, EndedUnheld, InitLibrary, Started, Freed, IsHeld
<1>5. BusyWhileScanning
  BY <1>0, <1>1 DEF BusyWhileScanning, InitLibrary, Started
<1> QED
  BY <1>2, <1>3, <1>4, <1>5 DEF IInv

(* A line leaves everything but listings alone.                            *)
LEMMA LineKeeps ==
  ASSUME IInv, NEW e \in Excrates, ReadLine(e)
  PROVE  IInv'
<1>0. ScanTypes /\ ScansOwned /\ Watching /\ CountExact /\ EndedUnheld /\ BusyWhileScanning
  BY DEF IInv
<1>1. /\ scan' = [f \in Excrates |-> scan'[f]]
      /\ \A f \in Excrates : /\ IsScan(scan'[f])
                             /\ scan'[f].refcount = scan[f].refcount
                             /\ scan'[f].pid = scan[f].pid
                             /\ scan'[f].terminated = scan[f].terminated
  BY <1>0 DEF ScanTypes, IsScan, ReadLine
<1>2. UNCHANGED <<excrate, watches, busy>>
  BY DEF ReadLine
<1>3. ScanTypes' /\ ScansOwned' /\ Watching'
  BY <1>0, <1>1, <1>2 DEF ScanTypes, ScansOwned, Watching
<1>4. CountExact' /\ EndedUnheld'
  BY <1>0, <1>1, <1>2 DEF CountExact, EndedUnheld, IsHeld
<1>5. BusyWhileScanning'
  BY <1>0, <1>1, <1>2 DEF BusyWhileScanning, ScanTypes
<1> QED
  BY <1>3, <1>4, <1>5 DEF IInv

LEMMA EndKeeps ==
  ASSUME IInv, NEW e \in Excrates, EndScan(e)
  PROVE  IInv'
<1>0. ScanTypes /\ ScansOwned /\ Watching /\ CountExact /\ EndedUnheld /\ BusyWhileScanning
  BY DEF IInv
<1>1. UNCHANGED <<excrate, watches>>
  BY DEF EndScan
<1>2. scan[e].pid /\ scan[e].refcount = (IF IsHeld(e) THEN 1 ELSE 0) + 1
  BY <1>0 DEF CountExact, EndScan
<1>3. /\ scan' = [f \in Excrates |-> scan'[f]]
      /\ \A f \in Excrates : f # e => scan'[f] = scan[f]
      /\ scan'[e] = Released([scan[e] EXCEPT !.pid = FALSE])
  BY <1>0 DEF ScanTypes, EndScan
<1>4. /\ IsScan(scan'[e])
      /\ scan'[e].refcount = (IF IsHeld(e) THEN 1 ELSE 0)
      /\ scan'[e].pid = FALSE
  <2> DEFINE x == [scan[e] EXCEPT !.pid = FALSE]
  <2>1. /\ IsScan(x) /\ x.refcount = scan[e].refcount /\ x.pid = FALSE
    BY <1>0 DEF ScanTypes, IsScan
  <2>2. x.refcount \in 1 .. 2
    BY <2>1, <1>2
  <2>3. /\ IsScan(Released(x)) /\ Released(x).pid = FALSE
        /\ Released(x).refcount = (IF IsHeld(e) THEN 1 ELSE 0)
    <3> HIDE DEF x
    <3>1. /\ IsScan(Released(x)) /\ Released(x).pid = x.pid
          /\ Released(x).refcount = x.refcount - 1
      BY <2>1, <2>2, ReleasedScan
    <3> QED
      BY <3>1, <2>1, <1>2
  <2> QED
    BY <1>3, <2>3
<1>5. ScanTypes' /\ ScansOwned' /\ Watching'
  BY <1>0, <1>1, <1>3, <1>4 DEF ScanTypes, ScansOwned, Watching, EndScan
<1>6. CountExact' /\ EndedUnheld'
  BY <1>0, <1>1, <1>3, <1>4 DEF CountExact, EndedUnheld, IsHeld
<1>7. BusyWhileScanning'
  <2> SUFFICES ASSUME NEW c \in Scanned PROVE busy'[c] <=> scan'[excrate'[c]].pid
    BY DEF BusyWhileScanning
  <2>1. excrate[c] \in Excrates /\ excrate'[c] = excrate[c]
    BY <1>0, <1>1 DEF ScanTypes
  <2>2. busy'[c] <=> (busy[c] /\ <<c, e>> \notin watches)
    BY DEF EndScan
  <2>3. <<c, e>> \in watches <=> excrate[c] = e
    BY <1>0 DEF Watching
  <2>4. busy[c] <=> scan[excrate[c]].pid
    BY <1>0 DEF BusyWhileScanning
  <2> QED
    BY <1>3, <1>4, <2>1, <2>2, <2>3, <2>4
<1> QED
  BY <1>5, <1>6, <1>7 DEF IInv

LEMMA RescanKeeps ==
  ASSUME IInv, NEW c \in Scanned, NEW e \in Excrates, NEW output \in Outputs,
         Rescan(c, e, output)
  PROVE  IInv'
<1>0. ScanTypes /\ ScansOwned /\ Watching /\ CountExact /\ EndedUnheld /\ BusyWhileScanning
  BY DEF IInv
<1>1. PICK old \in Excrates : old = excrate[c] /\ IsHeld(old)
  BY <1>0 DEF ScanTypes, IsHeld
<1>2. scan[e].refcount = 0 /\ ~IsHeld(e) /\ ~scan[e].pid
  BY <1>0 DEF Rescan, Freed, CountExact, ScanTypes
<1>3. e # old
  BY <1>1, <1>2
<1>4. scan[old].refcount = 1 + (IF scan[old].pid THEN 1 ELSE 0)
  BY <1>0, <1>1 DEF CountExact
<1>5. /\ scan' = [f \in Excrates |-> scan'[f]]
      /\ scan'[e] = Started(output)
      /\ scan'[old] = Released(scan[old])
      /\ \A f \in Excrates : f # e /\ f # old => scan'[f] = scan[f]
  BY <1>0, <1>1, <1>3 DEF ScanTypes, Rescan
<1>6. /\ IsScan(scan'[old])
      /\ scan'[old].refcount = (IF scan'[old].pid THEN 1 ELSE 0)
      /\ scan'[old].pid => scan'[old].terminated
  <2>1. IsScan(scan[old])
    BY <1>0, <1>1 DEF ScanTypes
  <2> QED
    <3>1. scan[old].refcount \in 1 .. 2 /\ (scan[old].refcount = 1 => ~scan[old].pid)
      BY <1>4
    <3>2. /\ IsScan(Released(scan[old]))
          /\ Released(scan[old]).refcount = scan[old].refcount - 1
          /\ Released(scan[old]).pid = scan[old].pid
          /\ scan[old].pid => Released(scan[old]).terminated
      BY <2>1, <3>1, ReleasedScan
    <3> QED
      BY <1>4, <1>5, <3>2
<1>7. /\ IsScan(scan'[e]) /\ scan'[e].refcount = 2 /\ scan'[e].pid
      /\ ~scan'[e].terminated
  BY <1>5 DEF Started, IsScan
<1>8. /\ excrate' \in [Scanned -> Excrates] /\ excrate'[c] = e
      /\ \A d \in Scanned : d # c => excrate'[d] = excrate[d]
  BY <1>0 DEF ScanTypes, Rescan
<1>9. \A d \in Scanned : excrate[d] # e /\ (excrate[d] = old => d = c)
  BY <1>0, <1>1, <1>2 DEF IsHeld, ScansOwned
<1>10. /\ IsHeld(e)' /\ ~IsHeld(old)'
       /\ \A f \in Excrates : f # e /\ f # old => (IsHeld(f)' <=> IsHeld(f))
  <2>1. IsHeld(e)'
    BY <1>8 DEF IsHeld
  <2>2. ~IsHeld(old)'
    BY <1>3, <1>8, <1>9 DEF IsHeld
  <2>3. ASSUME NEW f \in Excrates, f # e, f # old PROVE IsHeld(f)' <=> IsHeld(f)
    BY <1>1, <1>8, <2>3 DEF IsHeld
  <2> QED
    BY <2>1, <2>2, <2>3
<1>11. ScanTypes'
  BY <1>0, <1>5, <1>6, <1>7, <1>8 DEF ScanTypes, Rescan
<1>12. ScansOwned'
  BY <1>0, <1>8, <1>9 DEF ScansOwned
<1>13. Watching'
  <2> SUFFICES ASSUME NEW d \in Scanned, NEW f \in Excrates
               PROVE  <<d, f>> \in watches' <=> excrate'[d] = f
    BY DEF Watching
  <2>1. <<d, f>> \in watches' <=> (<<d, f>> \in watches /\ <<d, f>> # <<c, old>>) \/ <<d, f>> = <<c, e>>
    BY <1>1 DEF Rescan
  <2>2. <<d, f>> \in watches <=> excrate[d] = f
    BY <1>0 DEF Watching
  <2> QED
    BY <2>1, <2>2, <1>1, <1>8, <1>9
<1>14. CountExact'
  BY <1>0, <1>5, <1>6, <1>7, <1>10 DEF CountExact
<1>15. EndedUnheld'
  BY <1>0, <1>5, <1>6, <1>7, <1>10 DEF EndedUnheld
<1>16. BusyWhileScanning'
  <2> SUFFICES ASSUME NEW d \in Scanned PROVE busy'[d] <=> scan'[excrate'[d]].pid
    BY DEF BusyWhileScanning
  <2>1. CASE d = c
    BY <2>1, <1>0, <1>7, <1>8 DEF Rescan, ScanTypes
  <2>2. CASE d # c
    <3>1. busy'[d] = busy[d] /\ excrate'[d] = excrate[d] /\ excrate[d] \in Excrates
      BY <2>2, <1>0, <1>8 DEF Rescan, ScanTypes
    <3>2. scan'[excrate[d]] = scan[excrate[d]]
      BY <2>2, <3>1, <1>5, <1>9
    <3> QED
      BY <3>1, <3>2, <1>0 DEF BusyWhileScanning
  <2> QED
    BY <2>1, <2>2
<1> QED
  BY <1>11, <1>12, <1>13, <1>14, <1>15, <1>16 DEF IInv

LEMMA NextIInv == IInv /\ [Next]_vars => IInv'
<1> SUFFICES ASSUME IInv, [Next]_vars PROVE IInv'
  OBVIOUS
<1>1. CASE UNCHANGED libraryVars
  BY <1>1 DEF IInv, libraryVars, ScanTypes, ScansOwned, Watching, CountExact,
              EndedUnheld, IsHeld, BusyWhileScanning
<1>2. ASSUME NEW e \in Excrates, Line(e) PROVE IInv'
  BY <1>2, LineKeeps DEF Line
<1>3. ASSUME NEW e \in Excrates, End(e) PROVE IInv'
  BY <1>3, EndKeeps DEF End
<1>4. ASSUME NEW e \in Excrates, NEW output \in Outputs, SelectorRescan(e, output)
      PROVE  IInv'
  BY <1>4, RescanKeeps DEF SelectorRescan
<1>5. CASE Move
  BY <1>5, <1>1 DEF Move, libraryVars
<1>6. CASE PrevNext
  BY <1>6, <1>1 DEF PrevNext, CrateChange, libraryVars
<1>7. CASE Toggle
  BY <1>7, <1>1 DEF Toggle, CrateChange, libraryVars
<1>8. CASE ToggleOrder
  BY <1>8, <1>1 DEF ToggleOrder, libraryVars
<1>9. CASE SearchExpand
  BY <1>9, <1>1 DEF SearchExpand, libraryVars
<1>10. ASSUME NEW k \in Keys, SearchRefine(k) PROVE IInv'
  BY <1>10, <1>1 DEF SearchRefine, libraryVars
<1>11. ASSUME NEW lines \in LineCounts, SelectorSetLines(lines) PROVE IInv'
  BY <1>11, <1>1 DEF SelectorSetLines, libraryVars
<1>12. CASE UNCHANGED vars
  BY <1>12, <1>1 DEF vars, libraryVars
<1> QED
  BY <1>2, <1>3, <1>4, <1>5, <1>6, <1>7, <1>8, <1>9, <1>10, <1>11, <1>12 DEF Next

LEMMA IInvHolds == Spec => []IInv
  BY InitIInv, NextIInv, PTL DEF Spec

(* A scan has exactly the references of the rig, while it runs, and of the *)
(* crate that shows it, is watched by that crate alone, and is terminated  *)
(* exactly when no crate shows it any more (excrate_release).              *)
THEOREM ScansAreHeld == Spec => []ScansHeld
<1>1. IInv => ScansHeld
  <2> SUFFICES ASSUME IInv, NEW e \in Excrates
               PROVE  LET holders == {c \in Scanned : excrate[c] = e}
                      IN  /\ scan[e].refcount = Cardinality(holders) + (IF scan[e].pid THEN 1 ELSE 0)
                          /\ {c \in Scanned : <<c, e>> \in watches} = holders
                          /\ scan[e].pid => (scan[e].terminated <=> holders = {})
    BY DEF ScansHeld
  <2> DEFINE holders == {c \in Scanned : excrate[c] = e}
  <2>1. IsHeld(e) <=> holders # {}
    BY DEF IsHeld
  <2>2. Cardinality(holders) = (IF IsHeld(e) THEN 1 ELSE 0)
    <3>1. CASE IsHeld(e)
      <4>1. PICK c \in Scanned : excrate[c] = e
        BY <3>1 DEF IsHeld
      <4>2. holders = {c}
        BY <4>1 DEF IInv, ScansOwned
      <4> QED
        BY <4>2, <3>1, FS_Singleton
    <3>2. CASE ~IsHeld(e)
      BY <3>2, <2>1, FS_EmptySet
    <3> QED
      BY <3>1, <3>2
  <2>3. {c \in Scanned : <<c, e>> \in watches} = holders
    BY DEF IInv, Watching
  <2> QED
    BY <2>1, <2>2, <2>3 DEF IInv, CountExact, EndedUnheld
<1> QED
  BY IInvHolds, <1>1, PTL

(* A crate is busy exactly while the scan that it shows runs, whatever the *)
(* scans that it showed before do (crate_rescan).                          *)
THEOREM BusyExactly == Spec => []BusyWhileScanning
<1>1. IInv => BusyWhileScanning
  BY DEF IInv
<1> QED
  BY IInvHolds, <1>1, PTL

-----------------------------------------------------------------------------
(* Listings of scans.                                                      *)

ListedIn(x, all) ==
  /\ x.listing \in ListingType /\ IsListing(x.listing) /\ x.left \in Seq(Records)
  /\ ToSet(x.listing.by_order) \subseteq all

ListingsInv ==
  /\ storage \in ListingType /\ IsListing(storage)
  /\ \A e \in Excrates : ListedIn(scan[e], ToSet(storage.by_order))

LEMMA FreedListed == \A all : ListedIn(Freed, all)
<1>1. Freed.listing = EmptyListing /\ Freed.left = << >>
  BY DEF Freed
<1>2. << >> \in Seq(Records)
  OBVIOUS
<1> QED
  BY <1>1, <1>2, EmptyIsListing DEF ListedIn

LEMMA StartedListed == \A output \in Outputs : \A all : ListedIn(Started(output), all)
<1> SUFFICES ASSUME NEW output \in Outputs, NEW all PROVE ListedIn(Started(output), all)
  OBVIOUS
<1>1. Started(output).listing = EmptyListing /\ Started(output).left = output
  BY DEF Started
<1>2. output \in Seq(Records)
  BY LibraryAssumption
<1> QED
  BY <1>1, <1>2, EmptyIsListing DEF ListedIn

LEMMA ReleasedListed ==
  ASSUME NEW x, IsScan(x), NEW all, ListedIn(x, all)
  PROVE  ListedIn(Released(x), all)
<1>1. CASE Released(x) = Freed
  BY <1>1, FreedListed
<1>2. CASE Released(x) # Freed
  <2>1. Released(x).listing = x.listing /\ Released(x).left = x.left
    BY <1>2 DEF Released, IsScan
  <2> QED
    BY <2>1 DEF ListedIn
<1> QED
  BY <1>1, <1>2

LEMMA InitListings == Init => ListingsInv
<1> SUFFICES ASSUME InitLibrary PROVE ListingsInv
  BY DEF Init
<1>1. storage = EmptyListing
  BY DEF InitLibrary
<1>2. PICK output \in Outputs :
        scan = [e \in Excrates |->
                  IF \E c \in Scanned : First0[c] = e THEN Started(output) ELSE Freed]
  BY DEF InitLibrary
<1>3. \A e \in Excrates : scan[e] \in {Started(output), Freed}
  BY <1>2
<1>4. \A e \in Excrates : ListedIn(scan[e], ToSet(storage.by_order))
  BY <1>3, FreedListed, StartedListed
<1> QED
  BY <1>1, <1>4, EmptyIsListing DEF ListingsInv

(* What a line does: the record is added to the scan and to all.           *)
LEMMA LineAdds ==
  ASSUME IInv, ListingsInv, NEW e \in Excrates, ReadLine(e),
         NEW r, r = Head(scan[e].left)
  PROVE  /\ r \in Records
         /\ storage' = Added(storage, r)
         /\ scan'[e].listing = Added(scan[e].listing, r)
         /\ scan'[e].left = Tail(scan[e].left) /\ scan'[e].left \in Seq(Records)
         /\ \A f \in Excrates : f # e => scan'[f] = scan[f]
<1>1. scan = [f \in Excrates |-> scan[f]] /\ IsScan(scan[e])
  BY DEF IInv, ScanTypes
<1>2. scan[e].left \in Seq(Records) /\ scan[e].left # << >>
  BY DEF ListingsInv, ListedIn, ReadLine
<1>3. r \in Records /\ Tail(scan[e].left) \in Seq(Records)
  BY <1>2, HeadTailProperties
<1>4. storage' = Added(storage, r)
  BY DEF ReadLine
<1>5. scan'[e].listing = Added(scan[e].listing, r) /\ scan'[e].left = Tail(scan[e].left)
  BY <1>1 DEF ReadLine, IsScan
<1>6. \A f \in Excrates : f # e => scan'[f] = scan[f]
  BY <1>1 DEF ReadLine
<1> QED
  BY <1>3, <1>4, <1>5, <1>6

LEMMA LineListings ==
  ASSUME IInv, ListingsInv, NEW e \in Excrates, ReadLine(e)
  PROVE  ListingsInv'
<1> DEFINE r == Head(scan[e].left)
           all == ToSet(storage.by_order)
<1>1. /\ r \in Records
      /\ storage' = Added(storage, r)
      /\ scan'[e].listing = Added(scan[e].listing, r)
      /\ scan'[e].left \in Seq(Records)
      /\ \A f \in Excrates : f # e => scan'[f] = scan[f]
  BY LineAdds
<1>2. /\ storage \in ListingType /\ IsListing(storage)
      /\ \A f \in Excrates : ListedIn(scan[f], all)
  BY DEF ListingsInv
<1> HIDE DEF r
<1>3. /\ storage' \in ListingType /\ IsListing(storage')
      /\ ToSet(storage'.by_order) = all \cup {r}
  BY <1>1, <1>2, AddedListing
<1>4. /\ scan[e].listing \in ListingType /\ IsListing(scan[e].listing)
      /\ ToSet(scan[e].listing.by_order) \subseteq all
  BY <1>2 DEF ListedIn
<1>5. /\ scan'[e].listing \in ListingType /\ IsListing(scan'[e].listing)
      /\ ToSet(scan'[e].listing.by_order) = ToSet(scan[e].listing.by_order) \cup {r}
  <2> DEFINE m == Added(scan[e].listing, r)
  <2>1. m \in ListingType /\ IsListing(m) /\ ToSet(m.by_order) = ToSet(scan[e].listing.by_order) \cup {r}
    BY <1>1, <1>4, AddedListing
  <2> QED
    BY <1>1, <2>1
<1> HIDE DEF all
<1>6. ListedIn(scan'[e], all \cup {r})
  BY <1>1, <1>4, <1>5 DEF ListedIn
<1>7. \A f \in Excrates : f # e => ListedIn(scan'[f], all \cup {r})
  BY <1>1, <1>2 DEF ListedIn
<1>8. \A f \in Excrates : ListedIn(scan'[f], ToSet(storage'.by_order))
  BY <1>3, <1>6, <1>7
<1> QED
  BY <1>3, <1>8 DEF ListingsInv

LEMMA NextListings == IInv /\ ListingsInv /\ [Next]_vars => ListingsInv'
<1> SUFFICES ASSUME IInv, ListingsInv, [Next]_vars PROVE ListingsInv'
  OBVIOUS
<1> DEFINE all == ToSet(storage.by_order)
<1>0. /\ storage \in ListingType /\ IsListing(storage)
      /\ \A e \in Excrates : ListedIn(scan[e], all) /\ IsScan(scan[e])
      /\ scan = [f \in Excrates |-> scan[f]]
      /\ excrate \in [Scanned -> Excrates]
  BY DEF ListingsInv, IInv, ScanTypes
<1>1. CASE UNCHANGED libraryVars
  <2>1. scan' = scan /\ storage' = storage
    BY <1>1 DEF libraryVars
  <2> QED
    BY <2>1 DEF ListingsInv
<1>2. ASSUME NEW e \in Excrates, Line(e) PROVE ListingsInv'
  BY <1>2, LineListings DEF Line
<1>3. ASSUME NEW e \in Excrates, End(e) PROVE ListingsInv'
  <2>1. /\ storage' = storage
        /\ scan' = [scan EXCEPT ![e] = Released([@ EXCEPT !.pid = FALSE])]
    BY <1>3 DEF End, EndScan
  <2> DEFINE x == [scan[e] EXCEPT !.pid = FALSE]
  <2>2. IsScan(x) /\ x.listing = scan[e].listing /\ x.left = scan[e].left
    BY <1>0 DEF IsScan
  <2>3. scan'[e] = Released(x) /\ \A f \in Excrates : f # e => scan'[f] = scan[f]
    BY <1>0, <2>1
  <2> HIDE DEF x, all
  <2>4. ListedIn(Released(x), all)
    <3>1. ListedIn(x, all)
      BY <1>0, <2>2 DEF ListedIn
    <3> QED
      BY <2>2, <3>1, ReleasedListed
  <2>5. \A f \in Excrates : ListedIn(scan'[f], all)
    BY <1>0, <2>3, <2>4
  <2> QED
    BY <1>0, <2>1, <2>5 DEF ListingsInv, all
<1>4. ASSUME NEW e \in Excrates, NEW output \in Outputs, SelectorRescan(e, output)
      PROVE  ListingsInv'
  <2> DEFINE c == current_crate
             old == excrate[c]
  <2>1. /\ c \in Scanned /\ storage' = storage
        /\ scan' = [scan EXCEPT ![e] = Started(output), ![old] = Released(@)]
    BY <1>4 DEF SelectorRescan, Rescan
  <2> HIDE DEF c, all
  <2>2. old \in Excrates
    BY <1>0, <2>1
  <2> HIDE DEF old
  <2>3. \A f \in Excrates :
          scan'[f] \in {scan[f], Started(output), Released(scan[f]), Released(Started(output))}
    BY <1>0, <2>1, <2>2
  <2>4. IsScan(Started(output))
    BY DEF Started, IsScan
  <2>5. \A f \in Excrates : ListedIn(scan'[f], all)
    BY <1>0, <2>3, <2>4, StartedListed, ReleasedListed
  <2> QED
    BY <1>0, <2>1, <2>5 DEF ListingsInv, all
<1>5. CASE Move
  BY <1>5, <1>1 DEF Move, libraryVars
<1>6. CASE PrevNext
  BY <1>6, <1>1 DEF PrevNext, CrateChange, libraryVars
<1>7. CASE Toggle
  BY <1>7, <1>1 DEF Toggle, CrateChange, libraryVars
<1>8. CASE ToggleOrder
  BY <1>8, <1>1 DEF ToggleOrder, libraryVars
<1>9. CASE SearchExpand
  BY <1>9, <1>1 DEF SearchExpand, libraryVars
<1>10. ASSUME NEW k \in Keys, SearchRefine(k) PROVE ListingsInv'
  BY <1>10, <1>1 DEF SearchRefine, libraryVars
<1>11. ASSUME NEW lines \in LineCounts, SelectorSetLines(lines) PROVE ListingsInv'
  BY <1>11, <1>1 DEF SelectorSetLines, libraryVars
<1>12. CASE UNCHANGED vars
  BY <1>12, <1>1 DEF vars, libraryVars
<1> QED
  BY <1>2, <1>3, <1>4, <1>5, <1>6, <1>7, <1>8, <1>9, <1>10, <1>11, <1>12 DEF Next

LEMMA ListingsInvHolds == Spec => []ListingsInv
  BY IInvHolds, InitListings, NextListings, PTL DEF Spec

(* Whatever scans do, and however many records there are, the indexes of a *)
(* listing agree, and the crate of all records has what any crate has      *)
(* (listing_add, index_insert, bin_search).                                *)
THEOREM ListingsDoAgree == Spec => []ListingsAgree
<1>1. ListingsInv => ListingsAgree
  BY DEF ListingsInv, ListedIn, ListingsAgree
<1> QED
  BY ListingsInvHolds, <1>1, PTL

-----------------------------------------------------------------------------
(* List boxes.                                                             *)

Box == [entries : Nat, lines : Nat \ {0}, offset : Nat, selected : Int]

OnEntry(box) == InWindow(box) /\ box.selected < AtLeast(1, box.entries)

(* The half of a window is in the window.                                  *)
LEMMA HalfOfWindow ==
  ASSUME NEW n \in Nat \ {0}
  PROVE  n \div 2 \in Nat /\ n \div 2 < n
  OBVIOUS

(* What CursorVisible says of the program, for a list of any length and a  *)
(* window of any height: every operation of listbox.c leaves a cursor that *)
(* is on an entry and in the window in the window.                         *)
THEOREM ListboxKeepsCursor ==
  ASSUME NEW box \in Box, OnEntry(box), NEW n \in Nat
  PROVE  /\ InWindow(Up(box, n)) /\ InWindow(Down(box, n))
         /\ InWindow(First(box)) /\ InWindow(Final(box))
         /\ n < box.entries => InWindow(To(box, n))
         /\ InWindow(SetEntries(box, n))
         /\ n # 0 => InWindow(SetLines(box, n))
<1> USE DEF Box, OnEntry, InWindow, AtLeast, AtMost
<1>1. box.lines \div 2 \in Nat /\ box.lines \div 2 < box.lines
  BY HalfOfWindow
<1>2. InWindow(Up(box, n))
  BY <1>1 DEF Up
<1>3. InWindow(Down(box, n))
  BY <1>1 DEF Down
<1>4. InWindow(First(box)) /\ InWindow(Final(box))
  BY DEF First, Final
<1>5. n < box.entries => InWindow(To(box, n))
  BY DEF To
<1>6. InWindow(SetEntries(box, n))
  BY DEF SetEntries, Within
<1>7. n # 0 => InWindow(SetLines(box, n))
  BY DEF SetLines, Within
<1> QED
  BY <1>2, <1>3, <1>4, <1>5, <1>6, <1>7

-----------------------------------------------------------------------------
(* The selector's list boxes.                                              *)

Sorts == {"artist", "bpm", "playlist"}

OnCrate(box) == box.entries = Len(Crates) /\ box.selected \in 0 .. Len(Crates) - 1 /\ InWindow(box)

BoxesInv ==
  /\ records \in Box /\ crates \in Box
  /\ OnCrate(crates) /\ toggle_back \in 0 .. Len(Crates) - 1
  /\ records.entries > 0 => records.selected >= 0

ViewInv ==
  /\ view \in {"a", "b"} /\ sort \in Sorts
  /\ index = [i \in {"a", "b"} |-> index[i]]
  /\ \A i \in {"a", "b"} : index[i].entries \in Nat
  /\ records.entries = index[view].entries

LEMMA BoxFields ==
  ASSUME NEW box \in Box
  PROVE  /\ box.entries \in Nat /\ box.lines \in Nat /\ box.lines # 0 /\ box.offset \in Nat
         /\ box.selected \in Int
         /\ box = [entries |-> box.entries, lines |-> box.lines, offset |-> box.offset,
                   selected |-> box.selected]
  BY DEF Box

(* What the operations of listbox.c leave of a list box.                   *)
LEMMA BoxOperations ==
  ASSUME NEW box \in Box, NEW n \in Nat
  PROVE  /\ Up(box, n) \in Box /\ Up(box, n).entries = box.entries
         /\ Down(box, n) \in Box /\ Down(box, n).entries = box.entries
         /\ First(box) \in Box /\ First(box).entries = box.entries
         /\ Final(box) \in Box /\ Final(box).entries = box.entries
         /\ To(box, n) \in Box /\ To(box, n).entries = box.entries
         /\ SetEntries(box, n) \in Box /\ SetEntries(box, n).entries = n
         /\ n # 0 => SetLines(box, n) \in Box /\ SetLines(box, n).entries = box.entries
<1>0. PICK e \in Nat, l \in Nat, o \in Nat, s \in Int :
        l # 0 /\ e = box.entries /\ l = box.lines /\ o = box.offset /\ s = box.selected
  BY BoxFields
<1>1. PICK h \in Nat : h = l \div 2 /\ h < l
  BY <1>0, HalfOfWindow
<1>3. Up(box, n) \in Box /\ Up(box, n).entries = box.entries
  <2> DEFINE ss == AtLeast(0, s - n)
             oo == IF ss < o THEN AtLeast(0, ss + h - l + 1) ELSE o
  <2>1. Up(box, n) = [box EXCEPT !.selected = ss, !.offset = oo]
    BY <1>0, <1>1 DEF Up
  <2>2. ss \in Int /\ oo \in Nat
    BY <1>0, <1>1 DEF AtLeast
  <2> HIDE DEF ss, oo
  <2> QED
    BY <2>1, <2>2 DEF Box
<1>4. Down(box, n) \in Box /\ Down(box, n).entries = box.entries
  <2> DEFINE ss == AtMost(e - 1, s + n)
             oo == IF ss >= o + l THEN AtMost(e - l, ss - h) ELSE o
  <2>1. Down(box, n) = [box EXCEPT !.selected = ss, !.offset = oo]
    BY <1>0, <1>1 DEF Down
  <2>2. ss \in Int /\ oo \in Nat
    BY <1>0, <1>1 DEF AtMost
  <2> HIDE DEF ss, oo
  <2> QED
    BY <2>1, <2>2 DEF Box
<1>5. First(box) \in Box /\ First(box).entries = box.entries
  <2>1. First(box) = [box EXCEPT !.selected = 0, !.offset = 0] /\ 0 \in Nat /\ 0 \in Int
    BY DEF First
  <2> QED
    BY <2>1 DEF Box
<1>6. Final(box) \in Box /\ Final(box).entries = box.entries
  <2> DEFINE ss == e - 1
             oo == AtLeast(0, e - l)
  <2>1. Final(box) = [box EXCEPT !.selected = ss, !.offset = oo]
    BY <1>0 DEF Final
  <2>2. ss \in Int /\ oo \in Nat
    BY <1>0 DEF AtLeast
  <2> HIDE DEF ss, oo
  <2> QED
    BY <2>1, <2>2 DEF Box
<1>7. To(box, n) \in Box /\ To(box, n).entries = box.entries
  <2> DEFINE oo == AtLeast(0, n - (s - o))
  <2>1. To(box, n) = [box EXCEPT !.selected = n, !.offset = oo]
    BY <1>0 DEF To
  <2>2. oo \in Nat /\ n \in Int
    BY <1>0 DEF AtLeast
  <2> HIDE DEF oo
  <2> QED
    BY <2>1, <2>2 DEF Box
<1>8. SetEntries(box, n) \in Box /\ SetEntries(box, n).entries = n
  <2> DEFINE t == [box EXCEPT !.entries = n]
             ss == AtLeast(0, AtMost(n - 1, s))
             oo == IF o + l > n THEN AtLeast(0, n - l) ELSE o
  <2>1. t \in Box /\ t.entries = n /\ t.lines = l /\ t.offset = o /\ t.selected = s
    BY <1>0 DEF Box
  <2>2. SetEntries(box, n) = [t EXCEPT !.selected = ss, !.offset = oo]
    BY <1>0, <2>1 DEF SetEntries, Within
  <2>3. ss \in Int /\ oo \in Nat
    BY <1>0 DEF AtLeast, AtMost
  <2> HIDE DEF ss, oo, t
  <2> QED
    BY <2>1, <2>2, <2>3 DEF Box
<1>9. ASSUME n # 0 PROVE SetLines(box, n) \in Box /\ SetLines(box, n).entries = box.entries
  <2> DEFINE u == [box EXCEPT !.lines = n]
             ss == AtMost(o + n - 1, s)
             t == [box EXCEPT !.lines = n, !.selected = ss]
             oo == IF o + n > e THEN AtLeast(0, e - n) ELSE o
  <2>1. ss \in Int /\ oo \in Nat
    BY <1>0 DEF AtLeast, AtMost
  <2>2. SetLines(box, n) = [t EXCEPT !.offset = Within(t, @)]
    BY <1>0 DEF SetLines
  <2> HIDE DEF ss
  <2>3. t \in Box /\ t.entries = e /\ t.lines = n /\ t.offset = o
    BY <1>0, <1>9, <2>1 DEF Box
  <2>4. Within(t, t.offset) = oo
    BY <2>3 DEF Within
  <2> HIDE DEF oo, t
  <2>5. SetLines(box, n) = [t EXCEPT !.offset = oo]
    BY <2>2, <2>4
  <2> QED
    BY <1>0, <2>1, <2>3, <2>5 DEF Box
<1> QED
  BY <1>3, <1>4, <1>5, <1>6, <1>7, <1>8, <1>9

(* Where the cursor is after them.                                         *)
LEMMA BoxSelected ==
  ASSUME NEW box \in Box, NEW n \in Nat
  PROVE  /\ Up(box, n).selected = AtLeast(0, box.selected - n)
         /\ Down(box, n).selected = AtMost(box.entries - 1, box.selected + n)
         /\ First(box).selected = 0 /\ Final(box).selected = box.entries - 1
         /\ To(box, n).selected = n
         /\ SetEntries(box, n).selected = AtLeast(0, AtMost(n - 1, box.selected))
         /\ SetLines(box, n).selected = AtMost(box.offset + n - 1, box.selected)
  BY DEF Box, Up, Down, First, Final, To, SetEntries, SetLines

LEMMA RetainedBox ==
  ASSUME NEW box \in Box, NEW seq, box.entries = Len(seq), NEW to, NEW order
  PROVE  /\ Retained(box, seq, to, order) \in Box
         /\ Retained(box, seq, to, order).entries = box.entries
         /\ box.entries > 0 /\ box.selected >= 0 => Retained(box, seq, to, order).selected >= 0
         /\ OnEntry(box) => InWindow(Retained(box, seq, to, order))
<1>1. CASE Retained(box, seq, to, order) = box
  BY <1>1 DEF OnEntry
<1>2. CASE Retained(box, seq, to, order) # box
  <2>1. PICK n \in 0 .. Len(seq) - 1 : Retained(box, seq, to, order) = To(box, n)
    BY <1>2 DEF Retained
  <2>2. n \in Nat /\ n < box.entries
    BY <2>1 DEF Box
  <2>3. /\ To(box, n) \in Box /\ To(box, n).entries = box.entries
        /\ To(box, n).selected = n
    BY <2>2, BoxOperations, BoxSelected
  <2>4. OnEntry(box) => InWindow(To(box, n))
    BY <2>2, ListboxKeepsCursor
  <2> QED
    BY <2>1, <2>2, <2>3, <2>4
<1> QED
  BY <1>1, <1>2

LEMMA HuntedBox ==
  ASSUME NEW box \in Box, NEW ix, ix.entries = box.entries
  PROVE  /\ Hunted(box, ix) \in Box
         /\ Hunted(box, ix).entries = box.entries
         /\ box.selected >= 0 => Hunted(box, ix).selected >= 0
         /\ OnEntry(box) /\ box.selected >= 0 => InWindow(Hunted(box, ix))
<1>1. CASE Hunted(box, ix) = box
  BY <1>1 DEF OnEntry
<1>2. CASE Hunted(box, ix) # box
  <2>1. Hunted(box, ix) = [box EXCEPT !.selected = @ + 1, !.offset = @ + 1] /\ box.selected < box.entries
    BY <1>2 DEF Hunted
  <2> DEFINE b == Hunted(box, ix)
             ss == box.selected + 1
             oo == box.offset + 1
  <2>2. b = [box EXCEPT !.selected = ss, !.offset = oo]
    BY <2>1
  <2>3. /\ box.entries \in Nat /\ box.lines \in Nat /\ box.lines # 0 /\ box.offset \in Nat
        /\ box.selected \in Int /\ ss = box.selected + 1 /\ oo = box.offset + 1
    BY BoxFields
  <2>4. ss \in Int /\ oo \in Nat
    BY <2>3
  <2> HIDE DEF b, ss, oo
  <2>5. /\ b \in Box /\ b.entries = box.entries /\ b.lines = box.lines
        /\ b.selected = ss /\ b.offset = oo
    BY <2>2, <2>4 DEF Box
  <2>6. OnEntry(box) /\ box.selected >= 0 => InWindow(b)
    BY <2>1, <2>3, <2>5 DEF OnEntry, InWindow
  <2>7. box.selected >= 0 => b.selected >= 0
    BY <2>3, <2>5
  <2> QED
    BY <2>5, <2>6, <2>7 DEF b
<1> QED
  BY <1>1, <1>2

(* The cursor is on an entry after the number of entries was set.          *)
LEMMA EntriesSet ==
  ASSUME NEW box \in Box, NEW n \in Nat
  PROVE  /\ SetEntries(box, n).selected >= 0
         /\ SetEntries(box, n).selected < AtLeast(1, n)
         /\ OnEntry(box) => OnEntry(SetEntries(box, n))
<1>1. /\ SetEntries(box, n).selected \in Nat
      /\ SetEntries(box, n).selected < AtLeast(1, n)
  <2>1. SetEntries(box, n).selected = AtLeast(0, AtMost(n - 1, box.selected))
    BY BoxSelected
  <2>2. box.selected \in Int
    BY BoxFields
  <2> QED
    BY <2>1, <2>2 DEF AtLeast, AtMost
<1>2. OnEntry(box) => InWindow(SetEntries(box, n))
  BY ListboxKeepsCursor
<1>3. SetEntries(box, n).entries = n
  BY BoxOperations
<1> QED
  BY <1>1, <1>2, <1>3 DEF OnEntry

LEMMA CrateIs ==
  ASSUME NEW box \in Box, OnCrate(box)
  PROVE  CrateOf(box) \in Scanned \cup {CRATE_ALL}
<1>1. Crates \in Seq(Scanned \cup {CRATE_ALL})
  BY SelectorAssumption
<1>2. box.selected + 1 \in 1 .. Len(Crates)
  BY <1>1 DEF OnCrate
<1> QED
  BY <1>1, <1>2 DEF CrateOf

LEMMA ListingOfCrate ==
  ASSUME IInv, ListingsInv, NEW c \in Scanned \cup {CRATE_ALL}
  PROVE  /\ ListingOf(c, storage, scan, excrate) \in ListingType
         /\ IsListing(ListingOf(c, storage, scan, excrate))
<1>1. CASE c = CRATE_ALL
  BY <1>1 DEF ListingOf, ListingsInv
<1>2. CASE c # CRATE_ALL
  <2>1. excrate[c] \in Excrates
    BY <1>2 DEF IInv, ScanTypes
  <2> QED
    BY <1>2, <2>1 DEF ListingOf, ListingsInv, ListedIn
<1> QED
  BY <1>1, <1>2

LEMMA SortedListing ==
  ASSUME NEW l \in ListingType, NEW order \in Sorts
  PROVE  /\ Sorted(l, order) \in Seq(Records)
         /\ order = "artist" => Sorted(l, order) = l.by_artist
         /\ order = "bpm" => Sorted(l, order) = l.by_bpm
         /\ order = "playlist" => Sorted(l, order) = l.by_order
<1>1. CASE order = "artist"
  BY <1>1 DEF Sorted, ListingType
<1>2. CASE order = "bpm"
  BY <1>2 DEF Sorted, ListingType
<1>3. CASE order = "playlist"
  BY <1>3 DEF Sorted, ListingType
<1> QED
  BY <1>1, <1>2, <1>3 DEF Sorts

LEMMA NextSortIs == \A order \in Sorts : NextSort[order] \in Sorts
  BY DEF Sorts, NextSort

(* do_content_change()                                                     *)
LEMMA ContentChanged ==
  ASSUME BoxesInv, ViewInv, NEW l \in ListingType, NEW order \in Sorts, NEW s, NEW to,
         ContentChange(l, order, s, to),
         NEW seq, seq = Matched(Sorted(l, order), s)
  PROVE  /\ seq \in Seq(Records)
         /\ index' = [i \in {"a", "b"} |-> index'[i]]
         /\ index'[view] = Store(index[view], seq)
         /\ \A i \in {"a", "b"} : i # view => index'[i] = index[i]
         /\ records' = Retained(SetEntries(records, Len(seq)), seq, to, order)
         /\ records' \in Box /\ records'.entries = Len(seq)
         /\ records'.entries > 0 => records'.selected >= 0
         /\ \A i \in {"a", "b"} : index'[i].entries \in Nat
         /\ records'.entries = index'[view].entries
         /\ OnEntry(records) => InWindow(records')
<1>1. seq \in Seq(Records)
  BY SortedListing, MatchedSet
<1>2. /\ index' = [index EXCEPT ![view] = Store(@, seq)]
      /\ records' = Retained(SetEntries(records, Len(seq)), seq, to, order)
  BY DEF ContentChange
<1>3. /\ index' = [i \in {"a", "b"} |-> index'[i]]
      /\ index'[view] = Store(index[view], seq)
      /\ \A i \in {"a", "b"} : i # view => index'[i] = index[i]
  BY <1>2 DEF ViewInv
<1>4. Len(seq) \in Nat /\ index'[view].entries = Len(seq)
  BY <1>1, <1>3 DEF Store
<1> DEFINE box == SetEntries(records, Len(seq))
<1>5. /\ box \in Box /\ box.entries = Len(seq) /\ box.selected >= 0
      /\ OnEntry(records) => OnEntry(box)
  BY <1>4, BoxOperations, EntriesSet DEF BoxesInv
<1> HIDE DEF box
<1>6. /\ Retained(box, seq, to, order) \in Box
      /\ Retained(box, seq, to, order).entries = Len(seq)
      /\ box.entries > 0 => Retained(box, seq, to, order).selected >= 0
      /\ OnEntry(box) => InWindow(Retained(box, seq, to, order))
  BY <1>5, RetainedBox
<1>7. records' = Retained(box, seq, to, order)
  BY <1>2 DEF box
<1>8. \A i \in {"a", "b"} : index'[i].entries \in Nat
  BY <1>3, <1>4 DEF ViewInv
<1> QED
  BY <1>1, <1>2, <1>3, <1>4, <1>5, <1>6, <1>7, <1>8

(* The cursor after an addition.                                           *)
LEMMA AdditionBox ==
  ASSUME NEW old \in Box, NEW seq, Len(seq) \in Nat, Len(seq) # 0,
         NEW ix, ix.entries = Len(seq), NEW new,
         \/ new = Retained(SetEntries(old, Len(seq)), seq, target, sort)
         \/ new = Hunted(SetEntries(old, Len(seq)), ix)
  PROVE  /\ new \in Box /\ new.entries = Len(seq) /\ new.selected >= 0
         /\ OnEntry(old) => InWindow(new)
<1> DEFINE box == SetEntries(old, Len(seq))
<1>1. /\ box \in Box /\ box.entries = Len(seq) /\ box.selected >= 0 /\ box.entries > 0
      /\ OnEntry(old) => OnEntry(box)
  BY BoxOperations, EntriesSet
<1> HIDE DEF box
<1>2. /\ Retained(box, seq, target, sort) \in Box
      /\ Retained(box, seq, target, sort).entries = box.entries
      /\ Retained(box, seq, target, sort).selected >= 0
      /\ OnEntry(box) => InWindow(Retained(box, seq, target, sort))
  BY <1>1, RetainedBox
<1>3. /\ Hunted(box, ix) \in Box /\ Hunted(box, ix).entries = box.entries
      /\ Hunted(box, ix).selected >= 0
      /\ OnEntry(box) => InWindow(Hunted(box, ix))
  BY <1>1, HuntedBox
<1>4. new \in {Retained(box, seq, target, sort), Hunted(box, ix)}
  BY DEF box
<1> QED
  BY <1>1, <1>2, <1>3, <1>4

(* A view with one record more.                                            *)
With(order, v, r) == IF order = "playlist" THEN Append(v, r) ELSE Insert(v, r, Rank(order))

(* merge_addition() of a record that matches.                              *)
LEMMA AdditionMerged ==
  ASSUME BoxesInv, ViewInv, NEW r, MergeAddition(r), Matches(r, search),
         Len(With(sort, Entries(index[view]), r)) \in Nat,
         Len(With(sort, Entries(index[view]), r)) # 0
  PROVE  LET seq == With(sort, Entries(index[view]), r) IN
         /\ index' = [i \in {"a", "b"} |-> index'[i]]
         /\ index'[view] = Store(index[view], seq)
         /\ \A i \in {"a", "b"} : i # view => index'[i] = index[i]
         /\ records' = IF r = target
                       THEN Retained(SetEntries(records, Len(seq)), seq, target, sort)
                       ELSE Hunted(SetEntries(records, Len(seq)), Store(index[view], seq))
         /\ records' \in Box /\ records'.entries = Len(seq) /\ records'.selected >= 0
         /\ \A i \in {"a", "b"} : index'[i].entries \in Nat
         /\ records'.entries = index'[view].entries
         /\ OnEntry(records) => InWindow(records')
<1> DEFINE seq == With(sort, Entries(index[view]), r)
           box == SetEntries(records, Len(seq))
           ix == Store(index[view], seq)
<1>1. /\ index' = [index EXCEPT ![view] = ix]
      /\ records' = IF r = target THEN Retained(box, seq, target, sort) ELSE Hunted(box, ix)
  BY DEF MergeAddition, view_index, With
<1>2. ix.entries = Len(seq) /\ Len(seq) \in Nat /\ Len(seq) # 0
  BY DEF Store
<1> HIDE DEF box, ix, seq
<1>3. /\ index' = [i \in {"a", "b"} |-> index'[i]]
      /\ index'[view] = ix
      /\ \A i \in {"a", "b"} : i # view => index'[i] = index[i]
  BY <1>1 DEF ViewInv
<1>4. /\ records' \in Box /\ records'.entries = Len(seq) /\ records'.selected >= 0
      /\ OnEntry(records) => InWindow(records')
  BY <1>1, <1>2, AdditionBox DEF BoxesInv, box
<1>5. \A i \in {"a", "b"} : index'[i].entries \in Nat
  BY <1>2, <1>3 DEF ViewInv
<1> QED
  BY <1>1, <1>2, <1>3, <1>4, <1>5 DEF box, ix, seq

(* What do_content_change() leaves of the two list boxes and of the view.  *)
ListShown ==
  /\ records' \in Box /\ (records'.entries > 0 => records'.selected >= 0)
  /\ index' = [i \in {"a", "b"} |-> index'[i]]
  /\ \A i \in {"a", "b"} : index'[i].entries \in Nat
  /\ records'.entries = index'[view'].entries
  /\ OnEntry(records) => InWindow(records')

LEMMA ContentShown ==
  ASSUME BoxesInv, ViewInv, NEW l \in ListingType, NEW order \in Sorts, NEW s, NEW to,
         ContentChange(l, order, s, to), view' = view
  PROVE  ListShown
<1> DEFINE seq == Matched(Sorted(l, order), s)
<1>1. /\ index' = [i \in {"a", "b"} |-> index'[i]]
      /\ records' \in Box
      /\ records'.entries > 0 => records'.selected >= 0
      /\ \A i \in {"a", "b"} : index'[i].entries \in Nat
      /\ records'.entries = index'[view].entries
      /\ OnEntry(records) => InWindow(records')
  BY ContentChanged
<1> QED
  BY <1>1 DEF ListShown

LEMMA ShownKeeps ==
  ASSUME BoxesInv, ViewInv, ListShown, view' \in {"a", "b"}, sort' \in Sorts,
         crates' \in Box, OnCrate(crates'), toggle_back' \in 0 .. Len(Crates) - 1
  PROVE  BoxesInv' /\ ViewInv'
  BY DEF BoxesInv, ViewInv, ListShown

LEMMA SameShown ==
  ASSUME BoxesInv, ViewInv, records' = records, index' = index, view' = view
  PROVE  ListShown
  BY DEF BoxesInv, ViewInv, ListShown, OnEntry

(* A line of a scan: the addition is of a record, so the view grows by one *)
(* entry, or by none when the record is in it already.                     *)
LEMMA LineShown ==
  ASSUME IInv, ListingsInv, BoxesInv, ViewInv, NEW e \in Excrates, Line(e)
  PROVE  ListShown
<1>1. view' = view /\ ReadLine(e)
  BY DEF Line
<1>2. CASE index' = index /\ records' = records
  BY <1>1, <1>2, SameShown
<1>3. CASE ~(index' = index /\ records' = records)
  <2> DEFINE r == Head(scan[e].left)
             V == Entries(index[view])
             seq == With(sort, V, r)
  <2>1. MergeAddition(r) /\ Matches(r, search)
    BY <1>3 DEF Line, MergeAddition
  <2>2. Len(V) \in Nat /\ V = [i \in 1 .. Len(V) |-> V[i]]
    BY DEF Entries, ViewInv
  <2> HIDE DEF V, r
  <2> DEFINE S == {V[i] : i \in 1 .. Len(V)} \cup {r}
             z == BinSearch(V, r, Rank(sort))
  <2>5. V \in Seq(S) /\ r \in S
    BY <2>2
  <2>6. z \in 0 .. Len(V)
    BY <2>2, SearchBound
  <2>7. Insert(V, r, Rank(sort)) = IF z < Len(V) /\ V[z + 1] = r THEN V ELSE InsertAt(V, z + 1, r)
    BY DEF Insert, Found
  <2> HIDE DEF S, z
  <2>8. Len(InsertAt(V, z + 1, r)) = Len(V) + 1
    BY <2>5, <2>6, InsertAtIs
  <2>3. Len(seq) \in Nat /\ Len(seq) # 0
    BY <2>2, <2>5, <2>6, <2>7, <2>8 DEF With
  <2>4. /\ index' = [i \in {"a", "b"} |-> index'[i]]
        /\ records' \in Box /\ records'.selected >= 0
        /\ \A i \in {"a", "b"} : index'[i].entries \in Nat
        /\ records'.entries = index'[view].entries
        /\ OnEntry(records) => InWindow(records')
    BY <2>1, <2>3, AdditionMerged DEF V
  <2> QED
    BY <1>1, <2>4 DEF ListShown
<1> QED
  BY <1>2, <1>3

LEMMA RescanShown ==
  ASSUME IInv, ListingsInv, BoxesInv, ViewInv, NEW e \in Excrates, NEW output \in Outputs,
         SelectorRescan(e, output)
  PROVE  ListShown
<1>1. view' = view
  BY DEF SelectorRescan
<1>2. CASE index' = index /\ records' = records
  BY <1>1, <1>2, SameShown
<1>3. CASE ContentChange(scan'[e].listing, sort, search, target)
  <2>1. scan'[e].listing \in ListingType
    BY NextListings DEF Next, ListingsInv, ListedIn
  <2> QED
    BY <1>1, <1>3, <2>1, ContentShown DEF ViewInv
<1> QED
  BY <1>2, <1>3 DEF SelectorRescan

(* The crate that the cursor of the crates is on is shown.                 *)
LEMMA CrateShown ==
  ASSUME IInv, ListingsInv, BoxesInv, ViewInv, NEW box \in Box, OnCrate(box),
         NEW order \in Sorts, NEW s, NEW to,
         ContentChange(ListingOf(CrateOf(box), storage, scan, excrate), order, s, to),
         view' = view
  PROVE  ListShown
<1> DEFINE l == ListingOf(CrateOf(box), storage, scan, excrate)
<1>1. l \in ListingType
  BY CrateIs, ListingOfCrate
<1>2. ContentChange(l, order, s, to)
  OBVIOUS
<1> HIDE DEF l
<1> QED
  BY <1>1, <1>2, ContentShown

(* Any move of the cursor over the crates leaves it on one.                *)
LEMMA CratesMoved ==
  ASSUME BoxesInv, NEW box,
         \/ box \in {Up(crates, 1), Down(crates, 1), First(crates), To(crates, toggle_back)}
         \/ \E lines \in LineCounts : box = SetLines(crates, lines)
  PROVE  box \in Box /\ OnCrate(box)
<1>0. /\ Len(Crates) \in Nat /\ Len(Crates) # 0
      /\ \A lines \in LineCounts : lines \in Nat /\ lines # 0
  BY SelectorAssumption
<1>1. /\ crates \in Box /\ crates.entries = Len(Crates) /\ InWindow(crates)
      /\ crates.selected \in 0 .. Len(Crates) - 1 /\ toggle_back \in 0 .. Len(Crates) - 1
      /\ crates.offset \in Nat
  BY BoxFields DEF BoxesInv, OnCrate
<1>2. OnEntry(crates)
  BY <1>0, <1>1 DEF OnEntry, AtLeast
<1>3. ASSUME NEW n \in Nat, n = 1, box \in {Up(crates, n), Down(crates, n), First(crates)}
      PROVE  box \in Box /\ OnCrate(box)
  <2>0. /\ Up(crates, n) \in Box /\ Up(crates, n).entries = Len(Crates)
        /\ Down(crates, n) \in Box /\ Down(crates, n).entries = Len(Crates)
        /\ First(crates) \in Box /\ First(crates).entries = Len(Crates)
        /\ Up(crates, n).selected = AtLeast(0, crates.selected - n)
        /\ Down(crates, n).selected = AtMost(crates.entries - 1, crates.selected + n)
        /\ First(crates).selected = 0
    BY <1>1, BoxOperations, BoxSelected
  <2>1. box \in Box /\ box.entries = Len(Crates)
    BY <1>3, <2>0
  <2>2. InWindow(box)
    BY <1>1, <1>2, <1>3, ListboxKeepsCursor
  <2>3. box.selected \in {AtLeast(0, crates.selected - n),
                          AtMost(crates.entries - 1, crates.selected + n), 0}
    BY <1>3, <2>0
  <2>4. box.selected \in 0 .. Len(Crates) - 1
    BY <1>0, <1>1, <1>3, <2>3 DEF AtLeast, AtMost
  <2> QED
    BY <2>1, <2>2, <2>4 DEF OnCrate
<1>4. ASSUME NEW n \in Nat, n = toggle_back, box = To(crates, n)
      PROVE  box \in Box /\ OnCrate(box)
  <2>1. box \in Box /\ box.entries = Len(Crates)
    BY <1>1, <1>4, BoxOperations
  <2>2. n < crates.entries
    BY <1>0, <1>1, <1>4
  <2>3. InWindow(box)
    BY <1>1, <1>2, <1>4, <2>2, ListboxKeepsCursor
  <2>4. box.selected = n
    BY <1>1, <1>4, BoxSelected
  <2> QED
    BY <1>1, <1>4, <2>1, <2>3, <2>4 DEF OnCrate
<1>5. ASSUME NEW n \in Nat, n # 0, box = SetLines(crates, n)
      PROVE  box \in Box /\ OnCrate(box)
  <2>1. box \in Box /\ box.entries = Len(Crates)
    BY <1>1, <1>5, BoxOperations
  <2>2. InWindow(box)
    BY <1>1, <1>2, <1>5, ListboxKeepsCursor
  <2>3. box.selected = AtMost(crates.offset + n - 1, crates.selected)
    BY <1>1, <1>5, BoxSelected
  <2>4. box.selected \in 0 .. Len(Crates) - 1
    BY <1>0, <1>1, <1>5, <2>3 DEF AtMost
  <2> QED
    BY <2>1, <2>2, <2>4 DEF OnCrate
<1> QED
  BY <1>0, <1>1, <1>3, <1>4, <1>5

LEMMA MoveShown ==
  ASSUME BoxesInv, ViewInv, Move
  PROVE  ListShown
<1>0. records \in Box /\ records.lines \in Nat /\ records.entries \in Nat /\ records.selected \in Int
  BY BoxFields DEF BoxesInv
<1>1. ASSUME NEW n \in Nat, n # 0,
             records' \in {Up(records, n), Down(records, n), First(records), Final(records)}
      PROVE  ListShown
  <2>1. records' \in Box /\ records'.entries = records.entries
    BY <1>0, <1>1, BoxOperations
  <2>2. OnEntry(records) => InWindow(records')
    BY <1>0, <1>1, ListboxKeepsCursor
  <2>3. records'.selected \in {AtLeast(0, records.selected - n),
                               AtMost(records.entries - 1, records.selected + n),
                               0, records.entries - 1}
    BY <1>0, <1>1, BoxSelected
  <2>4. records.entries > 0 => records'.selected >= 0
    BY <1>0, <1>1, <2>3 DEF AtLeast, AtMost, BoxesInv
  <2> QED
    BY <2>1, <2>2, <2>4 DEF ListShown, ViewInv, Move
<1>2. records.lines # 0
  BY BoxFields DEF BoxesInv
<1> QED
  BY <1>0, <1>1, <1>2 DEF Move

LEMMA RefineShown ==
  ASSUME BoxesInv, ViewInv, NEW k \in Keys, SearchRefine(k)
  PROVE  ListShown
<1> DEFINE V == Entries(view_index)
           seq == Matched(V, search')
<1>1. /\ index' = [index EXCEPT ![swap] = Store(@, seq)]
      /\ records' = SetEntries(records, Len(seq))
      /\ view' = swap /\ swap \in {"a", "b"}
  BY DEF SearchRefine, ViewInv, swap
<1>2. Len(V) \in Nat /\ V = [i \in 1 .. Len(V) |-> V[i]]
  BY DEF Entries, ViewInv, view_index
<1> HIDE DEF V
<1>3. Len(seq) \in Nat
  <2> DEFINE S == {V[i] : i \in 1 .. Len(V)}
  <2>1. V \in Seq(S)
    BY <1>2
  <2> QED
    BY <2>1, MatchedSet
<1> HIDE DEF seq
<1>4. /\ index' = [i \in {"a", "b"} |-> index'[i]]
      /\ index'[swap] = Store(index[swap], seq)
      /\ \A i \in {"a", "b"} : i # swap => index'[i] = index[i]
  BY <1>1 DEF ViewInv
<1>5. index'[swap].entries = Len(seq)
  BY <1>4 DEF Store
<1>6. /\ records' \in Box /\ records'.entries = Len(seq) /\ records'.selected >= 0
      /\ OnEntry(records) => OnEntry(records')
  BY <1>1, <1>3, BoxOperations, EntriesSet DEF BoxesInv
<1> QED
  BY <1>1, <1>3, <1>4, <1>5, <1>6 DEF ListShown, ViewInv, OnEntry

LEMMA LinesShown ==
  ASSUME BoxesInv, ViewInv, NEW lines \in LineCounts, SelectorSetLines(lines)
  PROVE  ListShown
<1>0. lines \in Nat /\ lines # 0
  BY SelectorAssumption
<1>1. records' = SetLines(records, lines) /\ index' = index /\ view' = view
  BY DEF SelectorSetLines
<1>2. records' \in Box /\ records'.entries = records.entries
  BY <1>0, <1>1, BoxOperations DEF BoxesInv
<1>3. OnEntry(records) => InWindow(records')
  BY <1>0, <1>1, ListboxKeepsCursor DEF BoxesInv
<1>4. records'.selected = AtMost(records.offset + lines - 1, records.selected)
  BY <1>1, <1>0, BoxSelected DEF BoxesInv
<1>5. records.entries > 0 => records'.selected >= 0
  <2>1. records.offset \in Nat /\ records.selected \in Int
    BY BoxFields DEF BoxesInv
  <2> QED
    BY <1>0, <1>4, <2>1 DEF AtMost, BoxesInv
<1> QED
  BY <1>1, <1>2, <1>3, <1>5 DEF ListShown, ViewInv

LEMMA FirstBox ==
  ASSUME NEW n \in Nat, NEW l \in Nat, l # 0
  PROVE  SetLines(SetEntries(NoListbox, n), l)
           = [entries |-> n, lines |-> l, offset |-> 0, selected |-> 0]
<1> DEFINE t == [entries |-> n, lines |-> 0, offset |-> 0, selected |-> 0]
           u == [entries |-> n, lines |-> l, offset |-> 0, selected |-> 0]
<1>1. SetEntries(NoListbox, n) = t
  <2> DEFINE v == [NoListbox EXCEPT !.entries = n]
  <2>1. v = [entries |-> n, lines |-> 0, offset |-> 0, selected |-> -1]
    BY DEF NoListbox
  <2>2. AtLeast(0, AtMost(n - 1, -1)) = 0 /\ Within(v, 0) = 0
    BY <2>1 DEF Within, AtLeast, AtMost
  <2>3. SetEntries(NoListbox, n)
          = [v EXCEPT !.selected = AtLeast(0, AtMost(n - 1, -1)), !.offset = Within(v, 0)]
    BY <2>1 DEF SetEntries
  <2> HIDE DEF v
  <2> QED
    BY <2>1, <2>2, <2>3
<1>2. SetLines(t, l) = u
  <2>1. AtMost(0 + l - 1, 0) = 0
    BY DEF AtMost
  <2>2. [t EXCEPT !.lines = l, !.selected = 0] = u
    <3>1. [t EXCEPT !.lines = l] = u
      OBVIOUS
    <3>2. [t EXCEPT !.lines = l, !.selected = 0] = [[t EXCEPT !.lines = l] EXCEPT !.selected = 0]
      OBVIOUS
    <3>3. [u EXCEPT !.selected = 0] = u
      OBVIOUS
    <3> QED
      BY <3>1, <3>2, <3>3
  <2>3. [t EXCEPT !.lines = l, !.selected = AtMost(t.offset + l - 1, @)] = u
    BY <2>1, <2>2
  <2>4. SetLines(t, l) = [u EXCEPT !.offset = Within(u, 0)]
    BY <2>3 DEF SetLines
  <2>5. Within(u, 0) = 0
    BY DEF Within, AtLeast
  <2> QED
    BY <2>4, <2>5
<1> QED
  BY <1>1, <1>2

LEMMA InitBoxes == Init => BoxesInv /\ ViewInv
<1> SUFFICES ASSUME Init PROVE BoxesInv /\ ViewInv
  OBVIOUS
<1>0. /\ Len(Crates) \in Nat /\ Len(Crates) # 0
      /\ \A lines \in LineCounts : lines \in Nat /\ lines # 0
  BY SelectorAssumption
<1>1. PICK lines \in LineCounts :
        /\ records = SetLines(SetEntries(NoListbox, 0), lines)
        /\ crates = SetLines(SetEntries(NoListbox, Len(Crates)), lines)
  BY DEF Init
<1>2. ASSUME NEW n \in Nat
      PROVE  SetLines(SetEntries(NoListbox, n), lines)
               = [entries |-> n, lines |-> lines, offset |-> 0, selected |-> 0]
  BY <1>0, FirstBox
<1>3. /\ records = [entries |-> 0, lines |-> lines, offset |-> 0, selected |-> 0]
      /\ crates = [entries |-> Len(Crates), lines |-> lines, offset |-> 0, selected |-> 0]
  BY <1>0, <1>1, <1>2
<1>4. /\ records \in Box /\ crates \in Box
      /\ OnCrate(crates)
  BY <1>0, <1>1, <1>3 DEF Box, OnCrate, InWindow
<1>5. PICK x \in Fresh : index = [i \in {"a", "b"} |-> BlankIndex(x)]
  BY DEF Init
<1>6. ViewInv
  BY <1>3, <1>5 DEF ViewInv, Init, BlankIndex, Sorts
<1> QED
  BY <1>0, <1>3, <1>4, <1>6 DEF BoxesInv, Init

(* Every step leaves the list boxes in order, and a cursor that was on an  *)
(* entry in the window.                                                    *)
LEMMA StepShown ==
  ASSUME IInv, ListingsInv, BoxesInv, ViewInv, [Next]_vars
  PROVE  BoxesInv' /\ ViewInv' /\ (OnEntry(records) => InWindow(records'))
<1>0. /\ view \in {"a", "b"} /\ sort \in Sorts
      /\ crates \in Box /\ OnCrate(crates) /\ toggle_back \in 0 .. Len(Crates) - 1
  BY DEF BoxesInv, ViewInv
<1> DEFINE InOrder == /\ ListShown /\ view' \in {"a", "b"} /\ sort' \in Sorts
                      /\ crates' \in Box /\ OnCrate(crates')
                      /\ toggle_back' \in 0 .. Len(Crates) - 1
<1>1. SUFFICES InOrder
  BY ShownKeeps DEF ListShown
<1>2. ASSUME NEW e \in Excrates, Line(e) PROVE InOrder
  BY <1>0, <1>2, LineShown DEF Line
<1>3. ASSUME NEW e \in Excrates, End(e) PROVE InOrder
  BY <1>0, <1>3, SameShown DEF End, selVars
<1>4. ASSUME NEW e \in Excrates, NEW output \in Outputs, SelectorRescan(e, output)
      PROVE  InOrder
  BY <1>0, <1>4, RescanShown DEF SelectorRescan
<1>5. CASE Move
  BY <1>0, <1>5, MoveShown DEF Move
<1>6. CASE PrevNext
  <2>1. PICK box \in {Up(crates, 1), Down(crates, 1)} : CrateChange(box)
    BY <1>6 DEF PrevNext
  <2>2. box \in Box /\ OnCrate(box)
    BY <2>1, CratesMoved
  <2>3. ListShown
    BY <1>0, <2>1, <2>2, CrateShown DEF CrateChange
  <2> QED
    BY <1>0, <1>6, <2>1, <2>2, <2>3 DEF CrateChange, PrevNext
<1>7. CASE Toggle
  <2>1. PICK box \in {First(crates), To(crates, toggle_back)} :
          CrateChange(box) /\ toggle_back' \in {toggle_back, crates.selected}
    BY <1>7 DEF Toggle
  <2>2. box \in Box /\ OnCrate(box)
    BY <2>1, CratesMoved
  <2>3. ListShown
    BY <1>0, <2>1, <2>2, CrateShown DEF CrateChange
  <2> QED
    BY <1>0, <2>1, <2>2, <2>3 DEF CrateChange, OnCrate
<1>8. CASE ToggleOrder
  <2>1. sort' \in Sorts
    BY <1>0, <1>8, NextSortIs DEF ToggleOrder
  <2>2. ListShown
    BY <1>0, <1>8, <2>1, CrateShown DEF ToggleOrder, current_crate
  <2> QED
    BY <1>0, <1>8, <2>1, <2>2 DEF ToggleOrder
<1>9. CASE SearchExpand
  <2>1. ListShown
    BY <1>0, <1>9, CrateShown DEF SearchExpand, current_crate
  <2> QED
    BY <1>0, <1>9, <2>1 DEF SearchExpand
<1>10. ASSUME NEW k \in Keys, SearchRefine(k) PROVE InOrder
  BY <1>0, <1>10, RefineShown DEF SearchRefine, swap
<1>11. ASSUME NEW lines \in LineCounts, SelectorSetLines(lines) PROVE InOrder
  BY <1>0, <1>11, LinesShown, CratesMoved DEF SelectorSetLines
<1>12. CASE UNCHANGED vars
  BY <1>0, <1>12, SameShown DEF vars, selVars
<1> QED
  BY <1>2, <1>3, <1>4, <1>5, <1>6, <1>7, <1>8, <1>9, <1>10, <1>11, <1>12 DEF Next

LEMMA BoxesHold == Spec => [](BoxesInv /\ ViewInv)
  BY IInvHolds, ListingsInvHolds, InitBoxes, StepShown, PTL DEF Spec

(* Whatever the library and the keys do, a cursor that is on an entry and  *)
(* in the window is in the window afterwards (listbox.c and its callers in *)
(* selector.c).                                                            *)
THEOREM CursorIsVisible == Spec => CursorVisible
<1>1. IInv /\ ListingsInv /\ BoxesInv /\ ViewInv /\ [Next]_vars =>
        [InWindow(records) /\ records.selected < AtLeast(1, records.entries)
           => InWindow(records')]_vars
  BY StepShown DEF OnEntry
<1> QED
  BY <1>1, IInvHolds, ListingsInvHolds, BoxesHold, PTL DEF Spec, CursorVisible

-----------------------------------------------------------------------------
(* The view.  SelectorSetLines moves the cursor of the crates into a       *)
(* window that shrinks below it without a change of the crate, and the     *)
(* view is then that of another crate: what follows is about windows that  *)
(* do not shrink.                                                          *)

NeverShrinks == [][crates'.lines >= crates.lines]_vars

ViewOf(l, order, s) == Matched(Sorted(l, order), s)

Current == ListingOf(CrateOf(crates), storage, scan, excrate)

MatchInv ==
  /\ watched = CrateOf(crates) /\ search \in Seq(Keys)
  /\ Entries(index[view]) = ViewOf(Current, sort, search)

LEMMA RankIs ==
  ASSUME NEW order \in Sorts
  PROVE  Rank(order) \in [Records -> Int] /\ IsInjective(Rank(order))
  BY ListingsAssumption DEF Rank

LEMMA ListingSorted ==
  ASSUME NEW l \in ListingType, IsListing(l), NEW order \in Sorts
  PROVE  /\ Sorted(l, order) \in Seq(Records) /\ IsInjective(Sorted(l, order))
         /\ order # "playlist" => IsSortedBy(Sorted(l, order), Rank(order))
<1>0. /\ l.by_artist \in Seq(Records) /\ l.by_bpm \in Seq(Records)
      /\ l.by_order \in Seq(Records)
  BY DEF ListingType
<1>1. CASE order = "artist"
  <2>1. Sorted(l, order) = l.by_artist /\ Rank(order) = ARTIST
    BY <1>1 DEF Sorted, Rank
  <2>2. ARTIST \in [Records -> Int] /\ IsSortedBy(l.by_artist, ARTIST)
    BY ListingsAssumption DEF IsListing
  <2> QED
    BY <1>0, <2>1, <2>2, SortedInjective
<1>2. CASE order = "bpm"
  <2>1. Sorted(l, order) = l.by_bpm /\ Rank(order) = BPM
    BY <1>2 DEF Sorted, Rank
  <2>2. BPM \in [Records -> Int] /\ IsSortedBy(l.by_bpm, BPM)
    BY ListingsAssumption DEF IsListing
  <2> QED
    BY <1>0, <2>1, <2>2, SortedInjective
<1>3. CASE order = "playlist"
  <2>1. Sorted(l, order) = l.by_order
    BY <1>3 DEF Sorted
  <2> QED
    BY <1>0, <1>3, <2>1 DEF IsListing
<1> QED
  BY <1>1, <1>2, <1>3 DEF Sorts

(* A view is in order, its records are different, and it fits into an      *)
(* index.                                                                  *)
LEMMA ViewFits ==
  ASSUME NEW l \in ListingType, IsListing(l), NEW order \in Sorts, NEW s
  PROVE  /\ ViewOf(l, order, s) \in Seq(Records) /\ IsInjective(ViewOf(l, order, s))
         /\ order # "playlist" => IsSortedBy(ViewOf(l, order, s), Rank(order))
         /\ Len(ViewOf(l, order, s)) \in Nat
         /\ Size \in Nat /\ Len(ViewOf(l, order, s)) < Size
         /\ ToSet(ViewOf(l, order, s)) \subseteq ToSet(Sorted(l, order))
<1> DEFINE q == Sorted(l, order)
           v == Matched(q, s)
<1>1. /\ q \in Seq(Records) /\ IsInjective(q)
      /\ order # "playlist" => IsSortedBy(q, Rank(order))
  BY ListingSorted
<1> HIDE DEF q
<1>2. v \in Seq(Records) /\ IsInjective(v) /\ ToSet(v) \subseteq ToSet(q)
  BY <1>1, MatchedSet, MatchedInjective
<1>3. order # "playlist" => IsSortedBy(v, Rank(order))
  BY <1>1, RankIs, MatchedSorted
<1>4. Len(v) \in Nat /\ Size \in Nat /\ Len(v) < Size
  BY <1>2, EntriesFit
<1> QED
  BY <1>2, <1>3, <1>4 DEF ViewOf, q

(* What is stored is what is read.                                         *)
LEMMA StoredEntries ==
  ASSUME NEW seq \in Seq(Records), Size \in Nat, Len(seq) < Size, NEW ix
  PROVE  /\ Entries(Store(ix, seq)) = seq /\ Store(ix, seq).entries = Len(seq)
         /\ \A i \in 1 .. Len(seq) : Store(ix, seq).record[i] = seq[i]
<1>1. Len(seq) \in Nat /\ seq = [i \in 1 .. Len(seq) |-> seq[i]]
  OBVIOUS
<1>2. Store(ix, seq).entries = Len(seq)
  BY DEF Store
<1>3. \A i \in 1 .. Len(seq) : Store(ix, seq).record[i] = seq[i]
  BY <1>1 DEF Store
<1> DEFINE t == Store(ix, seq)
<1> HIDE DEF t
<1>4. Entries(t) = [i \in 1 .. t.entries |-> t.record[i]]
  BY <1>1, <1>2 DEF Entries, t
<1>5. Entries(t) = seq
  BY <1>1, <1>2, <1>3, <1>4 DEF t
<1> QED
  BY <1>2, <1>3, <1>5 DEF t

(* The view of a listing that has one record more.                         *)
LEMMA AdditionView ==
  ASSUME NEW l \in ListingType, IsListing(l), NEW r \in Records, r \notin ToSet(l.by_order),
         NEW order \in Sorts, NEW s
  PROVE  ViewOf(Added(l, r), order, s) =
           IF ~Matches(r, s) THEN ViewOf(l, order, s)
           ELSE IF order = "playlist" THEN Append(ViewOf(l, order, s), r)
           ELSE Insert(ViewOf(l, order, s), r, Rank(order))
<1>1. /\ Added(l, r).by_artist = Insert(l.by_artist, r, ARTIST)
      /\ Added(l, r).by_bpm = Insert(l.by_bpm, r, BPM)
      /\ Added(l, r).by_order = Append(l.by_order, r)
  BY AddedListing
<1> DEFINE q == Sorted(l, order)
<1>2. q \in Seq(Records) /\ (order # "playlist" => IsSortedBy(q, Rank(order)))
  BY ListingSorted
<1>3. CASE order = "playlist"
  <2>1. Sorted(Added(l, r), order) = Append(q, r)
    BY <1>1, <1>3 DEF Sorted
  <2> HIDE DEF q
  <2>2. Matched(Append(q, r), s) = IF Matches(r, s) THEN Append(Matched(q, s), r) ELSE Matched(q, s)
    BY <1>2, MatchedAppend
  <2> QED
    BY <1>3, <2>1, <2>2 DEF ViewOf, q
<1>4. CASE order # "playlist"
  <2>1. Sorted(Added(l, r), order) = Insert(q, r, Rank(order))
    BY <1>1, <1>4 DEF Sorted, Rank, Sorts
  <2> HIDE DEF q
  <2>2. Matched(Insert(q, r, Rank(order)), s)
          = IF Matches(r, s) THEN Insert(Matched(q, s), r, Rank(order)) ELSE Matched(q, s)
    BY <1>2, <1>4, RankIs, MatchedInsert
  <2> QED
    BY <1>4, <2>1, <2>2 DEF ViewOf, q
<1> QED
  BY <1>3, <1>4

(* The selector hears of a line exactly when the crate that it watches     *)
(* gets a record by it.                                                    *)
LEMMA LineListing ==
  ASSUME IInv, ListingsInv, NEW e \in Excrates, ReadLine(e),
         NEW c \in Scanned \cup {CRATE_ALL}
  PROVE  LET l == ListingOf(c, storage, scan, excrate)
             m == ListingOf(c, storage', scan', excrate')
             r == Head(scan[e].left)
         IN  IF c \in Notified(e) THEN m = Added(l, r) /\ r \notin ToSet(l.by_order)
             ELSE m = l
<1> DEFINE l == ListingOf(c, storage, scan, excrate)
           m == ListingOf(c, storage', scan', excrate')
           r == Head(scan[e].left)
<1>0. /\ r \in Records /\ storage' = Added(storage, r)
      /\ scan'[e].listing = Added(scan[e].listing, r)
      /\ \A f \in Excrates : f # e => scan'[f] = scan[f]
  BY LineAdds
<1>1. excrate' = excrate
  BY DEF ReadLine
<1>2. l \in ListingType /\ IsListing(l)
  BY ListingOfCrate
<1>3. m # l /\ m = Added(l, r) => r \notin ToSet(l.by_order)
  <2> HIDE DEF r, l, m
  <2> QED
    BY <1>0, <1>2, AddedListing
<1>4. CASE c = CRATE_ALL
  <2>1. l = storage /\ m = storage'
    BY <1>4 DEF ListingOf
  <2>2. c \in Notified(e) <=> m # l
    BY <1>4, <2>1, LibraryAssumption DEF Notified
  <2> HIDE DEF r, l, m
  <2>3. m = Added(l, r)
    BY <1>0, <2>1
  <2> QED
    BY <1>3, <2>2, <2>3 DEF r, l, m
<1>5. CASE c # CRATE_ALL
  <2>1. c \in Scanned /\ excrate[c] \in Excrates /\ (<<c, e>> \in watches <=> excrate[c] = e)
    BY <1>5 DEF IInv, ScanTypes, Watching
  <2>2. l = scan[excrate[c]].listing /\ m = scan'[excrate[c]].listing
    BY <1>1, <1>5 DEF ListingOf
  <2>3. c \in Notified(e) <=> (excrate[c] = e /\ m # l)
    BY <1>5, <2>1, <2>2 DEF Notified
  <2> HIDE DEF r, l, m
  <2>4. IF excrate[c] = e THEN m = Added(l, r) ELSE m = l
    BY <1>0, <2>1, <2>2
  <2> QED
    BY <1>3, <2>3, <2>4 DEF r, l, m
<1> QED
  BY <1>4, <1>5

LEMMA ContentMatches ==
  ASSUME BoxesInv, ViewInv, NEW l \in ListingType, IsListing(l), NEW order \in Sorts,
         NEW s, NEW to, ContentChange(l, order, s, to)
  PROVE  Entries(index'[view]) = ViewOf(l, order, s)
<1> DEFINE seq == ViewOf(l, order, s)
<1>1. index' = [index EXCEPT ![view] = Store(@, seq)]
  BY DEF ContentChange, ViewOf
<1>2. seq \in Seq(Records) /\ Size \in Nat /\ Len(seq) < Size
  BY ViewFits
<1> HIDE DEF seq
<1>3. index'[view] = Store(index[view], seq)
  BY <1>1 DEF ViewInv
<1> QED
  BY <1>2, <1>3, StoredEntries DEF seq

LEMMA CurrentIs ==
  ASSUME IInv, ListingsInv, BoxesInv
  PROVE  /\ CrateOf(crates) \in Scanned \cup {CRATE_ALL}
         /\ Current \in ListingType /\ IsListing(Current)
  BY CrateIs, ListingOfCrate DEF BoxesInv, Current

(* The view gets a record that it does not have.                           *)
Merged(r) ==
  /\ r \in Records /\ r \notin ToSet(Entries(index[view])) /\ Matches(r, search)
  /\ MergeAddition(r)
  /\ Entries(index'[view]) = With(sort, Entries(index[view]), r)

(* What the merge of an addition writes into the view.                     *)
LEMMA LineMatches ==
  ASSUME IInv, ListingsInv, BoxesInv, ViewInv, MatchInv, NEW e \in Excrates, Line(e)
  PROVE  /\ Entries(index'[view]) = ViewOf(Current', sort, search)
         /\ UNCHANGED <<index, records>> \/ \E r : Merged(r)
<1> DEFINE l == Current
           m == Current'
           c == CrateOf(crates)
           r == Head(scan[e].left)
           V == ViewOf(l, sort, search)
<1>0. /\ ReadLine(e) /\ crates' = crates /\ view' = view /\ sort \in Sorts
      /\ view \in {"a", "b"} /\ watched = c
  BY DEF Line, ViewInv, MatchInv
<1>1. c \in Scanned \cup {CRATE_ALL} /\ l \in ListingType /\ IsListing(l)
  BY CurrentIs
<1>2. r \in Records
  BY <1>0, LineAdds
<1>3. l = ListingOf(c, storage, scan, excrate) /\ m = ListingOf(c, storage', scan', excrate')
  BY <1>0 DEF Current
<1>4. IF c \in Notified(e) THEN m = Added(l, r) /\ r \notin ToSet(l.by_order) ELSE m = l
  BY <1>0, <1>1, <1>3, LineListing
<1>5. IF c \in Notified(e) THEN MergeAddition(r) ELSE UNCHANGED <<index, records>>
  BY <1>0 DEF Line
<1>6. V = Entries(index[view])
  BY DEF MatchInv
<1>7. V \in Seq(Records) /\ ToSet(V) \subseteq ToSet(l.by_order)
  <2> HIDE DEF l
  <2>1. V \in Seq(Records) /\ ToSet(V) \subseteq ToSet(Sorted(l, sort))
    BY <1>0, <1>1, ViewFits
  <2>2. ToSet(Sorted(l, sort)) = ToSet(l.by_order)
    BY <1>0, <1>1 DEF IsListing, Sorted, Sorts
  <2> QED
    BY <2>1, <2>2
<1> HIDE DEF l, m, c, r
<1>8. CASE c \notin Notified(e)
  <2>1. m = l /\ index' = index /\ records' = records
    BY <1>4, <1>5, <1>8
  <2> QED
    BY <1>6, <2>1 DEF m
<1>9. CASE c \in Notified(e)
  <2> DEFINE seq == With(sort, V, r)
             W == ViewOf(m, sort, search)
  <2>1. m = Added(l, r) /\ r \notin ToSet(l.by_order) /\ MergeAddition(r)
    BY <1>4, <1>5, <1>9
  <2>2. W = IF ~Matches(r, search) THEN V ELSE seq
    BY <1>0, <1>1, <1>2, <2>1, AdditionView DEF With
  <2>3. m \in ListingType /\ IsListing(m)
    BY <1>1, <1>2, <2>1, AddedListing
  <2>4. W \in Seq(Records) /\ Size \in Nat /\ Len(W) < Size
    BY <1>0, <2>3, ViewFits
  <2>5. IF ~Matches(r, search) THEN index' = index /\ records' = records
        ELSE index' = [index EXCEPT ![view] = Store(index[view], seq)]
    BY <1>6, <2>1 DEF MergeAddition, view_index, With
  <2> HIDE DEF V, seq, W
  <2>6. CASE ~Matches(r, search)
    BY <1>6, <2>2, <2>5, <2>6 DEF W, m
  <2>7. CASE Matches(r, search)
    <3>1. index'[view] = Store(index[view], W)
      BY <1>0, <2>2, <2>5, <2>7 DEF ViewInv
    <3>2. Entries(Store(index[view], W)) = W
      BY <2>4, StoredEntries
    <3>4. r \notin ToSet(V)
      BY <1>7, <2>1
    <3>5. Entries(index'[view]) = With(sort, V, r)
      BY <2>2, <2>7, <3>1, <3>2 DEF seq
    <3>6. Merged(r)
      BY <1>2, <1>6, <2>1, <2>7, <3>4, <3>5 DEF Merged
    <3> QED
      BY <3>1, <3>2, <3>6 DEF W, m
  <2> QED
    BY <2>6, <2>7
<1> QED
  BY <1>8, <1>9

(* The end of a scan leaves the listings that are shown.                   *)
LEMMA EndMatches ==
  ASSUME IInv, ListingsInv, BoxesInv, NEW e \in Excrates, End(e)
  PROVE  Current' = Current
<1> DEFINE c == CrateOf(crates)
<1>1. /\ c \in Scanned \cup {CRATE_ALL} /\ crates' = crates /\ EndScan(e)
      /\ storage' = storage /\ excrate' = excrate
  BY CurrentIs DEF End, selVars, EndScan
<1> HIDE DEF c
<1>2. CASE c = CRATE_ALL
  BY <1>1, <1>2 DEF Current, ListingOf, c
<1>3. CASE c # CRATE_ALL
  <2> DEFINE f == excrate[c]
  <2>1. c \in Scanned /\ f \in Excrates /\ IsHeld(f)
    BY <1>1, <1>3 DEF IInv, ScanTypes, IsHeld
  <2>2. scan = [g \in Excrates |-> scan[g]] /\ IsScan(scan[f])
    BY <2>1 DEF IInv, ScanTypes
  <2>3. scan' = [scan EXCEPT ![e] = Released([@ EXCEPT !.pid = FALSE])] /\ scan[e].pid
    BY <1>1 DEF EndScan
  <2>4. scan'[f].listing = scan[f].listing
    <3>1. CASE f # e
      BY <2>1, <2>2, <2>3, <3>1
    <3>2. CASE f = e
      <4> DEFINE x == [scan[f] EXCEPT !.pid = FALSE]
      <4>1. scan[f].refcount = 2
        BY <2>1, <2>3, <3>2 DEF IInv, CountExact
      <4>2. x.refcount = 2 /\ x.pid = FALSE /\ x.listing = scan[f].listing /\ IsScan(x)
        BY <2>2, <4>1 DEF IsScan
      <4>3. scan'[f] = Released(x)
        BY <2>1, <2>2, <2>3, <3>2
      <4> HIDE DEF x
      <4>4. Released(x) = [x EXCEPT !.refcount = @ - 1]
        BY <4>2 DEF Released
      <4>5. Released(x).listing = x.listing
        BY <4>2, <4>4 DEF IsScan
      <4> QED
        BY <4>2, <4>3, <4>5
    <3> QED
      BY <3>1, <3>2
  <2> QED
    BY <1>1, <1>3, <2>4 DEF Current, ListingOf, c
<1> QED
  BY <1>2, <1>3

LEMMA RescanMatches ==
  ASSUME IInv, ListingsInv, BoxesInv, ViewInv, MatchInv,
         NEW e \in Excrates, NEW output \in Outputs, SelectorRescan(e, output)
  PROVE  Entries(index'[view]) = ViewOf(Current', sort, search)
<1> DEFINE c == CrateOf(crates)
<1>1. /\ c \in Scanned /\ c # CRATE_ALL /\ crates' = crates /\ watched = c
      /\ excrate' = [excrate EXCEPT ![c] = e]
      /\ ContentChange(scan'[e].listing, sort, search, target)
  BY LibraryAssumption DEF SelectorRescan, Rescan, current_crate, MatchInv
<1>2. excrate'[c] = e
  BY <1>1 DEF IInv, ScanTypes
<1>3. Current' = scan'[e].listing
  BY <1>1, <1>2 DEF Current, ListingOf
<1>4. scan'[e].listing \in ListingType /\ IsListing(scan'[e].listing)
  BY NextListings DEF Next, ListingsInv, ListedIn
<1>5. sort \in Sorts
  BY DEF ViewInv
<1> QED
  BY <1>1, <1>3, <1>4, <1>5, ContentMatches

LEMMA RefineMatches ==
  ASSUME IInv, ListingsInv, BoxesInv, ViewInv, MatchInv, NEW k \in Keys, SearchRefine(k)
  PROVE  Entries(index'[view']) = ViewOf(Current, sort, search')
<1> DEFINE q == Sorted(Current, sort)
           seq == Matched(Entries(view_index), search')
<1>1. /\ search' = Append(search, k) /\ view' = swap
      /\ index' = [index EXCEPT ![swap] = Store(@, seq)]
  BY DEF SearchRefine
<1>2. sort \in Sorts /\ swap \in {"a", "b"} /\ search \in Seq(Keys)
  BY DEF ViewInv, swap, MatchInv
<1>3. Current \in ListingType /\ IsListing(Current)
  BY CurrentIs
<1>4. q \in Seq(Records)
  BY <1>2, <1>3, ListingSorted
<1>5. Entries(view_index) = Matched(q, search)
  BY DEF MatchInv, ViewOf, view_index
<1> DEFINE W == ViewOf(Current, sort, search')
<1>6. seq = W
  <2> HIDE DEF q
  <2>1. Matched(Matched(q, search), Append(search, k)) = Matched(q, Append(search, k))
    BY <1>2, <1>4, MatchedTwice
  <2> QED
    BY <1>1, <1>5, <2>1 DEF ViewOf, q
<1>7. W \in Seq(Records) /\ Size \in Nat /\ Len(W) < Size
  BY <1>2, <1>3, ViewFits
<1> HIDE DEF W, seq
<1>8. index'[swap] = Store(index[swap], W)
  BY <1>1, <1>2, <1>6 DEF ViewInv
<1>9. Entries(Store(index[swap], W)) = W
  BY <1>7, StoredEntries
<1> QED
  BY <1>1, <1>8, <1>9 DEF W

(* A change of the crate, the order or the search shows what they give.    *)
LEMMA ChangeMatches ==
  ASSUME IInv, ListingsInv, BoxesInv, ViewInv, NEW box \in Box, OnCrate(box),
         NEW order \in Sorts, NEW s, NEW to,
         ContentChange(ListingOf(CrateOf(box), storage, scan, excrate), order, s, to)
  PROVE  Entries(index'[view])
           = ViewOf(ListingOf(CrateOf(box), storage, scan, excrate), order, s)
<1> DEFINE l == ListingOf(CrateOf(box), storage, scan, excrate)
<1>1. l \in ListingType /\ IsListing(l)
  BY CrateIs, ListingOfCrate
<1>2. ContentChange(l, order, s, to)
  OBVIOUS
<1> HIDE DEF l
<1>3. Entries(index'[view]) = ViewOf(l, order, s)
  BY <1>1, <1>2, ContentMatches
<1> QED
  BY <1>3 DEF l

(* A window that does not shrink leaves the cursor of the crates alone.    *)
LEMMA LinesMatches ==
  ASSUME BoxesInv, NEW lines \in LineCounts, SelectorSetLines(lines),
         crates'.lines >= crates.lines
  PROVE  crates'.selected = crates.selected
<1>0. lines \in Nat /\ crates \in Box /\ crates' = SetLines(crates, lines)
  BY SelectorAssumption DEF BoxesInv, SelectorSetLines
<1>1. /\ crates.offset \in Nat /\ crates.lines \in Nat /\ crates.selected \in Int
      /\ Len(Crates) \in Nat /\ Len(Crates) # 0
  BY <1>0, BoxFields, SelectorAssumption
<1>2. crates.selected \in crates.offset .. crates.offset + crates.lines - 1
  BY <1>1 DEF BoxesInv, OnCrate, InWindow
<1>3. crates'.lines = lines
  BY <1>0 DEF SetLines, Box
<1>4. crates'.selected = AtMost(crates.offset + lines - 1, crates.selected)
  BY <1>0, BoxSelected
<1> QED
  BY <1>0, <1>1, <1>2, <1>3, <1>4 DEF AtMost

LEMMA InitMatches == Init => MatchInv
<1> SUFFICES ASSUME Init PROVE MatchInv
  OBVIOUS
<1>1. BoxesInv /\ ViewInv /\ IInv /\ ListingsInv
  BY InitBoxes, InitIInv, InitListings
<1>2. CrateOf(crates) = Crates[1] /\ watched = Crates[1] /\ search = << >> /\ sort \in Sorts
  <2>1. PICK lines \in LineCounts :
          crates = SetLines(SetEntries(NoListbox, Len(Crates)), lines)
    BY DEF Init
  <2>2. Len(Crates) \in Nat /\ lines \in Nat /\ lines # 0
    BY SelectorAssumption
  <2>3. crates.selected = 0
    BY <2>1, <2>2, FirstBox
  <2> QED
    BY <2>3 DEF Init, CrateOf, Sorts
<1>3. storage = EmptyListing /\ \A e \in Excrates : scan[e].listing = EmptyListing
  BY DEF Init, InitLibrary, Started, Freed
<1>4. Current = EmptyListing
  <2>1. CrateOf(crates) # CRATE_ALL => excrate[CrateOf(crates)] \in Excrates
    BY <1>1, CurrentIs DEF IInv, ScanTypes
  <2> QED
    BY <1>3, <2>1 DEF Current, ListingOf
<1>5. ViewOf(Current, sort, search) = << >>
  <2>1. Sorted(EmptyListing, sort) = << >>
    BY <1>2, EmptyIsListing DEF Sorted, Sorts
  <2> QED
    BY <1>4, <2>1, MatchedEmpty DEF ViewOf
<1>6. Entries(index[view]) = << >>
  BY DEF Init, BlankIndex, Entries
<1> QED
  BY <1>2, <1>5, <1>6 DEF MatchInv

LEMMA NextMatches ==
  ASSUME IInv, ListingsInv, BoxesInv, ViewInv, MatchInv, [Next]_vars,
         crates'.lines >= crates.lines
  PROVE  MatchInv'
<1>0. /\ watched = CrateOf(crates) /\ search \in Seq(Keys)
      /\ Entries(index[view]) = ViewOf(Current, sort, search)
      /\ crates \in Box /\ OnCrate(crates) /\ sort \in Sorts
  BY DEF MatchInv, BoxesInv, ViewInv
<1>1. ASSUME /\ watched' = CrateOf(crates') /\ search' \in Seq(Keys)
             /\ Entries(index'[view']) = ViewOf(Current', sort', search')
      PROVE  MatchInv'
  BY <1>1 DEF MatchInv
<1>2. ASSUME NEW e \in Excrates, Line(e) PROVE MatchInv'
  BY <1>0, <1>1, <1>2, LineMatches DEF Line
<1>3. ASSUME NEW e \in Excrates, End(e) PROVE MatchInv'
  BY <1>0, <1>1, <1>3, EndMatches DEF End, selVars
<1>4. ASSUME NEW e \in Excrates, NEW output \in Outputs, SelectorRescan(e, output)
      PROVE  MatchInv'
  BY <1>0, <1>1, <1>4, RescanMatches DEF SelectorRescan
<1>5. CASE Move
  BY <1>0, <1>1, <1>5 DEF Move, Current, libraryVars
<1>6. ASSUME NEW box, box \in Box, OnCrate(box), CrateChange(box) PROVE MatchInv'
  <2>1. /\ crates' = box /\ watched' = CrateOf(box) /\ view' = view /\ sort' = sort
        /\ search' = search /\ storage' = storage /\ scan' = scan /\ excrate' = excrate
        /\ ContentChange(ListingOf(CrateOf(box), storage, scan, excrate), sort, search, target)
    BY <1>6 DEF CrateChange, libraryVars
  <2>2. Entries(index'[view])
          = ViewOf(ListingOf(CrateOf(box), storage, scan, excrate), sort, search)
    BY <1>0, <1>6, <2>1, ChangeMatches
  <2> QED
    BY <1>0, <1>1, <2>1, <2>2 DEF Current
<1>7. CASE PrevNext
  BY <1>6, <1>7, CratesMoved DEF PrevNext
<1>8. CASE Toggle
  BY <1>6, <1>8, CratesMoved DEF Toggle
<1>9. CASE ToggleOrder
  <2>1. /\ crates' = crates /\ watched' = watched /\ view' = view /\ sort' \in Sorts
        /\ search' = search /\ storage' = storage /\ scan' = scan /\ excrate' = excrate
        /\ ContentChange(Current, sort', search, target')
    BY <1>0, <1>9, NextSortIs DEF ToggleOrder, libraryVars, Current, current_crate
  <2>2. Entries(index'[view]) = ViewOf(Current, sort', search)
    BY <1>0, <2>1, ChangeMatches DEF Current
  <2> QED
    BY <1>0, <1>1, <2>1, <2>2 DEF Current
<1>10. CASE SearchExpand
  <2>1. /\ crates' = crates /\ watched' = watched /\ view' = view /\ sort' = sort
        /\ search' = Front(search) /\ search # << >>
        /\ storage' = storage /\ scan' = scan /\ excrate' = excrate
        /\ ContentChange(Current, sort, search', target)
    BY <1>10 DEF SearchExpand, libraryVars, Current, current_crate
  <2>2. Entries(index'[view]) = ViewOf(Current, sort, search')
    BY <1>0, <2>1, ChangeMatches DEF Current
  <2>3. search' \in Seq(Keys)
    <3>1. Len(search) \in Nat /\ Len(search) - 1 \in Int /\ Front(search) = SubSeq(search, 1, Len(search) - 1)
      BY <1>0 DEF Front
    <3>2. \A i \in 1 .. Len(search) - 1 : search[i] \in Keys
      BY <1>0, <3>1
    <3>3. SubSeq(search, 1, Len(search) - 1) \in Seq(Keys)
      BY <3>1, <3>2, SubSeqProperties
    <3> QED
      BY <2>1, <3>1, <3>3
  <2> QED
    BY <1>0, <1>1, <2>1, <2>2, <2>3 DEF Current
<1>11. ASSUME NEW k \in Keys, SearchRefine(k) PROVE MatchInv'
  <2>1. /\ crates' = crates /\ watched' = watched /\ sort' = sort
        /\ search' = Append(search, k)
        /\ storage' = storage /\ scan' = scan /\ excrate' = excrate
    BY <1>11 DEF SearchRefine, libraryVars
  <2>2. Entries(index'[view']) = ViewOf(Current, sort, search')
    BY <1>11, RefineMatches
  <2> QED
    BY <1>0, <1>1, <2>1, <2>2 DEF Current
<1>12. ASSUME NEW lines \in LineCounts, SelectorSetLines(lines) PROVE MatchInv'
  <2>1. /\ watched' = watched /\ sort' = sort /\ search' = search
        /\ index' = index /\ view' = view
        /\ storage' = storage /\ scan' = scan /\ excrate' = excrate
    BY <1>12 DEF SelectorSetLines, libraryVars
  <2>2. CrateOf(crates') = CrateOf(crates)
    BY <1>12, LinesMatches DEF CrateOf
  <2> QED
    BY <1>0, <1>1, <2>1, <2>2 DEF Current
<1>13. CASE UNCHANGED vars
  BY <1>0, <1>1, <1>13 DEF vars, selVars, libraryVars, Current
<1> QED
  BY <1>2, <1>3, <1>4, <1>5, <1>7, <1>8, <1>9, <1>10, <1>11, <1>12, <1>13 DEF Next

LEMMA MatchHolds == Spec /\ NeverShrinks => []MatchInv
<1>1. /\ IInv /\ ListingsInv /\ BoxesInv /\ ViewInv /\ MatchInv
      /\ [Next]_vars /\ [crates'.lines >= crates.lines]_vars
      => MatchInv'
  <2> SUFFICES ASSUME IInv, ListingsInv, BoxesInv, ViewInv, MatchInv,
                      [Next]_vars, [crates'.lines >= crates.lines]_vars
               PROVE  MatchInv'
    OBVIOUS
  <2>1. crates.lines \in Nat
    BY BoxFields DEF BoxesInv
  <2>2. crates'.lines >= crates.lines
    BY <2>1 DEF vars, selVars
  <2> QED
    BY <2>2, NextMatches
<1> QED
  BY <1>1, IInvHolds, ListingsInvHolds, BoxesHold, InitMatches, PTL DEF Spec, NeverShrinks

(* For any records, crates, searches and scans: as long as the window does *)
(* not shrink, the view that additions, refined searches and swaps of the  *)
(* two indexes have made is what the crate, the order and the search give  *)
(* (do_content_change, merge_addition, selector_search_refine).            *)
THEOREM ViewIsTheMatch == Spec /\ NeverShrinks => []ViewIsMatch
<1>1. MatchInv /\ ViewInv => ViewIsMatch
  BY DEF MatchInv, ViewInv, ViewIsMatch, ViewOf, Current, view_index, current_crate
<1> QED
  BY <1>1, MatchHolds, BoxesHold, PTL

-----------------------------------------------------------------------------
(* The cursor and its target.                                              *)

(* An index that is in order, and a cursor that is on a record of it, or   *)
(* before it.                                                              *)
InOrder(v, order) ==
  /\ v \in Seq(Records) /\ IsInjective(v)
  /\ order # "playlist" => IsSortedBy(v, Rank(order))

OnTarget(v, n, to) == n + 1 \in 1 .. Len(v) /\ v[n + 1] = to

BeforeTarget(v, n, to) == \A p \in 1 .. Len(v) : v[p] = to => n <= p - 1

LEMMA TargetOnce ==
  ASSUME NEW v \in Seq(Records), IsInjective(v), NEW n \in Int, NEW to, OnTarget(v, n, to)
  PROVE  BeforeTarget(v, n, to)
<1>1. /\ Len(v) \in Nat /\ DOMAIN v = 1 .. Len(v)
  OBVIOUS
<1>2. \A i, j \in 1 .. Len(v) : v[i] = v[j] => i = j
  BY <1>1 DEF IsInjective
<1> QED
  BY <1>1, <1>2 DEF OnTarget, BeforeTarget

(* Where a record is, when each is there once.                             *)
LEMMA SelectOnce ==
  ASSUME NEW v \in Seq(Records), IsInjective(v), NEW to, NEW p \in 1 .. Len(v), v[p] = to
  PROVE  {i \in 1 .. Len(v) : v[i] = to} = {p} /\ Min({p}) = p
<1>1. /\ Len(v) \in Nat /\ DOMAIN v = 1 .. Len(v)
  OBVIOUS
<1>2. \A i, j \in 1 .. Len(v) : v[i] = v[j] => i = j
  BY <1>1 DEF IsInjective
<1>3. {i \in 1 .. Len(v) : v[i] = to} = {p}
  BY <1>2
<1>4. Min({p}) = p
  BY <1>1 DEF Min
<1> QED
  BY <1>3, <1>4

(* retain_target() finds the target when it is there.                      *)
LEMMA RetainedFinds ==
  ASSUME NEW order \in Sorts, NEW v, InOrder(v, order), NEW box \in Box,
         NEW to \in Records, to \in ToSet(v)
  PROVE  OnTarget(v, Retained(box, v, to, order).selected, to)
<1>0. /\ v \in Seq(Records) /\ IsInjective(v) /\ Len(v) \in Nat /\ DOMAIN v = 1 .. Len(v)
      /\ to # NULL
  BY SelectorAssumption DEF InOrder
<1>1. PICK n \in 0 .. Len(v) - 1 : v[n + 1] = to /\ Retained(box, v, to, order) = To(box, n)
  <2>1. CASE order = "playlist"
    <3>1. PICK p \in 1 .. Len(v) : v[p] = to
      BY <1>0 DEF ToSet
    <3> DEFINE I == {i \in 1 .. Len(v) : v[i] = to}
    <3>2. I = {p} /\ Min(I) = p
      BY <1>0, <3>1, SelectOnce
    <3>5. SelectInSeq(v, LAMBDA r : r = to) = IF I # {} THEN Min(I) ELSE 0
      BY DEF SelectInSeq
    <3> HIDE DEF I
    <3>6. SelectInSeq(v, LAMBDA r : r = to) = p
      BY <3>2, <3>5
    <3> DEFINE n == p - 1
    <3>3. n \in 0 .. Len(v) - 1 /\ n + 1 = p
      BY <1>0
    <3>4. Retained(box, v, to, order) = To(box, n)
      BY <1>0, <2>1, <3>3, <3>6 DEF Retained
    <3> QED
      BY <3>1, <3>3, <3>4
  <2>2. CASE order # "playlist"
    <3> DEFINE n == BinSearch(v, to, Rank(order))
    <3>1. Found(v, to, Rank(order))
      BY <1>0, <2>2, RankIs, FoundIsThere DEF InOrder
    <3>2. n < Len(v) /\ v[n + 1] = to
      BY <3>1 DEF Found
    <3>3. n \in 0 .. Len(v)
      BY <1>0, SearchBound
    <3> HIDE DEF n
    <3>4. n \in 0 .. Len(v) - 1
      BY <1>0, <3>2, <3>3
    <3>5. Retained(box, v, to, order) = To(box, n)
      BY <1>0, <2>2, <3>4 DEF Retained, n
    <3> QED
      BY <3>2, <3>4, <3>5
  <2> QED
    BY <2>1, <2>2
<1>2. To(box, n).selected = n
  BY <1>0, BoxSelected
<1> QED
  BY <1>0, <1>1, <1>2 DEF OnTarget

(* hunt_target() follows a target that another record has moved.           *)
LEMMA HuntedFollows ==
  ASSUME NEW v \in Seq(Records), NEW w \in Seq(Records), IsInjective(w), Len(w) = Len(v) + 1,
         \A p \in 1 .. Len(v) : v[p] = target => w[p] = target \/ w[p + 1] = target,
         \A q \in 1 .. Len(w) : w[q] = target =>
           (q <= Len(v) /\ v[q] = target) \/ (q > 1 /\ v[q - 1] = target),
         NEW box \in Box, box.selected \in 0 .. Len(v), BeforeTarget(v, box.selected, target),
         NEW ix, ix.entries = Len(w), \A i \in 1 .. Len(w) : ix.record[i] = w[i],
         target # NULL
  PROVE  /\ Hunted(box, ix).selected <= Len(w)
         /\ BeforeTarget(w, Hunted(box, ix).selected, target)
         /\ OnTarget(v, box.selected, target) => OnTarget(w, Hunted(box, ix).selected, target)
<1> DEFINE n == box.selected
           h == Hunted(box, ix).selected
<1>0. /\ Len(v) \in Nat /\ n \in Nat /\ n <= Len(v) /\ Len(w) = Len(v) + 1
      /\ \A i, j \in 1 .. Len(w) : w[i] = w[j] => i = j
  BY DEF IsInjective
<1>1. IF ix.record[n + 2] = target THEN h = n + 1 ELSE h = n
  <2>1. CASE ix.record[n + 2] = target
    <3>1. Hunted(box, ix) = [box EXCEPT !.selected = @ + 1, !.offset = @ + 1]
      BY <1>0, <2>1 DEF Hunted
    <3> QED
      BY <2>1, <3>1 DEF Box
  <2>2. CASE ix.record[n + 2] # target
    BY <2>2 DEF Hunted
  <2> QED
    BY <2>1, <2>2
<1>2. h \in Nat /\ h <= Len(w)
  BY <1>0, <1>1
<1> HIDE DEF h
<1>3. ASSUME NEW q \in 1 .. Len(w), w[q] = target
      PROVE  /\ h <= q - 1
             /\ OnTarget(v, n, target) => h = q - 1
  <2>1. PICK p \in 1 .. Len(v) : v[p] = target /\ q \in {p, p + 1}
    BY <1>0, <1>3
  <2>2. n <= p - 1
    BY <2>1 DEF BeforeTarget
  <2>3. n + 2 \in 1 .. Len(w)
    BY <1>0, <2>2
  <2>4. ix.record[n + 2] = target <=> q = n + 2
    BY <1>0, <1>3, <2>3
  <2>5. h <= q - 1
    BY <1>0, <1>1, <2>1, <2>2, <2>4
  <2>6. ASSUME OnTarget(v, n, target) PROVE h = q - 1
    <3>1. n + 1 \in 1 .. Len(v) /\ v[n + 1] = target
      BY <2>6 DEF OnTarget
    <3>2. w[n + 1] = target \/ w[n + 2] = target
      BY <1>0, <3>1
    <3>3. q = n + 1 \/ q = n + 2
      BY <1>0, <1>3, <2>3, <3>1, <3>2
    <3> QED
      BY <1>0, <1>1, <2>4, <3>3
  <2> QED
    BY <2>5, <2>6
<1>4. ASSUME OnTarget(v, n, target) PROVE OnTarget(w, h, target)
  <2>1. n + 1 \in 1 .. Len(v) /\ v[n + 1] = target
    BY <1>4 DEF OnTarget
  <2>2. n + 1 \in 1 .. Len(w) /\ n + 2 \in 1 .. Len(w)
    BY <1>0, <2>1
  <2>3. w[n + 1] = target \/ w[n + 2] = target
    BY <1>0, <2>1
  <2>4. PICK q \in 1 .. Len(w) : w[q] = target
    BY <2>2, <2>3
  <2>5. h + 1 = q
    BY <1>0, <1>2, <1>3, <1>4, <2>4
  <2> QED
    BY <2>4, <2>5 DEF OnTarget
<1> QED
  BY <1>2, <1>3, <1>4 DEF BeforeTarget, h

LEMMA EntriesAre ==
  ASSUME NEW ix, ix.entries \in Nat
  PROVE  /\ Len(Entries(ix)) = ix.entries
         /\ \A i \in 1 .. ix.entries : Entries(ix)[i] = ix.record[i]
  BY DEF Entries

LEMMA ViewInOrder ==
  ASSUME IInv, ListingsInv, BoxesInv, ViewInv, MatchInv
  PROVE  InOrder(Entries(index[view]), sort)
<1>1. Current \in ListingType /\ IsListing(Current) /\ sort \in Sorts
  BY CurrentIs DEF ViewInv
<1> QED
  BY <1>1, ViewFits DEF InOrder, MatchInv

(* do_content_change() puts the cursor on the target if it can.            *)
LEMMA ContentFollows ==
  ASSUME BoxesInv, ViewInv, NEW l \in ListingType, IsListing(l), NEW order \in Sorts,
         NEW s, NEW to, ContentChange(l, order, s, to)
  PROVE  /\ records'.selected <= records'.entries
         /\ BeforeTarget(Entries(index'[view]), records'.selected, to)
         /\ to \in ToSet(Entries(index'[view])) =>
              OnTarget(Entries(index'[view]), records'.selected, to)
<1> DEFINE w == ViewOf(l, order, s)
           box == SetEntries(records, Len(w))
<1>1. Entries(index'[view]) = w
  BY ContentMatches
<1>2. InOrder(w, order) /\ w \in Seq(Records) /\ Len(w) \in Nat /\ IsInjective(w)
  BY ViewFits DEF InOrder
<1>3. records' = Retained(box, w, to, order)
  BY DEF ContentChange, ViewOf
<1> HIDE DEF w
<1>4. box \in Box /\ box.entries = Len(w) /\ box.selected \in Int /\ box.selected <= Len(w)
  <2>1. box \in Box /\ box.entries = Len(w) /\ box.selected < AtLeast(1, Len(w))
    BY <1>2, BoxOperations, EntriesSet DEF BoxesInv
  <2>2. box.selected \in Int
    BY <2>1, BoxFields
  <2> QED
    BY <1>2, <2>1, <2>2 DEF AtLeast
<1> HIDE DEF box
<1>5. records'.selected \in Int /\ records'.selected <= records'.entries
  <2>1. CASE records' = box
    BY <1>4, <2>1
  <2>2. CASE records' # box
    <3>1. PICK n \in 0 .. Len(w) - 1 : records' = To(box, n)
      BY <1>3, <2>2 DEF Retained
    <3>2. n \in Nat /\ n <= Len(w)
      BY <1>2, <3>1
    <3>3. To(box, n).selected = n /\ To(box, n).entries = Len(w)
      BY <1>4, <3>2, BoxOperations, BoxSelected
    <3> QED
      BY <3>1, <3>2, <3>3
  <2> QED
    BY <2>1, <2>2
<1>6. CASE to \in ToSet(w)
  <2>1. to \in Records
    BY <1>2, <1>6 DEF ToSet
  <2>2. OnTarget(w, records'.selected, to)
    BY <1>2, <1>3, <1>4, <1>6, <2>1, RetainedFinds
  <2>3. BeforeTarget(w, records'.selected, to)
    BY <1>2, <1>5, <2>2, TargetOnce
  <2> QED
    BY <1>1, <1>5, <2>2, <2>3
<1>7. CASE to \notin ToSet(w)
  <2>1. BeforeTarget(w, records'.selected, to)
    BY <1>2, <1>7 DEF BeforeTarget, ToSet
  <2> QED
    BY <1>1, <1>5, <1>7, <2>1
<1> QED
  BY <1>6, <1>7

(* Where the records of a view are when one is added.                      *)
LEMMA AdditionPlaces ==
  ASSUME NEW order \in Sorts, NEW v, InOrder(v, order), NEW r \in Records, r \notin ToSet(v)
  PROVE  LET w == With(order, v, r) IN
         /\ w \in Seq(Records) /\ Len(w) = Len(v) + 1 /\ r \in ToSet(w)
         /\ \A to : to # r =>
              /\ \A p \in 1 .. Len(v) : v[p] = to => w[p] = to \/ w[p + 1] = to
              /\ \A q \in 1 .. Len(w) : w[q] = to =>
                   (q <= Len(v) /\ v[q] = to) \/ (q > 1 /\ v[q - 1] = to)
<1> DEFINE w == With(order, v, r)
<1>0. v \in Seq(Records) /\ Len(v) \in Nat
  BY DEF InOrder
<1>1. PICK z \in 0 .. Len(v) :
        /\ w \in Seq(Records) /\ Len(w) = Len(v) + 1
        /\ \A i \in 1 .. Len(v) + 1 :
             w[i] = IF i <= z THEN v[i] ELSE IF i = z + 1 THEN r ELSE v[i - 1]
  <2>1. CASE order = "playlist"
    <3>1. w = Append(v, r)
      BY <2>1 DEF With
    <3> HIDE DEF w
    <3>2. /\ w \in Seq(Records) /\ Len(w) = Len(v) + 1 /\ w[Len(v) + 1] = r
          /\ \A i \in 1 .. Len(v) : w[i] = v[i]
      BY <1>0, <3>1, AppendProperties
    <3>3. Len(v) \in 0 .. Len(v)
      BY <1>0
    <3>4. \A i \in 1 .. Len(v) + 1 :
             w[i] = IF i <= Len(v) THEN v[i] ELSE IF i = Len(v) + 1 THEN r ELSE v[i - 1]
      BY <1>0, <3>2
    <3> QED
      BY <3>2, <3>3, <3>4
  <2>2. CASE order # "playlist"
    <3> DEFINE z == BinSearch(v, r, Rank(order))
    <3>1. ~Found(v, r, Rank(order))
      BY <1>0, <2>2, RankIs, FoundIsThere DEF InOrder
    <3>2. z \in 0 .. Len(v)
      BY <1>0, SearchBound
    <3>3. w = InsertAt(v, z + 1, r)
      BY <2>2, <3>1 DEF Insert, With
    <3> HIDE DEF z, w
    <3>4. LET t == InsertAt(v, z + 1, r)
          IN  /\ t \in Seq(Records) /\ Len(t) = Len(v) + 1
              /\ \A i \in 1 .. Len(v) + 1 :
                   t[i] = IF i <= z THEN v[i] ELSE IF i = z + 1 THEN r ELSE v[i - 1]
      BY <1>0, <3>2, InsertAtIs
    <3> QED
      BY <3>2, <3>3, <3>4
  <2> QED
    BY <2>1, <2>2
<1> HIDE DEF w
<1>2. z \in Nat /\ z <= Len(v) /\ z + 1 \in 1 .. Len(w) /\ w[z + 1] = r
  BY <1>0, <1>1
<1>3. r \in ToSet(w)
  BY <1>1, <1>2 DEF ToSet
<1>4. ASSUME NEW to, to # r, NEW p \in 1 .. Len(v), v[p] = to
      PROVE  w[p] = to \/ w[p + 1] = to
  <2>1. CASE p <= z
    BY <1>0, <1>1, <1>4, <2>1
  <2>2. CASE z < p
    <3>1. p + 1 \in 1 .. Len(v) + 1 /\ ~(p + 1 <= z) /\ p + 1 # z + 1 /\ (p + 1) - 1 = p
      BY <1>0, <1>2, <2>2
    <3>2. w[p + 1] = v[(p + 1) - 1]
      BY <1>1, <3>1
    <3> QED
      BY <1>4, <3>1, <3>2
  <2> QED
    BY <1>2, <2>1, <2>2
<1>5. ASSUME NEW to, to # r, NEW q \in 1 .. Len(w), w[q] = to
      PROVE  (q <= Len(v) /\ v[q] = to) \/ (q > 1 /\ v[q - 1] = to)
  <2>1. w[q] = IF q <= z THEN v[q] ELSE IF q = z + 1 THEN r ELSE v[q - 1]
    BY <1>1
  <2> QED
    BY <1>0, <1>2, <1>5, <2>1
<1> QED
  BY <1>1, <1>3, <1>4, <1>5 DEF w

CursorInv ==
  /\ records.selected <= records.entries
  /\ BeforeTarget(Entries(index[view]), records.selected, target)

(* What CursorFollows says, of a step.                                     *)
Follows ==
  /\ target # NULL /\ target' = target /\ target \in ToSet(Entries(index'[view']))
  /\ target \in ToSet(Entries(index[view])) =>
       OnTarget(Entries(index[view]), records.selected, target) /\ InWindow(records)
  /\ records'.lines = records.lines
  => OnTarget(Entries(index'[view']), records'.selected, target)

LEMMA CursorSame ==
  ASSUME CursorInv, index' = index, view' = view, records' = records, target' = target
  PROVE  CursorInv' /\ Follows
  BY DEF CursorInv, Follows

LEMMA MergeFollows ==
  ASSUME BoxesInv, ViewInv, CursorInv, InOrder(Entries(index[view]), sort), NEW r, Merged(r),
         InOrder(Entries(index'[view]), sort), view' = view, target' = target
  PROVE  CursorInv' /\ Follows
<1> DEFINE v == Entries(index[view])
           w == Entries(index'[view])
           n == records.selected
           m == records'.selected
<1>0. /\ r \in Records /\ r \notin ToSet(v) /\ Matches(r, search) /\ MergeAddition(r)
      /\ w = With(sort, v, r) /\ sort \in Sorts
  BY DEF Merged, ViewInv
<1>1. /\ v \in Seq(Records) /\ IsInjective(v) /\ Len(v) \in Nat
      /\ IsInjective(w) /\ InOrder(v, sort) /\ InOrder(w, sort)
  BY DEF InOrder
<1>2. /\ Len(v) = records.entries /\ records \in Box /\ n \in Int /\ n <= Len(v)
      /\ Len(v) > 0 => n >= 0
      /\ BeforeTarget(v, n, target)
  BY EntriesAre, BoxFields DEF ViewInv, BoxesInv, CursorInv
<1> HIDE DEF v, w
<1>3. /\ w \in Seq(Records) /\ Len(w) = Len(v) + 1 /\ r \in ToSet(w)
      /\ \A to : to # r =>
           /\ \A p \in 1 .. Len(v) : v[p] = to => w[p] = to \/ w[p + 1] = to
           /\ \A q \in 1 .. Len(w) : w[q] = to =>
                (q <= Len(v) /\ v[q] = to) \/ (q > 1 /\ v[q - 1] = to)
  <2> DEFINE u == With(sort, v, r)
  <2>1. /\ u \in Seq(Records) /\ Len(u) = Len(v) + 1 /\ r \in ToSet(u)
        /\ \A to : to # r =>
             /\ \A p \in 1 .. Len(v) : v[p] = to => u[p] = to \/ u[p + 1] = to
             /\ \A q \in 1 .. Len(u) : u[q] = to =>
                  (q <= Len(v) /\ v[q] = to) \/ (q > 1 /\ v[q - 1] = to)
    <3>1. r \in Records /\ r \notin ToSet(v) /\ InOrder(v, sort) /\ sort \in Sorts
      BY <1>0, <1>1
    <3> QED
      BY <3>1, AdditionPlaces, Zenon
  <2> HIDE DEF u
  <2>2. w = u
    BY <1>0 DEF u
  <2> QED
    BY <2>1, <2>2
<1> DEFINE box == SetEntries(records, Len(w))
           ix == Store(index[view], w)
<1>4. /\ records' = IF r = target THEN Retained(box, w, target, sort) ELSE Hunted(box, ix)
      /\ records'.entries = Len(w)
  <2>1. Len(With(sort, v, r)) \in Nat /\ Len(With(sort, v, r)) # 0
    BY <1>0, <1>1, <1>3
  <2> QED
    BY <1>0, <2>1, AdditionMerged DEF v
<1>5. /\ ix.entries = Len(w) /\ \A i \in 1 .. Len(w) : ix.record[i] = w[i]
  BY <1>1, <1>3, EntriesFit, StoredEntries
<1>6. /\ box \in Box /\ box.entries = Len(w)
      /\ box.selected = AtLeast(0, AtMost(Len(w) - 1, n))
  <2>1. Len(w) \in Nat
    BY <1>1, <1>3
  <2> QED
    BY <1>2, <2>1, BoxOperations, BoxSelected
<1> HIDE DEF box, ix
<1>7. box.selected \in 0 .. Len(v) /\ (Len(v) > 0 => box.selected = n)
  BY <1>1, <1>2, <1>3, <1>6 DEF AtLeast, AtMost
<1>8. SUFFICES /\ m <= Len(w) /\ BeforeTarget(w, m, target)
               /\ target # NULL /\ (target \in ToSet(v) => OnTarget(v, n, target))
                    /\ target \in ToSet(w)
                  => OnTarget(w, m, target)
  BY <1>4 DEF CursorInv, Follows, v, w
<1>9. CASE r = target
  <2>1. OnTarget(w, m, target)
    BY <1>0, <1>1, <1>3, <1>4, <1>6, <1>9, RetainedFinds
  <2>2. m \in Int
    <3>1. records' \in Box
      <4>1. Len(With(sort, v, r)) \in Nat /\ Len(With(sort, v, r)) # 0
        BY <1>0, <1>1, <1>3
      <4> QED
        BY <1>0, <4>1, AdditionMerged DEF v
    <3> QED
      BY <3>1, BoxFields
  <2>3. m <= Len(w)
    BY <1>1, <1>3, <2>1, <2>2 DEF OnTarget
  <2>4. BeforeTarget(w, m, target)
    BY <1>1, <1>3, <2>1, <2>2, TargetOnce
  <2> QED
    BY <2>1, <2>3, <2>4
<1>10. CASE r # target /\ target = NULL
  <2>1. records' = box
    BY <1>4, <1>10 DEF Hunted
  <2>2. m <= Len(w)
    BY <1>1, <1>3, <1>7, <2>1
  <2>3. BeforeTarget(w, m, target)
    BY <1>3, <1>10, SelectorAssumption DEF BeforeTarget
  <2> QED
    BY <1>10, <2>2, <2>3
<1>11. CASE r # target /\ target # NULL
  <2>1. BeforeTarget(v, box.selected, target)
    BY <1>1, <1>2, <1>7 DEF BeforeTarget
  <2>2. /\ Hunted(box, ix).selected <= Len(w)
        /\ BeforeTarget(w, Hunted(box, ix).selected, target)
        /\ OnTarget(v, box.selected, target) => OnTarget(w, Hunted(box, ix).selected, target)
    BY <1>1, <1>3, <1>5, <1>6, <1>7, <1>11, <2>1, HuntedFollows
  <2>3. m = Hunted(box, ix).selected
    BY <1>4, <1>11
  <2>4. OnTarget(v, n, target) => OnTarget(v, box.selected, target)
    BY <1>1, <1>2, <1>7 DEF OnTarget
  <2>5. target \in ToSet(w) => target \in ToSet(v)
    <3>1. ASSUME target \in ToSet(w) PROVE target \in ToSet(v)
      <4>1. PICK q \in 1 .. Len(w) : w[q] = target
        BY <1>3, <3>1 DEF ToSet
      <4>2. (q <= Len(v) /\ v[q] = target) \/ (q > 1 /\ v[q - 1] = target)
        BY <1>3, <1>11, <4>1
      <4>3. PICK p \in 1 .. Len(v) : v[p] = target
        BY <1>1, <1>3, <4>2
      <4> QED
        BY <1>1, <4>3 DEF ToSet
    <3> QED
      BY <3>1
  <2> QED
    BY <2>2, <2>3, <2>4, <2>5
<1> QED
  BY <1>9, <1>10, <1>11

(* set_target() makes the record under the cursor the target.              *)
LEMMA Targeted ==
  ASSUME NEW ix, ix.entries \in Nat, NEW box, box.entries = ix.entries, box.entries > 0,
         box.selected \in 0 .. box.entries - 1
  PROVE  OnTarget(Entries(ix), box.selected, TargetOf(ix, box))
<1>1. box.selected + 1 \in 1 .. ix.entries
  OBVIOUS
<1>2. TargetOf(ix, box) = ix.record[box.selected + 1]
  BY DEF TargetOf, Selected
<1> QED
  BY <1>1, <1>2, EntriesAre DEF OnTarget

(* An empty view, or a cursor that is on the target.                       *)
LEMMA TargetFollows ==
  ASSUME BoxesInv', ViewInv', InOrder(Entries(index'[view']), sort'),
         records'.selected <= records'.entries,
         records'.entries > 0 =>
           OnTarget(Entries(index'[view']), records'.selected, target')
  PROVE  CursorInv' /\ Follows
<1> DEFINE w == Entries(index'[view'])
<1>1. w \in Seq(Records) /\ IsInjective(w) /\ Len(w) = records'.entries /\ Len(w) \in Nat
  BY EntriesAre DEF InOrder, ViewInv
<1>2. records'.selected \in Int
  <2>1. records' \in Box
    BY DEF BoxesInv
  <2> QED
    BY <2>1, BoxFields
<1>3. Len(w) > 0 => OnTarget(w, records'.selected, target')
  BY <1>1
<1>4. BeforeTarget(w, records'.selected, target')
  <2> HIDE DEF w
  <2>1. CASE Len(w) > 0
    BY <1>1, <1>2, <1>3, <2>1, TargetOnce
  <2>2. CASE Len(w) = 0
    BY <2>2 DEF BeforeTarget
  <2> QED
    BY <1>1, <2>1, <2>2
<1>5. \A x : x \in ToSet(w) => Len(w) > 0
  <2> HIDE DEF w
  <2>1. DOMAIN w = 1 .. Len(w)
    BY <1>1
  <2> QED
    BY <1>1, <2>1 DEF ToSet
<1> QED
  BY <1>3, <1>4, <1>5 DEF CursorInv, Follows

LEMMA MoveFollows ==
  ASSUME BoxesInv, ViewInv, CursorInv, BoxesInv', ViewInv',
         InOrder(Entries(index'[view']), sort'), Move
  PROVE  CursorInv' /\ Follows
<1>0. /\ records \in Box /\ records.lines \in Nat /\ records.lines # 0
      /\ records.entries \in Nat /\ records.selected \in Int
      /\ records.entries > 0 => records.selected >= 0
      /\ records.selected <= records.entries
  BY BoxFields DEF BoxesInv, CursorInv
<1>1. ASSUME NEW n \in Nat, n # 0,
             records' \in {Up(records, n), Down(records, n), First(records), Final(records)}
      PROVE  /\ records'.entries = records.entries
             /\ records'.selected <= records.entries
             /\ records.entries > 0 => records'.selected \in 0 .. records.entries - 1
  <2>1. records'.entries = records.entries
    BY <1>0, <1>1, BoxOperations
  <2>2. records'.selected \in {AtLeast(0, records.selected - n),
                               AtMost(records.entries - 1, records.selected + n),
                               0, records.entries - 1}
    BY <1>0, <1>1, BoxSelected
  <2> QED
    BY <1>0, <1>1, <2>1, <2>2 DEF AtLeast, AtMost
<1>2. /\ records'.entries = records.entries
      /\ records'.selected <= records.entries
      /\ records.entries > 0 => records'.selected \in 0 .. records.entries - 1
  BY <1>0, <1>1 DEF Move
<1>3. /\ index' = index /\ view' = view /\ target' = TargetOf(index[view], records')
      /\ index[view].entries = records.entries
  BY DEF Move, view_index, ViewInv
<1>4. records'.entries > 0 => OnTarget(Entries(index'[view']), records'.selected, target')
  BY <1>0, <1>2, <1>3, Targeted
<1> QED
  BY <1>2, <1>4, TargetFollows

LEMMA RefineFollows ==
  ASSUME BoxesInv, ViewInv, BoxesInv', ViewInv',
         InOrder(Entries(index'[view']), sort'), NEW k \in Keys, SearchRefine(k)
  PROVE  CursorInv' /\ Follows
<1> DEFINE seq == Matched(Entries(view_index), search')
<1>1. /\ view' = swap /\ records' = SetEntries(records, Len(seq))
      /\ index' = [index EXCEPT ![swap] = Store(@, seq)]
      /\ target' = TargetOf(index'[view'], records')
      /\ index'[view'].entries = records'.entries
      /\ index'[view'].entries \in Nat
  BY DEF SearchRefine, ViewInv
<1>2. index'[view'].entries = Len(seq)
  BY <1>1 DEF ViewInv, Store, swap
<1> HIDE DEF seq
<1>3. records'.selected >= 0 /\ records'.selected < AtLeast(1, Len(seq))
  BY <1>1, <1>2, EntriesSet DEF BoxesInv
<1>4. records'.selected \in Int
  <2>1. records' \in Box
    BY DEF BoxesInv
  <2> QED
    BY <2>1, BoxFields
<1>5. /\ records'.selected <= records'.entries
      /\ records'.entries > 0 => records'.selected \in 0 .. records'.entries - 1
  BY <1>1, <1>2, <1>3, <1>4 DEF AtLeast
<1>6. records'.entries > 0 => OnTarget(Entries(index'[view']), records'.selected, target')
  BY <1>1, <1>5, Targeted
<1> QED
  BY <1>5, <1>6, TargetFollows

(* do_content_change(), with the target that the step leaves.              *)
LEMMA ChangeFollows ==
  ASSUME BoxesInv, ViewInv, NEW l \in ListingType, IsListing(l), NEW order \in Sorts,
         NEW s, ContentChange(l, order, s, target'), view' = view
  PROVE  CursorInv' /\ Follows
<1>1. /\ records'.selected <= records'.entries
      /\ BeforeTarget(Entries(index'[view]), records'.selected, target')
      /\ target' \in ToSet(Entries(index'[view])) =>
           OnTarget(Entries(index'[view]), records'.selected, target')
  BY ContentFollows
<1> QED
  BY <1>1 DEF CursorInv, Follows

LEMMA LinesFollow ==
  ASSUME BoxesInv, ViewInv, CursorInv, InOrder(Entries(index[view]), sort),
         NEW lines \in LineCounts, SelectorSetLines(lines)
  PROVE  CursorInv' /\ Follows
<1> DEFINE v == Entries(index[view])
<1>0. /\ lines \in Nat /\ records \in Box /\ records' = SetLines(records, lines)
      /\ index' = index /\ view' = view /\ target' = target
  BY SelectorAssumption DEF BoxesInv, SelectorSetLines
<1>1. /\ records.entries \in Nat /\ records.offset \in Nat /\ records.selected \in Int
      /\ records.selected <= records.entries
      /\ Len(v) = records.entries /\ v \in Seq(Records)
      /\ BeforeTarget(v, records.selected, target)
  BY <1>0, BoxFields, EntriesAre DEF ViewInv, CursorInv, InOrder
<1>2. records'.lines = lines /\ records'.entries = records.entries
  BY <1>0 DEF SetLines, Box
<1>3. records'.selected = AtMost(records.offset + lines - 1, records.selected)
  BY <1>0, BoxSelected
<1> HIDE DEF v
<1>4. records'.selected \in Int /\ records'.selected <= records.selected
  BY <1>0, <1>1, <1>3 DEF AtMost
<1>5. BeforeTarget(v, records'.selected, target)
  BY <1>1, <1>4 DEF BeforeTarget
<1>6. ASSUME OnTarget(v, records.selected, target), InWindow(records), records'.lines = records.lines
      PROVE  OnTarget(v, records'.selected, target)
  <2>1. records.entries > 0
    BY <1>1, <1>6 DEF OnTarget
  <2>2. records.selected <= records.offset + lines - 1
    BY <1>2, <1>6, <2>1 DEF InWindow
  <2>3. records'.selected = records.selected
    BY <1>0, <1>1, <1>3, <2>2 DEF AtMost
  <2> QED
    BY <1>6, <2>3
<1> QED
  BY <1>0, <1>1, <1>2, <1>4, <1>5, <1>6 DEF CursorInv, Follows, v

LEMMA NextFollows ==
  ASSUME IInv, ListingsInv, BoxesInv, ViewInv, MatchInv, CursorInv, [Next]_vars,
         IInv', ListingsInv', BoxesInv', ViewInv',
         InOrder(Entries(index[view]), sort), InOrder(Entries(index'[view']), sort')
  PROVE  CursorInv' /\ Follows
<1>0. /\ watched = CrateOf(crates) /\ sort \in Sorts
      /\ crates \in Box /\ OnCrate(crates)
      /\ Current \in ListingType /\ IsListing(Current)
  BY CurrentIs DEF MatchInv, BoxesInv, ViewInv
<1>1. ASSUME NEW e \in Excrates, Line(e) PROVE CursorInv' /\ Follows
  <2>1. view' = view /\ target' = target /\ sort' = sort
    BY <1>1 DEF Line
  <2>2. CASE UNCHANGED <<index, records>>
    BY <2>1, <2>2, CursorSame
  <2>3. CASE \E r : Merged(r)
    BY <2>1, <2>3, MergeFollows
  <2> QED
    BY <1>1, <2>2, <2>3, LineMatches
<1>2. ASSUME NEW e \in Excrates, End(e) PROVE CursorInv' /\ Follows
  BY <1>2, CursorSame DEF End, selVars
<1>3. ASSUME NEW e \in Excrates, NEW output \in Outputs, SelectorRescan(e, output)
      PROVE  CursorInv' /\ Follows
  <2>1. /\ view' = view /\ target' = target
        /\ ContentChange(scan'[e].listing, sort, search, target)
    BY <1>0, <1>3 DEF SelectorRescan, current_crate
  <2>2. scan'[e].listing \in ListingType /\ IsListing(scan'[e].listing)
    BY DEF ListingsInv, ListedIn
  <2> QED
    BY <1>0, <2>1, <2>2, ChangeFollows
<1>4. CASE Move
  BY <1>4, MoveFollows
<1>5. ASSUME NEW box, box \in Box, OnCrate(box), CrateChange(box)
      PROVE  CursorInv' /\ Follows
  <2> DEFINE l == ListingOf(CrateOf(box), storage, scan, excrate)
  <2>1. l \in ListingType /\ IsListing(l)
    BY <1>5, CrateIs, ListingOfCrate
  <2>2. view' = view /\ target' = target /\ ContentChange(l, sort, search, target)
    BY <1>5 DEF CrateChange
  <2> HIDE DEF l
  <2> QED
    BY <1>0, <2>1, <2>2, ChangeFollows
<1>6. CASE PrevNext
  BY <1>5, <1>6, CratesMoved DEF PrevNext
<1>7. CASE Toggle
  BY <1>5, <1>7, CratesMoved DEF Toggle
<1>8. CASE ToggleOrder
  <2>1. view' = view /\ sort' \in Sorts /\ ContentChange(Current, sort', search, target')
    BY <1>0, <1>8, NextSortIs DEF ToggleOrder, Current, current_crate
  <2> QED
    BY <1>0, <2>1, ChangeFollows
<1>9. CASE SearchExpand
  <2>1. view' = view /\ target' = target /\ ContentChange(Current, sort, search', target)
    BY <1>9 DEF SearchExpand, Current, current_crate
  <2> QED
    BY <1>0, <2>1, ChangeFollows
<1>10. ASSUME NEW k \in Keys, SearchRefine(k) PROVE CursorInv' /\ Follows
  BY <1>10, RefineFollows
<1>11. ASSUME NEW lines \in LineCounts, SelectorSetLines(lines) PROVE CursorInv' /\ Follows
  BY <1>11, LinesFollow
<1>12. CASE UNCHANGED vars
  BY <1>12, CursorSame DEF vars, selVars
<1> QED
  BY <1>1, <1>2, <1>3, <1>4, <1>6, <1>7, <1>8, <1>9, <1>10, <1>11, <1>12 DEF Next

LEMMA InitCursor == Init => CursorInv
<1> SUFFICES ASSUME Init PROVE CursorInv
  OBVIOUS
<1>1. PICK lines \in LineCounts : records = SetLines(SetEntries(NoListbox, 0), lines)
  BY DEF Init
<1>2. lines \in Nat /\ lines # 0 /\ 0 \in Nat
  BY SelectorAssumption
<1>3. records.selected = 0 /\ records.entries = 0
  BY <1>1, <1>2, FirstBox
<1>4. Entries(index[view]) = << >>
  BY DEF Init, BlankIndex, Entries
<1> QED
  BY <1>3, <1>4 DEF CursorInv, BeforeTarget

(* A cursor that is on the target is on the entry that the target has.     *)
LEMMA CursorMeans ==
  ASSUME BoxesInv, ViewInv, CursorInv, InOrder(Entries(index[view]), sort), CursorOnTarget
  PROVE  OnTarget(Entries(index[view]), records.selected, target)
<1> DEFINE v == Entries(index[view])
           n == records.selected
<1>1. /\ Len(v) = records.entries /\ Len(v) \in Nat /\ v \in Seq(Records) /\ n \in Int
      /\ Len(v) > 0 => n >= 0
      /\ BeforeTarget(v, n, target)
      /\ \A i \in 1 .. Len(v) : v[i] = index[view].record[i]
      /\ DOMAIN v = 1 .. Len(v)
  BY EntriesAre, BoxFields DEF ViewInv, CursorInv, InOrder, BoxesInv
<1>2. target \in ToSet(v)
  BY DEF CursorOnTarget, InView, view_index
<1>3. selector_current = target
  BY DEF CursorOnTarget
<1> HIDE DEF v
<1>4. PICK p \in 1 .. Len(v) : v[p] = target
  BY <1>1, <1>2 DEF ToSet
<1>5. n <= p - 1 /\ n + 1 \in 1 .. Len(v) /\ records.entries # 0
  BY <1>1, <1>4 DEF BeforeTarget
<1>6. index[view].record[n + 1] = target
  BY <1>3, <1>5 DEF selector_current, Selected, view_index
<1>7. OnTarget(v, n, target)
  BY <1>1, <1>5, <1>6 DEF OnTarget
<1> QED
  BY <1>7 DEF v

(* For any records, crates, searches and scans, as long as the window does *)
(* not shrink: the cursor finds the target when it comes into the view,    *)
(* and stays on it when the view changes around it (retain_target,         *)
(* hunt_target).                                                           *)
THEOREM CursorDoesFollow == Spec /\ NeverShrinks => CursorFollows
<1> DEFINE Ordered == InOrder(Entries(index[view]), sort)
           All == /\ IInv /\ ListingsInv /\ BoxesInv /\ ViewInv /\ MatchInv /\ Ordered
<1>1. IInv /\ ListingsInv /\ BoxesInv /\ ViewInv /\ MatchInv => Ordered
  BY ViewInOrder
<1>2. Spec /\ NeverShrinks => []All
  BY <1>1, IInvHolds, ListingsInvHolds, BoxesHold, MatchHolds, PTL
<1>3. All /\ All' /\ CursorInv /\ [Next]_vars => CursorInv' /\ Follows
  BY NextFollows
<1>4. Spec /\ NeverShrinks => []CursorInv
  BY <1>2, <1>3, InitCursor, PTL DEF Spec
<1>5. All /\ All' /\ CursorInv /\ CursorInv' /\ [Next]_vars =>
        [ (/\ target # NULL /\ target' = target /\ InView(target)'
           /\ InView(target) => CursorOnTarget /\ InWindow(records)
           /\ records'.lines = records.lines)
          => CursorOnTarget' ]_vars
  <2> SUFFICES ASSUME All, All', CursorInv, CursorInv', [Next]_vars,
                      target # NULL, target' = target, InView(target)',
                      InView(target) => CursorOnTarget /\ InWindow(records),
                      records'.lines = records.lines
               PROVE  CursorOnTarget'
    OBVIOUS
  <2>1. Follows
    BY <1>3
  <2>2. target \in ToSet(Entries(index[view])) =>
          OnTarget(Entries(index[view]), records.selected, target) /\ InWindow(records)
    BY CursorMeans DEF InView, view_index
  <2>3. target \in ToSet(Entries(index'[view']))
    BY DEF InView, view_index
  <2>4. OnTarget(Entries(index'[view']), records'.selected, target)
    BY <2>1, <2>2, <2>3 DEF Follows
  <2>5. /\ Len(Entries(index'[view'])) = records'.entries
        /\ \A i \in 1 .. records'.entries : Entries(index'[view'])[i] = index'[view'].record[i]
        /\ records'.entries \in Nat
    BY EntriesAre DEF ViewInv
  <2>6. records'.entries # 0 /\ index'[view'].record[records'.selected + 1] = target
    BY <2>4, <2>5 DEF OnTarget
  <2>7. selector_current' = target
    BY <2>6 DEF selector_current, Selected, view_index
  <2> QED
    BY <2>7 DEF CursorOnTarget
<1> HIDE DEF All
<1> QED
  BY <1>2, <1>4, <1>5, PTL DEF Spec, CursorFollows

=================================================================================
