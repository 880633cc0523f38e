---------------------------- MODULE TimecoderProofs ----------------------------
(***************************************************************************)
(* Proofs about Timecoder, for any definitions of up to 31 bits, any       *)
(* record they press, any number of bits that must agree and any needle:   *)
(* build_lookup() fills a table in which every place is found, the         *)
(* position that is given is the needle's, and it is found again.          *)
(*                                                                         *)
(* The argument: (1) a register that reads the bits of a record one after  *)
(* the other, in either direction, holds the code of the place it is at,   *)
(* and fwd() and rev() foretell the next bit; (2) the search along a chain *)
(* of the table finds the last place of a code, which is the only one,     *)
(* since the timecode does not wrap; (3) `run' bits of the register are    *)
(* those that the needle has passed, so that a register full of them gives *)
(* the needle's place; (4) what a longer register left above them, when    *)
(* the definition was changed, moves down by one with each bit that agrees *)
(* and has left the register when a position is given; (5) what a sample   *)
(* has found of a definition that is no longer in use, and the counter it  *)
(* has read before a reset, are only in a count that is `torn'.            *)
(***************************************************************************)
EXTENDS Timecoder, SequenceTheorems, FiniteSetTheorems, WellFoundedInduction, TLAPS

(***************************************************************************)
(* Numbers.                                                                *)
(***************************************************************************)
(* A set of numbers that is not empty has a least one.                     *)
LEMMA NatMin ==
  ASSUME NEW T, T \subseteq Nat, T # {}
  PROVE  \E x \in T : \A y \in T : x <= y
<1>1. PICK x \in T : \A y \in T : ~(<<y, x>> \in OpToRel(<, Nat))
  <2> HIDE DEF OpToRel
  <2> QED
    BY NatLessThanWellFounded, WFMin, Zenon
<1>2. \A y \in T : ~(y < x)
  BY <1>1 DEF OpToRel
<1> QED
  BY <1>2

(* What holds of 0 and of each successor up to n holds up to n.            *)
LEMMA LeastFailure ==
  ASSUME NEW n \in Nat, NEW T, T \subseteq 0 .. n, T # {}, 0 \notin T
  PROVE  \E m \in 1 .. n : m \in T /\ m - 1 \notin T
<1>1. PICK m \in T : \A k \in T : m <= k
  <2>1. T \subseteq Nat
    OBVIOUS
  <2> QED
    BY <2>1, NatMin
<1>2. m \in 1 .. n /\ m - 1 \in Nat
  <2>1. m \in 0 .. n /\ m # 0
    OBVIOUS
  <2> QED
    BY <2>1
<1>3. m - 1 \notin T
  BY <1>1, <1>2
<1> QED
  BY <1>2, <1>3

(***************************************************************************)
(* Registers.                                                              *)
(***************************************************************************)
(* What is needed of a definition. *)
IsDef(def) ==
  /\ def.bits \in 1 .. WORD - 1
  /\ def.taps \subseteq 1 .. def.bits - 1
  /\ def.seed \subseteq mask(def)

(* The bits of a register that was shifted (>> 1 and << 1).                *)
LEMMA Shifts ==
  ASSUME NEW x, x \subseteq Nat, NEW i \in Nat
  PROVE  /\ RightShift(x) \subseteq Nat /\ (i \in RightShift(x) <=> i + 1 \in x)
         /\ LeftShift(x) \subseteq Nat /\ (i \in LeftShift(x) <=> i # 0 /\ i - 1 \in x)
<1>1. \A j \in x : j \in Nat /\ (j # 0 => j - 1 \in Nat) /\ j + 1 \in Nat /\ j + 1 # 0
  OBVIOUS
<1>2. RightShift(x) \subseteq Nat /\ LeftShift(x) \subseteq Nat
  BY <1>1 DEF RightShift, LeftShift
<1>3. i \in RightShift(x) <=> i + 1 \in x
  <2>1. ASSUME i \in RightShift(x) PROVE i + 1 \in x
    <3>1. PICK j \in x \ {0} : i = j - 1
      BY <2>1 DEF RightShift
    <3> QED
      BY <3>1, <1>1
  <2>2. ASSUME i + 1 \in x PROVE i \in RightShift(x)
    <3>1. i + 1 \in x \ {0} /\ i = (i + 1) - 1
      BY <2>2
    <3> QED
      BY <3>1 DEF RightShift
  <2> QED
    BY <2>1, <2>2
<1>4. i \in LeftShift(x) <=> i # 0 /\ i - 1 \in x
  <2>1. ASSUME i \in LeftShift(x) PROVE i # 0 /\ i - 1 \in x
    <3>1. PICK j \in x : i = j + 1
      BY <2>1 DEF LeftShift
    <3> QED
      BY <3>1, <1>1
  <2>2. ASSUME i # 0, i - 1 \in x PROVE i \in LeftShift(x)
    <3>1. i = (i - 1) + 1
      OBVIOUS
    <3> QED
      BY <2>2, <3>1 DEF LeftShift
  <2> QED
    BY <2>1, <2>2
<1> QED
  BY <1>2, <1>3, <1>4

(* fwd() shifts down and puts the parity at the top.                       *)
LEMMA FwdBits ==
  ASSUME NEW def, IsDef(def), NEW c, c \subseteq mask(def)
  PROVE  /\ fwd(c, def) \subseteq mask(def)
         /\ \A i \in 0 .. def.bits - 2 : i \in fwd(c, def) <=> i + 1 \in c
         /\ def.bits - 1 \in fwd(c, def) <=> lfsr(c, def.taps \cup {0})
<1> DEFINE l == lfsr(c, def.taps \cup {0})
<1> HIDE DEF l
<1>1. fwd(c, def) = RightShift(c) \cup Bit(l, def.bits - 1)
  BY DEF fwd, l
<1>2. def.bits \in Nat /\ def.bits >= 1
  BY DEF IsDef, WORD
<1>3. c \subseteq Nat
  BY <1>2 DEF mask
<1>4. \A i \in Nat : i \in RightShift(c) <=> i + 1 \in c
  BY <1>3, Shifts
<1>5. RightShift(c) \subseteq Nat
  BY <1>3, 0 \in Nat, Shifts
<1>6. \A i \in RightShift(c) : i \in 0 .. def.bits - 2
  <2>1. ASSUME NEW i \in RightShift(c) PROVE i \in 0 .. def.bits - 2
    <3>1. i \in Nat /\ i + 1 \in 0 .. def.bits - 1
      BY <1>4, <1>5 DEF mask
    <3> QED
      BY <3>1, <1>2
  <2> QED
    BY <2>1
<1>7. \A i : i \in Bit(l, def.bits - 1) <=> l /\ i = def.bits - 1
  BY DEF Bit
<1>8. \A i \in 0 .. def.bits - 2 : i \in Nat /\ i # def.bits - 1 /\ i \in 0 .. def.bits - 1
  BY <1>2
<1>9. def.bits - 1 \notin 0 .. def.bits - 2 /\ def.bits - 1 \in 0 .. def.bits - 1
  BY <1>2
<1>10. fwd(c, def) \subseteq mask(def)
  BY <1>1, <1>6, <1>7, <1>8, <1>9 DEF mask
<1>11. \A i \in 0 .. def.bits - 2 : i \in fwd(c, def) <=> i + 1 \in c
  BY <1>1, <1>4, <1>7, <1>8
<1>12. def.bits - 1 \in fwd(c, def) <=> l
  BY <1>1, <1>6, <1>7, <1>9
<1> QED
  BY <1>10, <1>11, <1>12 DEF l

(* A bit that is one of those counted makes the parity tell it.            *)
LEMMA Parity ==
  ASSUME NEW n \in Nat, NEW z \in BOOLEAN, NEW l \in BOOLEAN,
         l = ((IF z THEN n + 1 ELSE n) % 2 = 1)
  PROVE  ((IF l THEN n + 1 ELSE n) % 2 = 1) = z
<1>1. (n % 2 = 0 /\ (n + 1) % 2 = 1) \/ (n % 2 = 1 /\ (n + 1) % 2 = 0)
  OBVIOUS
<1>2. CASE z
  <2>1. l = ((n + 1) % 2 = 1)
    BY <1>2
  <2> QED
    BY <2>1, <1>1, <1>2
<1>3. CASE ~z
  <2>1. l = (n % 2 = 1)
    BY <1>3
  <2>2. CASE n % 2 = 1
    <3>1. (n + 1) % 2 # 1
      BY <2>2
    <3>2. l
      BY <2>1, <2>2
    <3> QED
      BY <1>3, <3>1, <3>2
  <2>3. CASE n % 2 = 0
    BY <1>3, <2>1, <2>3
  <2> QED
    BY <1>1, <2>2, <2>3
<1> QED
  BY <1>2, <1>3

(* A shift that loses no bit keeps their number.                           *)
LEMMA ShiftedAsMany ==
  ASSUME NEW n \in Nat, NEW x, x \subseteq 1 .. n
  PROVE  /\ IsFiniteSet(x) /\ IsFiniteSet(RightShift(x))
         /\ Cardinality(RightShift(x)) = Cardinality(x)
<1>1. IsFiniteSet(x)
  BY FS_Interval, FS_Subset, 1 \in Int, n \in Int
<1> DEFINE f == [i \in x |-> i - 1]
<1>2. RightShift(x) = {i - 1 : i \in x}
  BY DEF RightShift
<1>3. f \in Bijection(x, RightShift(x))
  <2>1. f \in [x -> RightShift(x)]
    BY <1>2
  <2>2. \A a, b \in x : f[a] = f[b] => a = b
    <3>1. \A a \in x : a \in Int
      OBVIOUS
    <3> QED
      BY <3>1
  <2>3. \A t \in RightShift(x) : \E a \in x : f[a] = t
    BY <1>2
  <2> HIDE DEF f
  <2>4. f \in Injection(x, RightShift(x))
    BY <2>1, <2>2, Zenon DEF Injection, IsInjective
  <2>5. f \in Surjection(x, RightShift(x))
    BY <2>1, <2>3, Zenon DEF Surjection
  <2> QED
    BY <2>4, <2>5, Zenon DEF Bijection
<1>4. ExistsBijection(x, RightShift(x))
  BY <1>3 DEF ExistsBijection
<1> QED
  BY <1>1, <1>4, FS_Bijection

(* assert(rev(next, def) == current) in build_lookup() never fails. *)
THEOREM Symmetric ==
  ASSUME NEW def, IsDef(def), NEW c, c \subseteq mask(def)
  PROVE  rev(fwd(c, def), def) = c
<1> DEFINE next == fwd(c, def)
           n == def.bits
           X == c \cap def.taps
           l == lfsr(c, def.taps \cup {0})
           odd == lfsr(next, RightShift(def.taps) \cup {n - 1})
<1>1. n \in Nat /\ n >= 1 /\ def.taps \subseteq 1 .. n - 1 /\ c \subseteq 0 .. n - 1
  BY DEF IsDef, WORD, mask
<1>2. /\ next \subseteq 0 .. n - 1
      /\ \A i \in 0 .. n - 2 : i \in next <=> i + 1 \in c
      /\ n - 1 \in next <=> l
  BY FwdBits DEF mask
<1> HIDE DEF next, n
<1>3. X \subseteq 1 .. n - 1 /\ 0 \notin X
  BY <1>1
<1>4. /\ IsFiniteSet(X) /\ IsFiniteSet(RightShift(X))
      /\ Cardinality(RightShift(X)) = Cardinality(X)
  <2> HIDE DEF X
  <2>1. n - 1 \in Nat
    BY <1>1
  <2> QED
    BY <1>3, <2>1, ShiftedAsMany
<1>5. Cardinality(X) \in Nat
  BY <1>4, FS_CardinalityType
<1>6. l = ((IF 0 \in c THEN Cardinality(X) + 1 ELSE Cardinality(X)) % 2 = 1)
  <2>1. CASE 0 \in c
    <3>1. c \cap (def.taps \cup {0}) = X \cup {0}
      BY <2>1
    <3>2. Cardinality(X \cup {0}) = Cardinality(X) + 1
      <4> HIDE DEF X
      <4> QED
        BY <1>3, <1>4, FS_AddElement
    <3> QED
      BY <2>1, <3>1, <3>2 DEF lfsr
  <2>2. CASE 0 \notin c
    <3>1. c \cap (def.taps \cup {0}) = X
      BY <2>2
    <3> QED
      BY <2>2, <3>1 DEF lfsr
  <2> QED
    BY <2>1, <2>2
<1>7. next \cap (RightShift(def.taps) \cup {n - 1}) = RightShift(X) \cup Bit(l, n - 1)
  <2>1. \A i \in Nat : /\ i \in RightShift(def.taps) <=> i + 1 \in def.taps
                       /\ i \in RightShift(X) <=> i + 1 \in X
    <3>1. def.taps \subseteq Nat /\ X \subseteq Nat
      BY <1>1
    <3> HIDE DEF X
    <3> QED
      BY <3>1, Shifts
  <2>2. RightShift(X) \subseteq Nat
    <3>1. X \subseteq Nat
      BY <1>1
    <3> HIDE DEF X
    <3> QED
      BY <3>1, Shifts, 0 \in Nat
  <2>3. \A i : i \in Bit(l, n - 1) <=> l /\ i = n - 1
    BY DEF Bit
  <2>4. ASSUME NEW i \in Nat
        PROVE  i \in next \cap (RightShift(def.taps) \cup {n - 1})
                 <=> i \in RightShift(X) \cup Bit(l, n - 1)
    <3>1. CASE i = n - 1
      <4>1. i + 1 = n /\ n \notin 1 .. n - 1
        BY <3>1, <1>1
      <4>2. i \notin RightShift(X)
        BY <4>1, <2>1, <1>3
      <4> HIDE DEF X, l
      <4> QED
        BY <4>2, <3>1, <1>2, <2>3
    <3>2. CASE i \in 0 .. n - 2
      <4>1. i # n - 1
        BY <3>2, <1>1
      <4>2. i \in next <=> i + 1 \in c
        BY <3>2, <1>2
      <4>3. i + 1 \in X <=> i + 1 \in c /\ i + 1 \in def.taps
        OBVIOUS
      <4> HIDE DEF X, l
      <4> QED
        BY <4>1, <4>2, <4>3, <2>1, <2>3
    <3>3. CASE i \notin 0 .. n - 1
      <4>1. i # n - 1 /\ i + 1 \notin 1 .. n - 1
        BY <3>3, <1>1
      <4>2. i \notin RightShift(X)
        BY <4>1, <2>1, <1>3
      <4> HIDE DEF X, l
      <4> QED
        BY <4>1, <4>2, <3>3, <1>2, <2>3
    <3>4. i = n - 1 \/ i \in 0 .. n - 2 \/ i \notin 0 .. n - 1
      BY <1>1
    <3> QED
      BY <3>1, <3>2, <3>3, <3>4
  <2>5. next \subseteq Nat /\ Bit(l, n - 1) \subseteq Nat
    BY <1>1, <1>2 DEF Bit
  <2> HIDE DEF X, l
  <2> QED
    BY <2>2, <2>4, <2>5
<1>8. odd = ((IF l THEN Cardinality(X) + 1 ELSE Cardinality(X)) % 2 = 1)
  <2>1. CASE l
    <3>1. n - 1 \notin RightShift(X)
      <4>1. X \subseteq Nat /\ n - 1 \in Nat /\ n \notin X /\ (n - 1) + 1 = n
        BY <1>1, <1>3
      <4> HIDE DEF X
      <4> QED
        <5>1. n - 1 \in RightShift(X) <=> (n - 1) + 1 \in X
          BY <4>1, Shifts
        <5> QED
          BY <5>1, <4>1
    <3>2. Cardinality(RightShift(X) \cup {n - 1}) = Cardinality(X) + 1
      <4> HIDE DEF X
      <4> QED
        BY <1>4, <3>1, FS_AddElement
    <3>3. next \cap (RightShift(def.taps) \cup {n - 1}) = RightShift(X) \cup {n - 1}
      <4> HIDE DEF X, l
      <4> QED
        BY <2>1, <1>7 DEF Bit
    <3> HIDE DEF X, l
    <3> QED
      BY <2>1, <3>2, <3>3 DEF lfsr
  <2>2. CASE ~l
    <3>1. next \cap (RightShift(def.taps) \cup {n - 1}) = RightShift(X)
      <4> HIDE DEF X, l
      <4> QED
        BY <2>2, <1>7 DEF Bit
    <3> HIDE DEF X, l
    <3> QED
      BY <2>2, <3>1, <1>4 DEF lfsr
  <2> QED
    BY <2>1, <2>2
<1>9. odd = (0 \in c)
  <2>1. l \in BOOLEAN /\ (0 \in c) \in BOOLEAN
    BY DEF lfsr
  <2> HIDE DEF X, l, odd
  <2> QED
    BY <2>1, <1>5, <1>6, <1>8, Parity
<1>10. rev(next, def) = (LeftShift(next) \cap (0 .. n - 1)) \cup Bit(0 \in c, 0)
  BY <1>9 DEF rev, mask, n
<1>11. ASSUME NEW i \in Nat
       PROVE  i \in (LeftShift(next) \cap (0 .. n - 1)) \cup Bit(0 \in c, 0) <=> i \in c
  <2>1. i \in LeftShift(next) <=> i # 0 /\ i - 1 \in next
    <3>1. next \subseteq Nat
      BY <1>1, <1>2
    <3> QED
      BY <3>1, Shifts
  <2>2. i \in Bit(0 \in c, 0) <=> 0 \in c /\ i = 0
    BY DEF Bit
  <2>3. CASE i = 0
    BY <2>1, <2>2, <2>3
  <2>4. CASE i \in 1 .. n - 1
    <3>1. i - 1 \in 0 .. n - 2 /\ (i - 1) + 1 = i /\ i # 0 /\ i \in 0 .. n - 1
      BY <2>4, <1>1
    <3> QED
      BY <3>1, <2>1, <2>2, <1>2
  <2>5. CASE i \notin 0 .. n - 1
    BY <2>5, <2>2, <1>1
  <2> QED
    BY <2>3, <2>4, <2>5, <1>1
<1>12. c \subseteq Nat /\ (LeftShift(next) \cap (0 .. n - 1)) \cup Bit(0 \in c, 0) \subseteq Nat
  <2>1. 0 .. n - 1 \subseteq Nat /\ Bit(0 \in c, 0) \subseteq Nat
    BY <1>1 DEF Bit
  <2> QED
    BY <2>1, <1>1
<1>13. (LeftShift(next) \cap (0 .. n - 1)) \cup Bit(0 \in c, 0) = c
  BY <1>11, <1>12
<1> QED
  BY <1>10, <1>13 DEF next

(* Going forwards a bit is read into the top of the register, and none of  *)
(* the sum's carries.                                                      *)
LEMMA ReadForwardsBits ==
  ASSUME NEW def, IsDef(def), NEW stream, stream \subseteq mask(def), NEW b \in BOOLEAN
  PROVE  /\ ReadForwards(stream, b, def) \subseteq mask(def)
         /\ \A i \in 0 .. def.bits - 2 :
              i \in ReadForwards(stream, b, def) <=> i + 1 \in stream
         /\ def.bits - 1 \in ReadForwards(stream, b, def) <=> b
<1> DEFINE n == def.bits
           x == RightShift(stream)
<1>1. n \in 1 .. WORD - 1 /\ stream \subseteq 0 .. n - 1
  BY DEF IsDef, mask
<1>2. n \in Nat /\ n >= 1 /\ n - 1 \in Nat
  BY <1>1 DEF WORD
<1>3. x \subseteq Nat /\ \A i \in Nat : i \in x <=> i + 1 \in stream
  <2>1. stream \subseteq Nat
    BY <1>1
  <2> QED
    BY <2>1, Shifts, 0 \in Nat
<1> HIDE DEF n, x
<1>4. x \subseteq 0 .. n - 2
  <2>1. ASSUME NEW i \in x PROVE i \in 0 .. n - 2
    <3>1. i \in Nat /\ i + 1 \in 0 .. n - 1
      BY <1>1, <1>3
    <3> QED
      BY <3>1, <1>2
  <2> QED
    BY <2>1
<1>5. n - 1 \notin x
  BY <1>2, <1>4
<1>6. CASE b
  <2>1. n - 1 \in n - 1 .. WORD - 1 /\ \A j \in n - 1 .. (n - 1) - 1 : j \in x
    BY <1>1, <1>2 DEF WORD
  <2>2. \A t \in n - 1 .. WORD - 1 :
          t \notin x /\ (\A j \in n - 1 .. t - 1 : j \in x) => t = n - 1
    <3> SUFFICES ASSUME NEW t \in n - 1 .. WORD - 1, \A j \in n - 1 .. t - 1 : j \in x,
                        t # n - 1
                 PROVE  FALSE
      OBVIOUS
    <3>1. n - 1 \in n - 1 .. t - 1
      BY <1>2 DEF WORD
    <3> QED
      BY <3>1, <1>5
  <2>3. (CHOOSE t \in n - 1 .. WORD - 1 : t \notin x /\ \A j \in n - 1 .. t - 1 : j \in x)
          = n - 1
    BY <2>1, <2>2, <1>5
  <2>4. Plus(x, n - 1) = (x \ (n - 1 .. n - 1)) \cup {n - 1}
    BY <2>3 DEF Plus
  <2>5. Plus(x, n - 1) = x \cup {n - 1}
    BY <2>4, <1>5, <1>2
  <2>6. ReadForwards(stream, b, def) = x \cup {n - 1}
    BY <2>5, <1>6 DEF ReadForwards, x, n
  <2>7. \A i \in 0 .. n - 2 : i # n - 1 /\ i \in Nat
    BY <1>2
  <2>8. x \cup {n - 1} \subseteq 0 .. n - 1
    BY <1>4, <1>2
  <2> QED
    BY <2>6, <2>7, <2>8, <1>3, <1>6 DEF mask, n
<1>7. CASE ~b
  <2>1. ReadForwards(stream, b, def) = x
    BY <1>7 DEF ReadForwards, x
  <2>2. x \subseteq 0 .. n - 1
    BY <1>4, <1>2
  <2> QED
    BY <2>1, <2>2, <1>3, <1>5, <1>7 DEF mask, n
<1> QED
  BY <1>6, <1>7

(* What is read takes no more bits than the stream, if that has more than  *)
(* the register: the sum carries into the bit that the shift has cleared.  *)
LEMMA ReadForwardsFits ==
  ASSUME NEW def, IsDef(def), NEW size \in def.bits .. WORD,
         NEW stream, stream \subseteq 0 .. size - 1, NEW b \in BOOLEAN
  PROVE  ReadForwards(stream, b, def) \subseteq 0 .. size - 1
<1> DEFINE n == def.bits
           x == RightShift(stream)
<1>1. n \in 1 .. WORD - 1 /\ n - 1 \in Nat /\ size \in n .. WORD
  BY DEF IsDef, WORD
<1>2. x \subseteq Nat /\ \A i \in Nat : i \in x <=> i + 1 \in stream
  <2>1. stream \subseteq Nat
    OBVIOUS
  <2> QED
    BY <2>1, Shifts, 0 \in Nat
<1> HIDE DEF n, x
<1>3. x \subseteq 0 .. size - 2
  <2>1. ASSUME NEW i \in x PROVE i \in 0 .. size - 2
    <3>1. i \in Nat /\ i + 1 \in 0 .. size - 1
      BY <1>2
    <3> QED
      BY <1>1, <3>1 DEF WORD
  <2> QED
    BY <2>1
<1> DEFINE T == {t \in n - 1 .. WORD - 1 : t \notin x}
           Top(t) == t \notin x /\ \A j \in n - 1 .. t - 1 : j \in x
<1>4. \E t \in n - 1 .. WORD - 1 : Top(t)
  <2>1. T \subseteq Nat /\ size - 1 \in T
    BY <1>1, <1>3 DEF WORD
  <2>2. PICK t \in T : \A y \in T : t <= y
    <3> HIDE DEF T
    <3> QED
      BY <2>1, NatMin
  <2>3. ASSUME NEW j \in n - 1 .. t - 1 PROVE j \in x
    <3>1. j \in n - 1 .. WORD - 1 /\ ~(t <= j)
      BY <1>1, <2>2 DEF WORD
    <3> QED
      BY <3>1, <2>2
  <2> QED
    BY <2>2, <2>3
<1> DEFINE top == CHOOSE t \in n - 1 .. WORD - 1 : Top(t)
<1>5. top \in n - 1 .. size - 1
  <2>1. top \in n - 1 .. WORD - 1 /\ Top(top)
    <3> HIDE DEF Top
    <3> QED
      BY <1>4
  <2>2. size - 1 \notin x
    BY <1>1, <1>3 DEF WORD
  <2>3. ~(top > size - 1)
    <3>1. \A j \in n - 1 .. top - 1 : j \in x
      BY <2>1
    <3> HIDE DEF top
    <3> QED
      BY <1>1, <2>1, <2>2, <3>1 DEF WORD
  <2> HIDE DEF top
  <2> QED
    BY <1>1, <2>1, <2>3 DEF WORD
<1>6. Plus(x, n - 1) = (x \ (n - 1 .. top)) \cup {top}
  BY DEF Plus
<1>7. ReadForwards(stream, b, def) = IF b THEN Plus(x, n - 1) ELSE x
  BY DEF ReadForwards, x, n
<1> HIDE DEF top
<1>8. {top} \subseteq 0 .. size - 1 /\ x \subseteq 0 .. size - 1
  BY <1>1, <1>3, <1>5 DEF WORD
<1> QED
  BY <1>6, <1>7, <1>8

(* Going backwards a bit is read into the bottom of the register.          *)
LEMMA ReadBackwardsBits ==
  ASSUME NEW def, IsDef(def), NEW stream, stream \subseteq Nat, NEW b \in BOOLEAN
  PROVE  /\ ReadBackwards(stream, b, def) \subseteq mask(def)
         /\ \A i \in 1 .. def.bits - 1 :
              i \in ReadBackwards(stream, b, def) <=> i - 1 \in stream
         /\ 0 \in ReadBackwards(stream, b, def) <=> b
<1>1. def.bits \in Nat /\ def.bits >= 1
  BY DEF IsDef, WORD
<1>2. \A i \in Nat : i \in LeftShift(stream) <=> i # 0 /\ i - 1 \in stream
  BY Shifts
<1>3. \A i : i \in Bit(b, 0) <=> b /\ i = 0
  BY DEF Bit
<1>4. 0 \in mask(def)
  BY <1>1 DEF mask
<1>5. \A i \in 1 .. def.bits - 1 : i \in Nat /\ i # 0 /\ i \in mask(def)
  BY <1>1 DEF mask
<1> QED
  BY <1>2, <1>3, <1>4, <1>5 DEF ReadBackwards

(* rev() stays within the definition's bits.                               *)
LEMMA RevBits ==
  ASSUME NEW def, IsDef(def), NEW c, c \subseteq Nat
  PROVE  rev(c, def) \subseteq mask(def)
<1>1. 0 \in mask(def)
  BY DEF IsDef, WORD, mask
<1> QED
  BY <1>1 DEF rev, Bit

(***************************************************************************)
(* The record.                                                             *)
(***************************************************************************)
(* The code of a record, as the function it is.                            *)
IsCode(f, d) ==
  f = [n \in 0 .. Edges |-> IF n = 0 THEN timecodes[d].seed
                            ELSE fwd(f[n - 1], timecodes[d])]

(* What is assumed of the definitions, in the form that the proofs use.    *)
LEMMA Definitions ==
  /\ Edges \in Nat /\ VALID_BITS \in Nat /\ HASH_BITS \in Nat
  /\ \A d \in Defs :
       /\ IsDef(timecodes[d])
       /\ timecodes[d].bits \in 1 .. VALID_BITS + 1
       /\ timecodes[d].length \in 1 .. Edges - timecodes[d].bits + 1
<1>1. Edges \in Nat /\ VALID_BITS \in Nat /\ HASH_BITS \in Nat
  BY TimecoderAssumption, TimecodeAssumption
<1>2. ASSUME NEW d \in Defs
      PROVE  /\ timecodes[d].bits \in 1 .. VALID_BITS + 1
             /\ timecodes[d].bits < WORD
             /\ timecodes[d].length \in 1 .. Edges - timecodes[d].bits + 1
             /\ timecodes[d].seed \subseteq mask(timecodes[d])
             /\ timecodes[d].taps \subseteq 1 .. timecodes[d].bits - 1
  BY TimecoderAssumption
<1>3. ASSUME NEW d \in Defs PROVE IsDef(timecodes[d])
  <2>1. timecodes[d].bits \in 1 .. WORD - 1
    BY <1>1, <1>2 DEF WORD
  <2> QED
    BY <1>2, <2>1 DEF IsDef
<1> QED
  BY <1>1, <1>2, <1>3

(* The register at each place of a record is defined: by induction on the  *)
(* place.                                                                  *)
LEMMA CodeExists ==
  ASSUME NEW d \in Defs
  PROVE  \E f : IsCode(f, d)
<1> DEFINE def == timecodes[d]
           Upto(f, n) == /\ f[0] = def.seed
                         /\ \A k \in 1 .. n : f[k] = fwd(f[k - 1], def)
           Bad == {n \in 0 .. Edges : ~\E f : Upto(f, n)}
<1>0. \A n \in 0 .. Edges : n \in Bad <=> ~\E f : Upto(f, n)
  OBVIOUS
<1>e. Edges \in Nat
  BY Definitions
<1>s. Bad \subseteq 0 .. Edges
  OBVIOUS
<1> HIDE DEF Bad, def
<1>1. 0 \notin Bad
  <2>1. Upto([k \in {0} |-> def.seed], 0)
    OBVIOUS
  <2> HIDE DEF Upto
  <2>2. \E f : Upto(f, 0)
    BY <2>1
  <2> QED
    BY <1>0, <1>e, <2>2
<1>2. ASSUME NEW n \in 1 .. Edges, n - 1 \notin Bad PROVE n \notin Bad
  <2>1. PICK f : Upto(f, n - 1)
    <3> HIDE DEF Upto
    <3>1. n - 1 \in 0 .. Edges
      BY <1>e
    <3> QED
      BY <1>0, <1>2, <3>1
  <2> DEFINE g == [k \in 0 .. n |-> IF k = n THEN fwd(f[n - 1], def) ELSE f[k]]
  <2>2. g[0] = def.seed
    BY <2>1, <1>e
  <2>3. ASSUME NEW k \in 1 .. n PROVE g[k] = fwd(g[k - 1], def)
    <3>1. CASE k = n
      <4>1. g[k] = fwd(f[n - 1], def) /\ g[k - 1] = f[n - 1]
        BY <3>1, <1>e
      <4> HIDE DEF g
      <4> QED
        BY <4>1
    <3>2. CASE k # n
      <4>1. k \in 1 .. n - 1 /\ k \in 0 .. n /\ k - 1 \in 0 .. n /\ k - 1 # n
        BY <3>2, <1>e
      <4>2. g[k] = f[k] /\ g[k - 1] = f[k - 1]
        BY <4>1, <3>2
      <4>3. f[k] = fwd(f[k - 1], def)
        BY <2>1, <4>1
      <4> HIDE DEF g
      <4> QED
        BY <4>2, <4>3
    <3> QED
      BY <3>1, <3>2
  <2> HIDE DEF g
  <2>4. Upto(g, n)
    BY <2>2, <2>3
  <2> HIDE DEF Upto
  <2>5. n \in 0 .. Edges /\ \E h : Upto(h, n)
    BY <2>4, <1>e
  <2> QED
    BY <1>0, <2>5
<1>3. Edges \notin Bad
  <2>1. CASE Bad = {}
    BY <2>1
  <2>2. CASE Bad # {}
    BY <2>2, <1>1, <1>2, <1>e, <1>s, LeastFailure
  <2> QED
    BY <2>1, <2>2
<1>4. PICK f : Upto(f, Edges)
  <2> HIDE DEF Upto
  <2> QED
    BY <1>0, <1>3, <1>e
<1> DEFINE g == [n \in 0 .. Edges |-> f[n]]
<1>5. ASSUME NEW n \in 0 .. Edges
      PROVE  g[n] = IF n = 0 THEN def.seed ELSE fwd(g[n - 1], def)
  <2>1. CASE n = 0
    BY <2>1, <1>4, <1>e
  <2>2. CASE n # 0
    <3>1. n \in 1 .. Edges /\ n - 1 \in 0 .. Edges
      BY <2>2, <1>e
    <3>2. g[n] = f[n] /\ g[n - 1] = f[n - 1]
      BY <3>1
    <3>3. f[n] = fwd(f[n - 1], def)
      BY <1>4, <3>1
    <3> HIDE DEF g
    <3> QED
      BY <2>2, <3>2, <3>3
  <2> QED
    BY <2>1, <2>2
<1>6. g = [n \in 0 .. Edges |-> IF n = 0 THEN def.seed ELSE fwd(g[n - 1], def)]
  <2>1. g = [n \in 0 .. Edges |-> g[n]]
    OBVIOUS
  <2> HIDE DEF g
  <2> QED
    BY <1>5, <2>1, Zenon
<1> HIDE DEF g
<1> QED
  BY <1>6, Zenon DEF IsCode, def

(* The register at the places of a record.                                 *)
LEMMA Record ==
  ASSUME NEW d \in Defs
  PROVE  /\ Pressed[d][0] = timecodes[d].seed
         /\ \A n \in 1 .. Edges : Pressed[d][n] = fwd(Pressed[d][n - 1], timecodes[d])
         /\ \A n \in 0 .. Edges : Pressed[d][n] \subseteq mask(timecodes[d])
<1> DEFINE code == CHOOSE f : IsCode(f, d)
<1>1. IsCode(code, d)
  BY CodeExists, Zenon
<1>2. Pressed[d] = [n \in 0 .. Edges |-> code[n]]
  BY Zenon DEF Pressed, IsCode
<1> HIDE DEF code
<1>e. Edges \in Nat
  BY Definitions
<1>3. \A n \in 0 .. Edges :
        code[n] = IF n = 0 THEN timecodes[d].seed ELSE fwd(code[n - 1], timecodes[d])
  <2> DEFINE rhs(n) == IF n = 0 THEN timecodes[d].seed ELSE fwd(code[n - 1], timecodes[d])
  <2>1. code = [n \in 0 .. Edges |-> rhs(n)]
    BY <1>1, Zenon DEF IsCode
  <2> HIDE DEF rhs
  <2>2. \A n \in 0 .. Edges : code[n] = rhs(n)
    BY <2>1
  <2> QED
    BY <2>2 DEF rhs
<1>4. \A n \in 0 .. Edges : Pressed[d][n] = code[n]
  BY <1>2
<1>5. Pressed[d][0] = timecodes[d].seed
  BY <1>3, <1>4, <1>e
<1>6. \A n \in 1 .. Edges : Pressed[d][n] = fwd(Pressed[d][n - 1], timecodes[d])
  <2> TAKE n \in 1 .. Edges
  <2>1. n \in 0 .. Edges /\ n - 1 \in 0 .. Edges /\ n # 0
    BY <1>e
  <2> QED
    BY <2>1, <1>3, <1>4
<1> DEFINE Bad == {n \in 0 .. Edges : ~(Pressed[d][n] \subseteq mask(timecodes[d]))}
<1>7. \A n \in 0 .. Edges : n \in Bad <=> ~(Pressed[d][n] \subseteq mask(timecodes[d]))
  OBVIOUS
<1>s. Bad \subseteq 0 .. Edges
  OBVIOUS
<1> HIDE DEF Bad
<1>8. 0 \notin Bad
  BY <1>5, <1>7, <1>e, Definitions DEF IsDef
<1>9. ASSUME NEW n \in 1 .. Edges, n - 1 \notin Bad PROVE n \notin Bad
  <2>1. n \in 0 .. Edges /\ n - 1 \in 0 .. Edges
    BY <1>e
  <2>2. Pressed[d][n - 1] \subseteq mask(timecodes[d]) /\ IsDef(timecodes[d])
    BY <1>7, <1>9, <2>1, Definitions
  <2>3. Pressed[d][n] \subseteq mask(timecodes[d])
    <3>1. fwd(Pressed[d][n - 1], timecodes[d]) \subseteq mask(timecodes[d])
      BY <2>2, FwdBits
    <3> QED
      BY <3>1, <1>6
  <2> QED
    BY <1>7, <2>1, <2>3
<1>10. Bad = {}
  BY <1>8, <1>9, <1>s, <1>e, LeastFailure
<1> QED
  BY <1>5, <1>6, <1>7, <1>10

(* The register at a place has the bits that lie there and after it.       *)
LEMMA BitsAhead ==
  ASSUME NEW d \in Defs, NEW i \in 0 .. timecodes[d].bits - 1,
         NEW k \in 0 .. Edges, k + i <= Edges
  PROVE  i \in Pressed[d][k] <=> RecordBit(d, k + i)
<1> DEFINE n == timecodes[d].bits
           Ok(j) == \A p \in 0 .. Edges :
                      p + j <= Edges => (j \in Pressed[d][p] <=> RecordBit(d, p + j))
           Bad == {j \in 0 .. n - 1 : ~Ok(j)}
<1>1. \A j \in 0 .. n - 1 : j \in Bad <=> ~Ok(j)
  OBVIOUS
<1>2. Edges \in Nat /\ n \in Nat /\ n >= 1 /\ n - 1 \in Nat /\ IsDef(timecodes[d])
  BY Definitions DEF IsDef, WORD
<1>s. Bad \subseteq 0 .. n - 1
  OBVIOUS
<1>3. 0 \notin Bad
  <2>1. Ok(0)
    BY <1>2 DEF RecordBit
  <2> QED
    BY <2>1
<1>4. ASSUME NEW j \in 1 .. n - 1, j - 1 \notin Bad PROVE j \notin Bad
  <2>1. j - 1 \in 0 .. n - 1 /\ j \in 0 .. n - 1 /\ j - 1 \in 0 .. n - 2
    BY <1>2
  <2>2. Ok(j - 1)
    BY <1>1, <1>4, <2>1
  <2>3. ASSUME NEW p \in 0 .. Edges, p + j <= Edges
        PROVE  j \in Pressed[d][p] <=> RecordBit(d, p + j)
    <3>1. /\ p + 1 \in 1 .. Edges /\ p + 1 \in 0 .. Edges /\ (p + 1) - 1 = p
          /\ (p + 1) + (j - 1) = p + j /\ (j - 1) + 1 = j
      BY <1>2, <2>1, <2>3
    <3>2. Pressed[d][p + 1] = fwd(Pressed[d][p], timecodes[d])
      BY <3>1, Record
    <3>3. Pressed[d][p] \subseteq mask(timecodes[d])
      BY Record
    <3>4. j - 1 \in Pressed[d][p + 1] <=> j \in Pressed[d][p]
      <4>1. \A m \in 0 .. n - 2 :
              m \in fwd(Pressed[d][p], timecodes[d]) <=> m + 1 \in Pressed[d][p]
        BY <3>3, <1>2, FwdBits
      <4> QED
        BY <4>1, <3>1, <3>2, <2>1
    <3>5. j - 1 \in Pressed[d][p + 1] <=> RecordBit(d, (p + 1) + (j - 1))
      BY <2>2, <3>1, <2>3
    <3> QED
      BY <3>1, <3>4, <3>5
  <2>4. Ok(j)
    BY <2>3
  <2> QED
    BY <2>4, <2>1, <1>1
<1> HIDE DEF Bad, Ok
<1>5. i \notin Bad
  BY <1>2, <1>3, <1>4, <1>s, LeastFailure
<1>6. Ok(i)
  BY <1>1, <1>5
<1> QED
  BY <1>6 DEF Ok

(* What is read over a whole window is the register at its start.          *)
LEMMA WindowIs ==
  ASSUME NEW d \in Defs, NEW k \in 0 .. Edges, k + timecodes[d].bits - 1 <= Edges
  PROVE  {i \in mask(timecodes[d]) : RecordBit(d, k + i)} = Pressed[d][k]
<1>1. \A i \in mask(timecodes[d]) : i \in Pressed[d][k] <=> RecordBit(d, k + i)
  <2> TAKE i \in mask(timecodes[d])
  <2>1. i \in 0 .. timecodes[d].bits - 1 /\ k + i <= Edges
    BY Definitions DEF mask, IsDef, WORD
  <2> QED
    BY <2>1, BitsAhead
<1> QED
  BY <1>1, Record

(***************************************************************************)
(* Tables.                                                                 *)
(***************************************************************************)
(* The last of a set of places.                                            *)
Last(S) == IF S = {} THEN NO_SLOT ELSE CHOOSE m \in S : \A k \in S : k <= m

(* The last of a finite set of places is one of them.                      *)
LEMMA LastIs ==
  ASSUME NEW n \in Nat, NEW S, S \subseteq 0 .. n - 1
  PROVE  /\ S = {} => Last(S) = NO_SLOT
         /\ S # {} => Last(S) \in S /\ \A k \in S : k <= Last(S)
<1>1. CASE S = {}
  BY <1>1 DEF Last
<1>2. CASE S # {}
  <2> DEFINE T == {n - k : k \in S}
  <2>0. \A k \in S : k \in Int /\ n - k \in Nat
    <3>1. \A k \in 0 .. n - 1 : k \in Int /\ n - k \in Nat
      OBVIOUS
    <3> QED
      BY <3>1
  <2>1. T \subseteq Nat /\ T # {}
    BY <1>2, <2>0
  <2>2. PICK t \in T : \A u \in T : t <= u
    <3> HIDE DEF T
    <3> QED
      BY <2>1, NatMin
  <2>3. PICK m \in S : t = n - m
    BY <2>2
  <2>4. \A k \in S : k <= m
    <3> TAKE k \in S
    <3>1. n - k \in T
      OBVIOUS
    <3>2. n - m <= n - k
      BY <2>2, <2>3, <3>1
    <3>3. k \in Int /\ m \in Int
      BY <2>0, <2>3
    <3> QED
      BY <3>2, <3>3
  <2> QED
    BY <1>2, <2>4 DEF Last
<1> QED
  BY <1>1, <1>2

(* The last of a set is known by what it is.                               *)
LEMMA LastOf ==
  ASSUME NEW n \in Nat, NEW S, S \subseteq 0 .. n - 1, NEW m \in S, \A k \in S : k <= m
  PROVE  Last(S) = m
<1>1. Last(S) \in S /\ m <= Last(S)
  BY LastIs
<1>2. Last(S) <= m
  BY <1>1
<1>3. Last(S) \in 0 .. n - 1 /\ m \in 0 .. n - 1
  BY <1>1
<1>4. Last(S) \in Int /\ m \in Int
  BY <1>3
<1> QED
  BY <1>1, <1>2, <1>4

(* The places before n of the codes in the chain of h.                     *)
Chain(d, n, h) == {k \in 0 .. n - 1 : HASH(Pressed[d][k]) = h}

Hashes == SUBSET (0 .. HASH_BITS - 1)

(* The table of d after n codes.                                           *)
Filled(d, n) ==
  [slot  |-> [s \in 1 .. n |->
                [timecode |-> Pressed[d][s - 1],
                 next     |-> Last(Chain(d, s - 1, HASH(Pressed[d][s - 1])))]],
   table |-> [h \in Hashes |-> Last(Chain(d, n, h))]]

(* The entries and the chains of a table after n codes.                    *)
LEMMA FilledIs ==
  ASSUME NEW d, NEW n \in Nat
  PROVE  /\ Len(Filled(d, n).slot) = n
         /\ \A s \in 0 .. n - 1 :
              /\ Filled(d, n).slot[s + 1].timecode = Pressed[d][s]
              /\ Filled(d, n).slot[s + 1].next = Last(Chain(d, s, HASH(Pressed[d][s])))
         /\ \A h \in Hashes : Filled(d, n).table[h] = Last(Chain(d, n, h))
<1>1. Len(Filled(d, n).slot) = n
  BY LenProperties DEF Filled
<1>2. ASSUME NEW s \in 0 .. n - 1
      PROVE  /\ Filled(d, n).slot[s + 1].timecode = Pressed[d][s]
             /\ Filled(d, n).slot[s + 1].next = Last(Chain(d, s, HASH(Pressed[d][s])))
  <2>1. s + 1 \in 1 .. n /\ (s + 1) - 1 = s
    OBVIOUS
  <2>2. Filled(d, n).slot[s + 1] =
          [timecode |-> Pressed[d][(s + 1) - 1],
           next     |-> Last(Chain(d, (s + 1) - 1, HASH(Pressed[d][(s + 1) - 1])))]
    BY <2>1 DEF Filled
  <2> QED
    BY <2>1, <2>2
<1>3. \A h \in Hashes : Filled(d, n).table[h] = Last(Chain(d, n, h))
  BY DEF Filled
<1> QED
  BY <1>1, <1>2, <1>3

(* A hash chooses one of the chains.                                       *)
LEMMA HashIs == ASSUME NEW x PROVE HASH(x) \in Hashes
  BY DEF HASH, Hashes

(* lut_init() leaves the table without a code.                             *)
LEMMA NoneFilled == ASSUME NEW d PROVE lut_init = Filled(d, 0)
<1>1. \A h : Chain(d, 0, h) = {}
  BY DEF Chain
<1>2. [h \in Hashes |-> Last(Chain(d, 0, h))] = [h \in Hashes |-> NO_SLOT]
  BY <1>1 DEF Last
<1>3. [s \in 1 .. 0 |-> [timecode |-> Pressed[d][s - 1],
                         next |-> Last(Chain(d, s - 1, HASH(Pressed[d][s - 1])))]] = << >>
  OBVIOUS
<1> QED
  BY <1>2, <1>3 DEF lut_init, Filled, Hashes

(* lut_push() adds the next code of the record to the table.               *)
LEMMA OneMoreFilled ==
  ASSUME NEW d, NEW n \in Nat
  PROVE  lut_push(Filled(d, n), Pressed[d][n]) = Filled(d, n + 1)
<1> DEFINE code == Pressed[d][n]
           hash == HASH(code)
           entry(s) == [timecode |-> Pressed[d][s - 1],
                        next     |-> Last(Chain(d, s - 1, HASH(Pressed[d][s - 1])))]
<1>1. hash \in Hashes
  BY HashIs
<1>2. Filled(d, n).table[hash] = Last(Chain(d, n, hash)) /\ Len(Filled(d, n).slot) = n
  BY <1>1, FilledIs
<1>3. entry(n + 1) = [timecode |-> code, next |-> Last(Chain(d, n, hash))]
  <2>1. (n + 1) - 1 = n
    OBVIOUS
  <2> QED
    BY <2>1
<1>4. Append([s \in 1 .. n |-> entry(s)], entry(n + 1)) = [s \in 1 .. n + 1 |-> entry(s)]
  <2> HIDE DEF entry
  <2> QED
    OBVIOUS
<1>5. \A h \in Hashes : Last(Chain(d, n + 1, h)) =
                          IF h = hash THEN n ELSE Last(Chain(d, n, h))
  <2> TAKE h \in Hashes
  <2>1. CASE h = hash
    <3>1. n \in Chain(d, n + 1, h) /\ Chain(d, n + 1, h) \subseteq 0 .. (n + 1) - 1
      BY <2>1 DEF Chain
    <3>2. \A k \in Chain(d, n + 1, h) : k <= n
      BY DEF Chain
    <3> QED
      BY <3>1, <3>2, <2>1, LastOf, n + 1 \in Nat
  <2>2. CASE h # hash
    <3>1. Chain(d, n + 1, h) = Chain(d, n, h)
      <4>1. \A k \in 0 .. (n + 1) - 1 : k = n \/ k \in 0 .. n - 1
        OBVIOUS
      <4>2. \A k \in 0 .. n - 1 : k \in 0 .. (n + 1) - 1
        OBVIOUS
      <4> HIDE DEF code
      <4>3. HASH(Pressed[d][n]) # h
        BY <2>2 DEF code
      <4> QED
        BY <4>1, <4>2, <4>3 DEF Chain
    <3> QED
      BY <2>2, <3>1
  <2> QED
    BY <2>1, <2>2
<1>6. [Filled(d, n).table EXCEPT ![hash] = n] = [h \in Hashes |-> Last(Chain(d, n + 1, h))]
  <2>1. Filled(d, n).table = [h \in Hashes |-> Last(Chain(d, n, h))]
    BY DEF Filled
  <2> HIDE DEF hash
  <2> QED
    BY <1>5, <2>1
<1>7. Filled(d, n).slot = [s \in 1 .. n |-> entry(s)]
  BY DEF Filled
<1>8. Filled(d, n + 1) = [slot |-> [s \in 1 .. n + 1 |-> entry(s)],
                          table |-> [h \in Hashes |-> Last(Chain(d, n + 1, h))]]
  BY DEF Filled
<1>9. lut_push(Filled(d, n), code) =
        [slot  |-> Append(Filled(d, n).slot, [timecode |-> code,
                                              next |-> Filled(d, n).table[hash]]),
         table |-> [Filled(d, n).table EXCEPT ![hash] = Len(Filled(d, n).slot)]]
  BY DEF lut_push
<1> HIDE DEF entry, code, hash
<1> QED
  BY <1>2, <1>3, <1>4, <1>6, <1>7, <1>8, <1>9 DEF code

(* A search along a chain, for any table whose entries point backwards.    *)
IsWalk(walk, lt, timecode) ==
  walk = [s \in NO_SLOT .. Len(lt.slot) - 1 |->
            IF s = NO_SLOT THEN NO_SLOT
            ELSE IF lt.slot[s + 1].timecode = timecode
            THEN s
            ELSE walk[lt.slot[s + 1].next]]

(* The places up to s that are in its chain and hold the code x.           *)
Hits(d, s, x) == {k \in 0 .. s : HASH(Pressed[d][k]) = HASH(Pressed[d][s]) /\ Pressed[d][k] = x}

(* One step of the search along a chain.                                   *)
LEMMA WalkEq ==
  ASSUME NEW n \in Nat, NEW lt, Len(lt.slot) = n, NEW x, NEW walk, IsWalk(walk, lt, x)
  PROVE  /\ walk[NO_SLOT] = NO_SLOT
         /\ \A s \in 0 .. n - 1 :
              walk[s] = IF lt.slot[s + 1].timecode = x THEN s
                                                       ELSE walk[lt.slot[s + 1].next]
<1> DEFINE rhs(s) == IF s = NO_SLOT THEN NO_SLOT
                     ELSE IF lt.slot[s + 1].timecode = x THEN s
                     ELSE walk[lt.slot[s + 1].next]
<1>1. walk = [s \in NO_SLOT .. n - 1 |-> rhs(s)]
  BY Zenon DEF IsWalk
<1> HIDE DEF rhs
<1>2. \A s \in NO_SLOT .. n - 1 : walk[s] = rhs(s)
  BY <1>1
<1>3. \A s \in 0 .. n - 1 : s \in NO_SLOT .. n - 1 /\ s # NO_SLOT
  BY DEF NO_SLOT
<1>4. NO_SLOT \in NO_SLOT .. n - 1
  BY DEF NO_SLOT
<1> QED
  BY <1>2, <1>3, <1>4 DEF rhs

(* What the search from s finds, for the table of d.                       *)
LEMMA HitsNext ==
  ASSUME NEW d, NEW s \in Nat, NEW x, Pressed[d][s] # x
  PROVE  LET next == Last(Chain(d, s, HASH(Pressed[d][s])))
         IN  /\ next \in NO_SLOT .. s - 1
             /\ next = NO_SLOT => Hits(d, s, x) = {}
             /\ next # NO_SLOT => Hits(d, s, x) = Hits(d, next, x)
<1> DEFINE C == Chain(d, s, HASH(Pressed[d][s]))
           next == Last(C)
<1>1. C \subseteq 0 .. s - 1
  BY DEF Chain
<1>2. \A k : k \in C <=> k \in 0 .. s - 1 /\ HASH(Pressed[d][k]) = HASH(Pressed[d][s])
  BY DEF Chain
<1>3. \A k : k \in Hits(d, s, x) <=> k \in C /\ Pressed[d][k] = x
  <2> TAKE k
  <2>1. k \in 0 .. s <=> k = s \/ k \in 0 .. s - 1
    OBVIOUS
  <2> QED
    BY <2>1, <1>2 DEF Hits
<1> HIDE DEF C
<1>4. /\ C = {} => next = NO_SLOT
      /\ C # {} => next \in C /\ \A k \in C : k <= next
  BY <1>1, LastIs
<1> HIDE DEF next
<1>5. CASE C = {}
  <2>1. next = NO_SLOT /\ Hits(d, s, x) = {}
    BY <1>5, <1>4, <1>3
  <2> QED
    BY <2>1 DEF next, C, NO_SLOT
<1>6. CASE C # {}
  <2>1. next \in 0 .. s - 1 /\ HASH(Pressed[d][next]) = HASH(Pressed[d][s])
    BY <1>6, <1>4, <1>1, <1>2
  <2>2. \A k : k \in C <=> k \in 0 .. next /\ HASH(Pressed[d][k]) = HASH(Pressed[d][next])
    <3> TAKE k
    <3>1. ASSUME k \in C PROVE k \in 0 .. next
      BY <1>4, <1>1, <3>1, <2>1
    <3>2. ASSUME k \in 0 .. next PROVE k \in 0 .. s - 1
      BY <2>1, <3>2
    <3> QED
      BY <3>1, <3>2, <1>2, <2>1
  <2>3. Hits(d, s, x) = Hits(d, next, x)
    BY <2>2, <1>3 DEF Hits
  <2>4. next # NO_SLOT /\ next \in NO_SLOT .. s - 1
    BY <2>1 DEF NO_SLOT
  <2> QED
    BY <2>3, <2>4 DEF next, C
<1> QED
  BY <1>5, <1>6

(* The search from the place of a code stops at once.                      *)
LEMMA HitsHere ==
  ASSUME NEW d, NEW s \in Nat
  PROVE  Last(Hits(d, s, Pressed[d][s])) = s
<1>1. Hits(d, s, Pressed[d][s]) \subseteq 0 .. (s + 1) - 1
  BY DEF Hits
<1>2. s \in Hits(d, s, Pressed[d][s])
  BY DEF Hits
<1>3. \A k \in Hits(d, s, Pressed[d][s]) : k <= s
  BY DEF Hits
<1> QED
  BY <1>1, <1>2, <1>3, LastOf, s + 1 \in Nat

(* The search along a chain ends: its links point backwards.               *)
LEMMA WalkExists ==
  ASSUME NEW d, NEW n \in Nat, NEW x
  PROVE  \E walk : IsWalk(walk, Filled(d, n), x)
<1> DEFINE w == [s \in NO_SLOT .. n - 1 |->
                   IF s = NO_SLOT THEN NO_SLOT ELSE Last(Hits(d, s, x))]
           lt == Filled(d, n)
<1>1. ASSUME NEW s \in NO_SLOT .. n - 1
      PROVE  w[s] = IF s = NO_SLOT THEN NO_SLOT
                    ELSE IF lt.slot[s + 1].timecode = x THEN s
                    ELSE w[lt.slot[s + 1].next]
  <2>1. CASE s = NO_SLOT
    BY <2>1
  <2>2. CASE s # NO_SLOT
    <3>1. s \in 0 .. n - 1 /\ s \in Nat
      BY <2>2 DEF NO_SLOT
    <3>2. /\ lt.slot[s + 1].timecode = Pressed[d][s]
          /\ lt.slot[s + 1].next = Last(Chain(d, s, HASH(Pressed[d][s])))
      BY <3>1, FilledIs
    <3>3. w[s] = Last(Hits(d, s, x))
      BY <2>2
    <3>4. CASE Pressed[d][s] = x
      <4>1. w[s] = s
        BY <3>1, <3>3, <3>4, HitsHere
      <4> HIDE DEF w, lt
      <4> QED
        BY <4>1, <2>2, <3>2, <3>4
    <3>5. CASE Pressed[d][s] # x
      <4> DEFINE next == Last(Chain(d, s, HASH(Pressed[d][s])))
      <4>1. /\ next \in NO_SLOT .. s - 1
            /\ next = NO_SLOT => Hits(d, s, x) = {}
            /\ next # NO_SLOT => Hits(d, s, x) = Hits(d, next, x)
        BY <3>1, <3>5, HitsNext
      <4>2. lt.slot[s + 1].next = next
        BY <3>2
      <4> HIDE DEF next, lt
      <4>3. next \in NO_SLOT .. n - 1
        BY <4>1, <3>1 DEF NO_SLOT
      <4>4. w[next] = Last(Hits(d, s, x))
        <5>1. CASE next = NO_SLOT
          <6>1. Last(Hits(d, s, x)) = NO_SLOT
            BY <5>1, <4>1 DEF Last
          <6>2. w[next] = NO_SLOT
            BY <5>1, <4>3
          <6> QED
            BY <6>1, <6>2
        <5>2. CASE next # NO_SLOT
          <6>1. w[next] = Last(Hits(d, next, x))
            BY <5>2, <4>3
          <6> QED
            BY <6>1, <4>1, <5>2
        <5> QED
          BY <5>1, <5>2
      <4> HIDE DEF w
      <4> QED
        BY <2>2, <3>2, <3>3, <3>5, <4>2, <4>4
    <3> QED
      BY <3>4, <3>5
  <2> QED
    BY <2>1, <2>2
<1>2. Len(lt.slot) = n
  BY FilledIs
<1>3. w = [s \in NO_SLOT .. n - 1 |-> w[s]]
  OBVIOUS
<1> HIDE DEF w, lt
<1>4. w = [s \in NO_SLOT .. n - 1 |->
             IF s = NO_SLOT THEN NO_SLOT
             ELSE IF lt.slot[s + 1].timecode = x THEN s
             ELSE w[lt.slot[s + 1].next]]
  BY <1>1, <1>3, Zenon
<1>5. IsWalk(w, lt, x)
  BY <1>2, <1>4, Zenon DEF IsWalk
<1> QED
  BY <1>5 DEF lt

(* The search finds the last place of a code.                              *)
Places(d, n, x) == {k \in 0 .. n - 1 : Pressed[d][k] = x}

(* lut_lookup() finds the last place where the code was pushed, or none.   *)
LEMMA LookupIs ==
  ASSUME NEW d, NEW n \in Nat, NEW x
  PROVE  lut_lookup(Filled(d, n), x) = Last(Places(d, n, x))
<1> DEFINE lt == Filled(d, n)
           walk == CHOOSE w : IsWalk(w, lt, x)
<1>1. IsWalk(walk, lt, x)
  <2>1. \E w : IsWalk(w, lt, x)
    BY WalkExists
  <2> HIDE DEF lt
  <2> QED
    BY <2>1, Zenon
<1>2. lut_lookup(lt, x) = walk[lt.table[HASH(x)]]
  <2> HIDE DEF lt
  <2> QED
    BY Zenon DEF lut_lookup, IsWalk, walk
<1>3. /\ Len(lt.slot) = n
      /\ \A s \in 0 .. n - 1 : /\ lt.slot[s + 1].timecode = Pressed[d][s]
                               /\ lt.slot[s + 1].next = Last(Chain(d, s, HASH(Pressed[d][s])))
      /\ lt.table[HASH(x)] = Last(Chain(d, n, HASH(x)))
  BY FilledIs, HashIs
<1> HIDE DEF walk, lt
<1>4. /\ walk[NO_SLOT] = NO_SLOT
      /\ \A s \in 0 .. n - 1 :
           walk[s] = IF lt.slot[s + 1].timecode = x THEN s ELSE walk[lt.slot[s + 1].next]
  BY <1>1, <1>3, WalkEq
<1>5. ASSUME NEW s \in 0 .. n - 1 PROVE walk[s] = Last(Hits(d, s, x))
  <2> DEFINE T == {t \in 0 .. n - 1 : walk[t] # Last(Hits(d, t, x))}
  <2>1. \A t \in 0 .. n - 1 : t \in T <=> walk[t] # Last(Hits(d, t, x))
    OBVIOUS
  <2>2. T \subseteq Nat /\ T \subseteq 0 .. n - 1
    OBVIOUS
  <2> HIDE DEF T
  <2> SUFFICES ASSUME T # {} PROVE FALSE
    BY <2>1
  <2>3. PICK m \in T : \A t \in T : m <= t
    BY <2>2, NatMin
  <2>4. m \in 0 .. n - 1 /\ m \in Nat
    BY <2>2
  <2>5. CASE Pressed[d][m] = x
    BY <2>1, <2>3, <2>4, <2>5, <1>3, <1>4, HitsHere
  <2>6. CASE Pressed[d][m] # x
    <3> DEFINE next == Last(Chain(d, m, HASH(Pressed[d][m])))
    <3>1. /\ next \in NO_SLOT .. m - 1
          /\ next = NO_SLOT => Hits(d, m, x) = {}
          /\ next # NO_SLOT => Hits(d, m, x) = Hits(d, next, x)
      BY <2>4, <2>6, HitsNext
    <3>2. walk[m] = walk[next]
      BY <2>4, <2>6, <1>3, <1>4
    <3> HIDE DEF next
    <3>3. CASE next = NO_SLOT
      BY <3>1, <3>2, <3>3, <1>4, <2>1, <2>3, <2>4 DEF Last
    <3>4. CASE next # NO_SLOT
      <4>1. next \in 0 .. n - 1 /\ ~(m <= next)
        BY <3>1, <3>4, <2>4 DEF NO_SLOT
      <4>2. walk[next] = Last(Hits(d, next, x))
        BY <4>1, <2>1, <2>3
      <4> QED
        BY <4>2, <3>1, <3>2, <3>4, <2>1, <2>3, <2>4
    <3> QED
      BY <3>3, <3>4
  <2> QED
    BY <2>5, <2>6
<1> DEFINE C == Chain(d, n, HASH(x))
           s == Last(C)
<1>6. C \subseteq 0 .. n - 1 /\ Places(d, n, x) \subseteq C
  BY DEF Chain, Places
<1>7. \A k : k \in C <=> k \in 0 .. n - 1 /\ HASH(Pressed[d][k]) = HASH(x)
  BY DEF Chain
<1> HIDE DEF C
<1>8. /\ C = {} => s = NO_SLOT
      /\ C # {} => s \in C /\ \A k \in C : k <= s
  BY <1>6, LastIs
<1>9. lut_lookup(lt, x) = walk[s]
  BY <1>2, <1>3 DEF C
<1> HIDE DEF s
<1>10. CASE C = {}
  <2>1. Places(d, n, x) = {}
    BY <1>6, <1>10
  <2> QED
    BY <2>1, <1>4, <1>8, <1>9, <1>10 DEF Last, lt
<1>11. CASE C # {}
  <2>1. s \in 0 .. n - 1 /\ HASH(Pressed[d][s]) = HASH(x)
    BY <1>7, <1>8, <1>11
  <2>2. \A k : k \in Hits(d, s, x) <=> k \in Places(d, n, x)
    <3> TAKE k
    <3>1. ASSUME k \in Places(d, n, x) PROVE k \in Hits(d, s, x)
      <4>1. k \in C /\ k \in 0 .. n - 1 /\ Pressed[d][k] = x
        BY <3>1, <1>6 DEF Places
      <4>2. k <= s
        BY <4>1, <1>8
      <4>3. k \in 0 .. s
        BY <4>1, <4>2, <2>1
      <4> QED
        BY <4>1, <4>3, <2>1 DEF Hits
    <3>2. ASSUME k \in Hits(d, s, x) PROVE k \in Places(d, n, x)
      <4>1. k \in 0 .. s /\ Pressed[d][k] = x
        BY <3>2 DEF Hits
      <4>2. k \in 0 .. n - 1
        BY <4>1, <2>1
      <4> QED
        BY <4>1, <4>2 DEF Places
    <3> QED
      BY <3>1, <3>2
  <2>3. Hits(d, s, x) = Places(d, n, x)
    BY <2>2 DEF Hits, Places
  <2> QED
    BY <2>1, <2>3, <1>5, <1>9 DEF lt
<1> QED
  BY <1>10, <1>11

(* build_lookup() from beginning to end.                                   *)
LEMMA CompleteIs ==
  ASSUME NEW d \in Defs
  PROVE  Complete(d) = Filled(d, timecodes[d].length)
<1> DEFINE n == timecodes[d].length
           IsFilling(f) == f = [k \in 0 .. n |-> IF k = 0 THEN lut_init
                                  ELSE lut_push(f[k - 1], Pressed[d][k - 1])]
           g == [k \in 0 .. n |-> Filled(d, k)]
           filled == CHOOSE f : IsFilling(f)
<1>0. n \in Nat
  BY Definitions DEF IsDef, WORD
<1> HIDE DEF n
<1>1. ASSUME NEW k \in 0 .. n
      PROVE  g[k] = IF k = 0 THEN lut_init ELSE lut_push(g[k - 1], Pressed[d][k - 1])
  <2>1. CASE k = 0
    BY <2>1, NoneFilled
  <2>2. CASE k # 0
    <3>1. k - 1 \in 0 .. n /\ k - 1 \in Nat /\ (k - 1) + 1 = k
      BY <1>0, <2>2
    <3>2. lut_push(Filled(d, k - 1), Pressed[d][k - 1]) = Filled(d, k)
      BY <3>1, OneMoreFilled
    <3>3. g[k] = Filled(d, k) /\ g[k - 1] = Filled(d, k - 1)
      BY <3>1
    <3> HIDE DEF g
    <3> QED
      BY <2>2, <3>2, <3>3
  <2> QED
    BY <2>1, <2>2
<1>2. IsFilling(g)
  <2>1. g = [k \in 0 .. n |-> g[k]]
    OBVIOUS
  <2> HIDE DEF g
  <2> QED
    BY <1>1, <2>1, Zenon
<1>3. IsFilling(filled)
  <2> HIDE DEF g, IsFilling
  <2> QED
    BY <1>2, Zenon
<1>4. Complete(d) = filled[n]
  BY Zenon DEF Complete, n
<1> HIDE DEF filled
<1>5. \A k \in 0 .. n :
        filled[k] = IF k = 0 THEN lut_init ELSE lut_push(filled[k - 1], Pressed[d][k - 1])
  <2> DEFINE rhs(k) == IF k = 0 THEN lut_init ELSE lut_push(filled[k - 1], Pressed[d][k - 1])
  <2>1. filled = [k \in 0 .. n |-> rhs(k)]
    BY <1>3, Zenon
  <2> HIDE DEF rhs
  <2>2. \A k \in 0 .. n : filled[k] = rhs(k)
    BY <2>1
  <2> QED
    BY <2>2 DEF rhs
<1> DEFINE Bad == {k \in 0 .. n : filled[k] # Filled(d, k)}
<1>6. \A k \in 0 .. n : k \in Bad <=> filled[k] # Filled(d, k)
  OBVIOUS
<1>s. Bad \subseteq 0 .. n
  OBVIOUS
<1> HIDE DEF Bad
<1>7. 0 \notin Bad
  BY <1>0, <1>5, <1>6, NoneFilled
<1>8. ASSUME NEW k \in 1 .. n, k - 1 \notin Bad PROVE k \notin Bad
  <2>1. k - 1 \in 0 .. n /\ k - 1 \in Nat /\ (k - 1) + 1 = k /\ k \in 0 .. n /\ k # 0
    BY <1>0
  <2>2. filled[k - 1] = Filled(d, k - 1)
    BY <1>6, <1>8, <2>1
  <2>3. lut_push(Filled(d, k - 1), Pressed[d][k - 1]) = Filled(d, k)
    BY <2>1, OneMoreFilled
  <2>4. filled[k] = lut_push(filled[k - 1], Pressed[d][k - 1])
    BY <1>5, <2>1
  <2> QED
    BY <1>6, <2>1, <2>2, <2>3, <2>4
<1>9. n \notin Bad
  BY <1>0, <1>7, <1>8, <1>s, LeastFailure
<1> QED
  BY <1>0, <1>4, <1>6, <1>9 DEF n

(***************************************************************************)
(* The tables.                                                             *)
(***************************************************************************)
(* A table is being filled in order, and nobody uses it.                   *)
Filling(b) ==
  \/ b = Idle
  \/ \E d \in Defs : \E n \in 0 .. timecodes[d].length :
       /\ b = [pc |-> "push", def |-> d, n |-> n, current |-> Pressed[d][n]]
       /\ ~lookup[d]
       /\ lut[d] = Filled(d, n)

(* A table that may be used is whole, and one that is being filled may not. *)
TablesInv ==
  /\ lookup \in [Defs -> BOOLEAN]
  /\ lut = [d \in Defs |-> lut[d]]
  /\ build = [w \in Workers |-> build[w]]
  /\ \A w \in Workers : Filling(build[w])
  /\ \A d \in Defs : lookup[d] => lut[d] = Filled(d, timecodes[d].length)

(***************************************************************************)
(* The decoder.                                                            *)
(***************************************************************************)
(* The last bit that the needle passed going forwards, and going backwards. *)

(***************************************************************************)
(* The decoder.                                                            *)
(***************************************************************************)
(* The last bit that the needle passed going forwards, and going backwards. *)
Ahead(q)  == (q - 2) \div 4
Behind(q) == (q + 2) \div 4

(* n bits of a stream are those that the needle has passed to come to the   *)
(* quarter q of the record p, as far as a register of d holds them.         *)
ReadsAt(d, p, q, forwards, stream, n) ==
  IF forwards
  THEN /\ n <= Ahead(q) + 1
       /\ \A i \in 0 .. Least(n, timecodes[d].bits) - 1 :
            timecodes[d].bits - 1 - i \in stream <=> RecordBit(p, Ahead(q) - i)
  ELSE /\ n <= Edges - Behind(q)
       /\ \A i \in 0 .. Least(n, timecodes[d].bits) - 1 :
            i \in stream <=> RecordBit(p, Behind(q) + i)

(* No definition has more bits, and no more are in a stream.               *)
Highest == Least(VALID_BITS + 1, WORD)

(* How many bits have agreed, with the one that is being counted, and       *)
(* whether the counter was reset since it was read.                         *)
Trust == IF sample.pc = "counting" THEN sample.count ELSE tc.valid_counter

Torn == torn \/ (sample.pc = "counting" /\ sample.stale)

(* How many of the last bits, of those that agreed, found no bit of a longer *)
(* register above them.                                                    *)
Settled == Least(run, Trust - (Highest - Def.bits))

(* What was read is what is expected next, and `run' bits of it were read  *)
(* as they passed. The bits that a longer register has left move down by   *)
(* one with each bit that agrees; those read after the last one left are   *)
(* the bits that the needle has passed. None of the bits that a reset has  *)
(* ended are counted, unless the counter was read before it.               *)
DecoderInv ==
  /\ tc.timecode = tc.bitstream
  /\ tc.bitstream \subseteq 0 .. Highest - 1
  /\ run > 0 => tc.def = platter
  /\ clean <= Def.bits
  /\ Least(clean, checked) <= run
  /\ cycle.pc # "reset" /\ ~Torn =>
       /\ Trust <= checked
       /\ \A i \in tc.bitstream : i < Def.bits \/ i < Highest - Trust
       /\ ReadsAt(tc.def, platter, needle, tc.forwards, tc.bitstream, Settled)

(* When no longer register has left any bits, all that were read are the   *)
(* bits that the needle has passed, and all but those of the first         *)
(* register full were expected, also when the counter is torn.             *)
KeptInv ==
  /\ tc.bitstream \subseteq mask(Def)
  /\ ReadsAt(tc.def, platter, needle, tc.forwards, tc.bitstream, run)
  /\ run <= Def.bits + Trust
  /\ sample.pc = "crossed" => \A d \in sample.defs : timecodes[d].bits <= Def.bits

(* One control socket: its worker is the only thread that builds tables    *)
(* (control_init()). Two would fill one table at once.                     *)
OneWorker == \A v, w \in Workers : v = w

(* Going round the ring of definitions stays in it, and comes back.        *)
LEMMA Modulus ==
  ASSUME NEW n \in Nat \ {0}, NEW d \in 1 .. n
  PROVE  /\ \A k \in Nat : ((d + k - 1) % n) + 1 \in 1 .. n
         /\ ((d + n - 1) % n) + 1 = d
<1>1. n \in Int /\ n > 0
  OBVIOUS
<1>2. \A x \in Int : x % n \in 0 .. n - 1
  BY <1>1
<1>3. \A k \in Nat : ((d + k - 1) % n) + 1 \in 1 .. n
  <2> TAKE k \in Nat
  <2>1. (d + k - 1) % n \in 0 .. n - 1
    BY <1>2
  <2> QED
    BY <2>1
<1>4. (d + n - 1) % n = d - 1
  <2> DEFINE x == d + n - 1
             q == x \div n
             r == x % n
  <2>1. x \in Int /\ q \in Int /\ r \in 0 .. n - 1 /\ x = n * q + r
    BY <1>1
  <2> HIDE DEF q, r
  <2>2. q < 2
    <3> SUFFICES ASSUME q >= 2 PROVE FALSE
      BY <2>1
    <3>1. n * q >= n * 2
      BY <1>1, <2>1
    <3> QED
      BY <3>1, <2>1
  <2>3. q > 0
    <3> SUFFICES ASSUME q <= 0 PROVE FALSE
      BY <2>1
    <3>1. n * q <= 0
      BY <1>1, <2>1
    <3> QED
      BY <3>1, <2>1
  <2>4. q = 1
    BY <2>1, <2>2, <2>3
  <2>5. n * q = n
    BY <2>4
  <2> QED
    BY <2>1, <2>5 DEF r
<1> QED
  BY <1>3, <1>4

(* next_definition() ends, at a definition that has its table.             *)
LEMMA NextDefinition ==
  ASSUME NEW d \in Defs, lookup[d]
  PROVE  next_definition(d) \in Defs /\ lookup[next_definition(d)]
<1> DEFINE n == Len(timecodes)
           after(k) == ((d + k - 1) % n) + 1
           First(k) == lookup[after(k)] /\ \A j \in 1 .. k - 1 : ~lookup[after(j)]
           T == {k \in 1 .. n : lookup[after(k)]}
<1>1. n \in Nat \ {0} /\ Defs = 1 .. n
  BY TimecoderAssumption
<1> HIDE DEF n
<1>2. \A k \in Nat : after(k) \in 1 .. n
  BY <1>1, Modulus
<1>3. after(n) = d
  BY <1>1, Modulus
<1>4. next_definition(d) = after(CHOOSE k \in 1 .. n : First(k))
  BY DEF next_definition, n
<1> HIDE DEF after
<1>5. \E k \in 1 .. n : First(k)
  <2>1. n \in T /\ T \subseteq Nat
    BY <1>1, <1>3
  <2>2. PICK k \in T : \A j \in T : k <= j
    <3> HIDE DEF T
    <3> QED
      BY <2>1, NatMin
  <2>3. ASSUME NEW j \in 1 .. k - 1 PROVE ~lookup[after(j)]
    <3>1. j \in 1 .. n /\ ~(k <= j)
      BY <1>1, <2>2
    <3> QED
      BY <3>1, <2>2
  <2> QED
    BY <2>2, <2>3
<1> DEFINE k == CHOOSE i \in 1 .. n : First(i)
<1>6. k \in 1 .. n /\ First(k)
  <2> HIDE DEF First
  <2> QED
    BY <1>5
<1> HIDE DEF k
<1>7. k \in Nat
  BY <1>6, <1>1
<1>8. next_definition(d) = after(k)
  BY <1>4 DEF k
<1> QED
  BY <1>1, <1>2, <1>6, <1>7, <1>8

(* The first definition has its table before the decoder starts, and       *)
(* nobody builds.                                                          *)
LEMMA InitTables == Init => TablesInv
<1> SUFFICES ASSUME Init PROVE TablesInv
  OBVIOUS
<1>2. lookup = [d \in Defs |-> d = 1]
  BY DEF Init
<1>3. lut = [d \in Defs |-> IF d = 1 THEN Complete(d) ELSE lut_init] /\ build = [w \in Workers |-> Idle]
  BY DEF Init
<1>4. \A d \in Defs : lookup[d] => lut[d] = Filled(d, timecodes[d].length)
  BY <1>2, <1>3, CompleteIs
<1>5. \A w \in Workers : Filling(build[w])
  BY <1>3 DEF Filling
<1> QED
  BY <1>2, <1>3, <1>4, <1>5 DEF TablesInv

(* Every step keeps the tables: one that is filled grows by the next code, *)
(* and is used when it is whole.                                           *)
LEMMA NextTables == OneWorker /\ TablesInv /\ [Next]_vars => TablesInv'
<1> SUFFICES ASSUME OneWorker, TablesInv, [Next]_vars PROVE TablesInv'
  OBVIOUS
<1>0. UNCHANGED tables => TablesInv'
  BY DEF TablesInv, Filling, tables
<1>1. ASSUME NEW q, Sample(q) PROVE TablesInv'
  BY <1>0, <1>1 DEF Sample
<1>2. ASSUME NEW b, NEW seen, ProcessSample(b, seen) PROVE TablesInv'
  BY <1>0, <1>2 DEF ProcessSample
<1>3. CASE Count
  BY <1>0, <1>3 DEF Count
<1>4. ASSUME NEW d, NEW q, Jump(d, q) PROVE TablesInv'
  BY <1>0, <1>4 DEF Jump
<1>5. ASSUME NEW d, SetDefinition(d) PROVE TablesInv'
  BY <1>0, <1>5 DEF SetDefinition
<1>c. CASE CycleNext \/ CycleDefinition \/ CycleReset
  BY <1>0, <1>c DEF CycleNext, CycleDefinition, CycleReset
<1>6. ASSUME NEW w \in Workers, NEW d \in Defs, FindBuilt(w, d) PROVE TablesInv'
  <2>1. /\ ~lookup[d] /\ lookup' = lookup
        /\ lut' = [lut EXCEPT ![d] = lut_init]
        /\ build' = [build EXCEPT ![w] =
             [pc |-> "push", def |-> d, n |-> 0, current |-> timecodes[d].seed]]
    BY <1>6 DEF FindBuilt
  <2>2. lut'[d] = Filled(d, 0) /\ timecodes[d].seed = Pressed[d][0]
    BY <2>1, NoneFilled, Record DEF TablesInv
  <2>3. build'[w] = [pc |-> "push", def |-> d, n |-> 0, current |-> Pressed[d][0]]
    BY <2>1, <2>2 DEF TablesInv
  <2>4. 0 \in 0 .. timecodes[d].length
    BY Definitions DEF IsDef, WORD
  <2>5. Filling(build[w])'
    BY <2>1, <2>2, <2>3, <2>4 DEF Filling
  <2>6. \A v \in Workers : Filling(build[v])'
    BY <2>5 DEF OneWorker
  <2>7. \A e \in Defs : lookup'[e] => lut'[e] = Filled(e, timecodes[e].length)
    BY <2>1 DEF TablesInv
  <2>8. /\ lookup' \in [Defs -> BOOLEAN] /\ lut' = [e \in Defs |-> lut'[e]]
        /\ build' = [v \in Workers |-> build'[v]]
    BY <2>1 DEF TablesInv
  <2> QED
    BY <2>6, <2>7, <2>8 DEF TablesInv
<1>7. ASSUME NEW w \in Workers, PushTimecode(w) PROVE TablesInv'
  <2>1. build[w] # Idle
    BY <1>7 DEF PushTimecode, Idle
  <2>2. PICK d \in Defs : \E n \in 0 .. timecodes[d].length :
          /\ build[w] = [pc |-> "push", def |-> d, n |-> n, current |-> Pressed[d][n]]
          /\ ~lookup[d] /\ lut[d] = Filled(d, n)
    BY <2>1 DEF TablesInv, Filling
  <2>3. PICK n \in 0 .. timecodes[d].length :
          /\ build[w] = [pc |-> "push", def |-> d, n |-> n, current |-> Pressed[d][n]]
          /\ ~lookup[d] /\ lut[d] = Filled(d, n)
    BY <2>2
  <2>4. n < timecodes[d].length
    BY <1>7, <2>3 DEF PushTimecode
  <2>5. /\ n \in Nat /\ n + 1 \in 1 .. Edges /\ (n + 1) - 1 = n
        /\ n + 1 \in 0 .. timecodes[d].length
    BY <2>4, Definitions DEF IsDef, WORD
  <2>6. /\ lookup' = lookup
        /\ lut' = [lut EXCEPT ![d] = lut_push(lut[d], Pressed[d][n])]
        /\ build' = [build EXCEPT ![w] =
             [pc |-> "push", def |-> d, n |-> n + 1, current |-> fwd(Pressed[d][n], timecodes[d])]]
    <3>1. build[w].def = d /\ build[w].n = n /\ build[w].current = Pressed[d][n]
      BY <2>3
    <3> QED
      BY <1>7, <3>1 DEF PushTimecode
  <2>7. lut'[d] = Filled(d, n + 1)
    BY <2>3, <2>5, <2>6, OneMoreFilled DEF TablesInv
  <2>8. Pressed[d][n + 1] = fwd(Pressed[d][n], timecodes[d])
    BY <2>5, Record
  <2>9. build'[w] = [pc |-> "push", def |-> d, n |-> n + 1, current |-> Pressed[d][n + 1]]
    BY <2>6, <2>8 DEF TablesInv
  <2>10. Filling(build[w])'
    <3>1. /\ build'[w] = [pc |-> "push", def |-> d, n |-> n + 1, current |-> Pressed[d][n + 1]]
          /\ ~lookup'[d] /\ lut'[d] = Filled(d, n + 1)
      BY <2>3, <2>6, <2>7, <2>9
    <3> QED
      BY <2>5, <3>1 DEF Filling
  <2>11. \A v \in Workers : Filling(build[v])'
    BY <2>10 DEF OneWorker
  <2>12. \A e \in Defs : lookup'[e] => lut'[e] = Filled(e, timecodes[e].length)
    BY <2>3, <2>6 DEF TablesInv
  <2>13. /\ lookup' \in [Defs -> BOOLEAN] /\ lut' = [e \in Defs |-> lut'[e]]
         /\ build' = [v \in Workers |-> build'[v]]
    BY <2>6 DEF TablesInv
  <2> QED
    BY <2>11, <2>12, <2>13 DEF TablesInv
<1>8. ASSUME NEW w \in Workers, FinishTable(w) PROVE TablesInv'
  <2>1. build[w] # Idle
    BY <1>8 DEF FinishTable, Idle
  <2>2. PICK d \in Defs : \E n \in 0 .. timecodes[d].length :
          /\ build[w] = [pc |-> "push", def |-> d, n |-> n, current |-> Pressed[d][n]]
          /\ ~lookup[d] /\ lut[d] = Filled(d, n)
    BY <2>1 DEF TablesInv, Filling
  <2>3. PICK n \in 0 .. timecodes[d].length :
          /\ build[w] = [pc |-> "push", def |-> d, n |-> n, current |-> Pressed[d][n]]
          /\ ~lookup[d] /\ lut[d] = Filled(d, n)
    BY <2>2
  <2>4. /\ n = timecodes[d].length
        /\ lookup' = [lookup EXCEPT ![d] = TRUE]
        /\ build' = [build EXCEPT ![w] = Idle]
        /\ lut' = lut
    BY <1>8, <2>3 DEF FinishTable
  <2>5. build'[w] = Idle
    BY <2>4 DEF TablesInv
  <2>6. \A v \in Workers : Filling(build[v])'
    BY <2>5 DEF OneWorker, Filling
  <2>7. \A e \in Defs : lookup'[e] => lut'[e] = Filled(e, timecodes[e].length)
    BY <2>3, <2>4 DEF TablesInv
  <2>8. /\ lookup' \in [Defs -> BOOLEAN] /\ lut' = [e \in Defs |-> lut'[e]]
        /\ build' = [v \in Workers |-> build'[v]]
    BY <2>4 DEF TablesInv
  <2> QED
    BY <2>6, <2>7, <2>8 DEF TablesInv
<1>9. CASE UNCHANGED vars
  BY <1>9, <1>0 DEF vars, tables
<1> QED
  BY <1>1, <1>2, <1>3, <1>4, <1>5, <1>c, <1>6, <1>7, <1>8, <1>9 DEF Next

(* With one control socket, a table is only used once build_lookup() has   *)
(* filled it.                                                              *)
THEOREM TablesInvariant == OneWorker => (Spec => []TablesInv)
<1> SUFFICES ASSUME OneWorker PROVE Spec => []TablesInv
  OBVIOUS
<1>1. TablesInv /\ [Next]_vars => TablesInv'
  BY NextTables
<1> QED
  BY <1>1, InitTables, PTL DEF Spec

(* What the table of a definition in use answers.                          *)
LEMMA Found ==
  ASSUME TablesInv, NEW d \in Defs, lookup[d], NEW k \in 0 .. Edges - timecodes[d].bits
  PROVE  LET r == lut_lookup(lut[d], Pressed[d][k])
         IN  /\ r # NO_SLOT => r = k
             /\ k < timecodes[d].length => r = k
<1> DEFINE n == timecodes[d].length
           S == Places(d, n, Pressed[d][k])
           r == lut_lookup(lut[d], Pressed[d][k])
<1>1. n \in Nat /\ n - 1 <= Edges - timecodes[d].bits /\ Edges \in Nat /\ timecodes[d].bits \in Nat
  BY Definitions DEF IsDef, WORD
<1>2. r = Last(S)
  BY <1>1, LookupIs DEF TablesInv
<1>3. \A j \in S : j = k
  <2> TAKE j \in S
  <2>1. j \in 0 .. n - 1 /\ Pressed[d][j] = Pressed[d][k]
    BY DEF Places
  <2>2. j \in 0 .. Edges - timecodes[d].bits
    BY <2>1, <1>1
  <2> QED
    BY <2>1, <2>2, NoWrap
<1>4. S \subseteq 0 .. n - 1
  BY DEF Places
<1>5. k < n => k \in S
  BY <1>1 DEF Places
<1> HIDE DEF S, n, r
<1>6. /\ S = {} => Last(S) = NO_SLOT
      /\ S # {} => Last(S) \in S
  BY <1>1, <1>4, LastIs
<1> QED
  BY <1>2, <1>3, <1>5, <1>6 DEF r, n

(***************************************************************************)
(* The types.                                                              *)
(***************************************************************************)
(* The values of a bits_t.                                                 *)
Words == SUBSET (0 .. WORD - 1)

(* struct timecoder, as far as it is modelled.                             *)
Decoders ==
  [def : Defs, forwards : BOOLEAN, primary : BOOLEAN, secondary : BOOLEAN,
   bitstream : Words, timecode : Words, valid_counter : 0 .. VALID_BITS + 1]

(* The channels that have crossed.                                         *)
Crossings == [primary : BOOLEAN, secondary : BOOLEAN]

(* Where the decoding thread is within a sample.                           *)
Crossed == [pc : {"crossed"}, at : Quarters, defs : SUBSET Defs, swapped : Crossings]
Counting == [pc : {"counting"}, stale : BOOLEAN, count : 1 .. VALID_BITS + 1]
Samples == {Between} \cup Crossed \cup Counting

(* Where the interface is in timecoder_cycle_definition().                 *)
Storing == [pc : {"store"}, def : Defs]
Cycles == {Idle, [pc |-> "reset"]} \cup Storing

(* A step is told by its pc.                                               *)
LEMMA StepsTold ==
  /\ sample \in Samples /\ sample.pc = "crossed" => sample \in Crossed
  /\ sample \in Samples /\ sample.pc = "counting" => sample \in Counting
  /\ cycle \in Cycles /\ cycle.pc = "store" => cycle \in Storing
<1>1. Between.pc = "between" /\ Idle.pc = "idle" /\ [pc |-> "reset"].pc = "reset"
  BY DEF Between, Idle
<1>2. \A s \in Crossed : s.pc = "crossed"
  BY DEF Crossed
<1>3. \A s \in Counting : s.pc = "counting"
  BY DEF Counting
<1> QED
  BY <1>1, <1>2, <1>3 DEF Samples, Cycles

(* What a crossing changes in the decoder.                                 *)
LEMMA DirectIs ==
  ASSUME NEW t \in Decoders, NEW swapped \in Crossings, NEW d \in Defs
  PROVE  LET u == Direct(t, swapped, d)
         IN  /\ u \in Decoders
             /\ u.def = t.def /\ u.bitstream = t.bitstream /\ u.timecode = t.timecode
             /\ u.valid_counter = IF u.forwards # t.forwards THEN 0 ELSE t.valid_counter
<1> DEFINE forwards == Forwards(t, swapped, d)
           count == IF forwards # t.forwards THEN 0 ELSE t.valid_counter
<1>1. Direct(t, swapped, d) = [t EXCEPT !.forwards = forwards, !.valid_counter = count]
  BY DEF Direct
<1>3. forwards \in BOOLEAN
  BY DEF Decoders, Forwards
<1>4. count \in 0 .. VALID_BITS + 1 /\ t.valid_counter \in 0 .. VALID_BITS + 1
  BY Definitions DEF Decoders
<1>5. count = IF forwards # t.forwards THEN 0 ELSE t.valid_counter
  OBVIOUS
<1> HIDE DEF forwards, count
<1> DEFINE u == [t EXCEPT !.forwards = forwards, !.valid_counter = count]
<1>6. /\ u \in Decoders
      /\ u.def = t.def /\ u.bitstream = t.bitstream /\ u.timecode = t.timecode
      /\ u.forwards = forwards /\ u.valid_counter = count
  BY <1>3, <1>4 DEF Decoders
<1> HIDE DEF u
<1> QED
  BY <1>1, <1>5, <1>6 DEF u

(* What is read stays in a word, and in the definition's bits if it was in *)
(* them.                                                                   *)
LEMMA ReadFits ==
  ASSUME NEW t \in Decoders, NEW b \in BOOLEAN, NEW d \in Defs
  PROVE  /\ Read(t, b, d) \in Words
         /\ t.bitstream \subseteq mask(timecodes[d]) => Read(t, b, d) \subseteq mask(timecodes[d])
         /\ \A size \in timecodes[d].bits .. WORD :
              t.bitstream \subseteq 0 .. size - 1 => Read(t, b, d) \subseteq 0 .. size - 1
<1>1. t.bitstream \subseteq 0 .. WORD - 1 /\ t.forwards \in BOOLEAN
  BY DEF Decoders, Words
<1>2. IsDef(timecodes[d])
  BY Definitions
<1>3. t.bitstream \subseteq Nat /\ mask(timecodes[d]) \subseteq 0 .. WORD - 1
  BY <1>1, <1>2 DEF IsDef, mask, WORD
<1>4. CASE t.forwards
  <2>1. Read(t, b, d) = ReadForwards(t.bitstream, b, timecodes[d])
    BY <1>4 DEF Read
  <2>2. Read(t, b, d) \subseteq 0 .. WORD - 1
    BY <1>1, <1>2, <2>1, ReadForwardsFits DEF IsDef, WORD
  <2>3. t.bitstream \subseteq mask(timecodes[d]) => Read(t, b, d) \subseteq mask(timecodes[d])
    BY <1>2, <2>1, ReadForwardsBits
  <2>4. ASSUME NEW size \in timecodes[d].bits .. WORD, t.bitstream \subseteq 0 .. size - 1
        PROVE  Read(t, b, d) \subseteq 0 .. size - 1
    BY <1>2, <2>1, <2>4, ReadForwardsFits
  <2> QED
    BY <2>2, <2>3, <2>4 DEF Words
<1>5. CASE ~t.forwards
  <2>1. Read(t, b, d) = ReadBackwards(t.bitstream, b, timecodes[d])
    BY <1>5 DEF Read
  <2>2. Read(t, b, d) \subseteq mask(timecodes[d])
    <3>1. ReadBackwards(t.bitstream, b, timecodes[d]) \subseteq mask(timecodes[d])
      BY <1>2, <1>3, ReadBackwardsBits
    <3> QED
      BY <2>1, <3>1
  <2>3. \A size \in timecodes[d].bits .. WORD : mask(timecodes[d]) \subseteq 0 .. size - 1
    BY <1>2 DEF IsDef, WORD, mask
  <2> QED
    BY <1>3, <2>2, <2>3 DEF Words
<1> QED
  BY <1>4, <1>5

(* What process_bitstream() changes in the decoder.                        *)
LEMMA ProcessIs ==
  ASSUME NEW t \in Decoders, NEW b \in BOOLEAN, NEW seen \in [Glances -> Defs]
  PROVE  LET u == process_bitstream(t, b, seen)
         IN  /\ u \in Decoders
             /\ u.def = t.def /\ u.forwards = t.forwards
             /\ u.bitstream = Read(t, b, seen.shift) /\ u.timecode = Read(t, b, seen.shift)
             /\ u.valid_counter = IF Agrees(t, b, seen) THEN t.valid_counter ELSE 0
<1> DEFINE read == Read(t, b, seen.shift)
           count == IF Agrees(t, b, seen) THEN t.valid_counter ELSE 0
<1>1. process_bitstream(t, b, seen) =
        [t EXCEPT !.bitstream = read, !.timecode = read, !.valid_counter = count]
  BY DEF process_bitstream
<1>2. read \in Words
  BY ReadFits DEF Glances
<1>3. count \in 0 .. VALID_BITS + 1
  BY Definitions DEF Decoders
<1>4. count = IF Agrees(t, b, seen) THEN t.valid_counter ELSE 0
  OBVIOUS
<1> DEFINE u == [t EXCEPT !.bitstream = read, !.timecode = read, !.valid_counter = count]
<1>r. read = Read(t, b, seen.shift)
  OBVIOUS
<1> HIDE DEF read, count
<1>5. /\ u \in Decoders
      /\ u.def = t.def /\ u.forwards = t.forwards
      /\ u.bitstream = read /\ u.timecode = read /\ u.valid_counter = count
  BY <1>2, <1>3 DEF Decoders
<1> HIDE DEF u
<1> QED
  BY <1>1, <1>4, <1>5, <1>r DEF u

(* The types, and a definition with a table in use and to be used next,     *)
(* without which there may be no next one; a sample is of the needle or a   *)
(* quarter from it.                                                         *)
TypeInv ==
  /\ TypeOK
  /\ lookup[tc.def]
  /\ cycle.pc = "store" => lookup[cycle.def]
  /\ sample.pc = "crossed" => sample.at \in needle - 1 .. needle + 1

(* The types by their names.                                               *)
LEMMA TypeIs ==
  TypeOK <=> /\ platter \in Defs /\ needle \in Quarters /\ tc \in Decoders
             /\ lookup \in [Defs -> BOOLEAN] /\ cycle \in Cycles /\ sample \in Samples
             /\ clean \in Nat /\ run \in Nat /\ checked \in 0 .. VALID_BITS + 1
             /\ torn \in BOOLEAN
<1>1. Cycles = {Idle, [pc |-> "reset"]} \cup [pc : {"store"}, def : Defs]
  BY DEF Cycles, Storing
<1>2. Samples = {Between}
        \cup [pc : {"crossed"}, at : Quarters, defs : SUBSET Defs,
              swapped : [primary : BOOLEAN, secondary : BOOLEAN]]
        \cup [pc : {"counting"}, stale : BOOLEAN, count : 1 .. VALID_BITS + 1]
  BY DEF Samples, Crossed, Crossings, Counting
<1>3. Decoders = [def : Defs, forwards : BOOLEAN, primary : BOOLEAN, secondary : BOOLEAN,
                  bitstream : SUBSET (0 .. WORD - 1),
                  timecode : SUBSET (0 .. WORD - 1), valid_counter : 0 .. VALID_BITS + 1]
  BY DEF Decoders, Words
<1> QED
  BY <1>1, <1>2, <1>3 DEF TypeOK

(* The same of the next state.                                             *)
LEMMA TypeIsNext ==
  TypeOK' <=> /\ platter' \in Defs /\ needle' \in Quarters /\ tc' \in Decoders
              /\ lookup' \in [Defs -> BOOLEAN] /\ cycle' \in Cycles /\ sample' \in Samples
              /\ clean' \in Nat /\ run' \in Nat /\ checked' \in 0 .. VALID_BITS + 1
              /\ torn' \in BOOLEAN
<1>1. Cycles = {Idle, [pc |-> "reset"]} \cup [pc : {"store"}, def : Defs]
  BY DEF Cycles, Storing
<1>2. Samples = {Between}
        \cup [pc : {"crossed"}, at : Quarters, defs : SUBSET Defs,
              swapped : [primary : BOOLEAN, secondary : BOOLEAN]]
        \cup [pc : {"counting"}, stale : BOOLEAN, count : 1 .. VALID_BITS + 1]
  BY DEF Samples, Crossed, Crossings, Counting
<1>3. Decoders = [def : Defs, forwards : BOOLEAN, primary : BOOLEAN, secondary : BOOLEAN,
                  bitstream : SUBSET (0 .. WORD - 1),
                  timecode : SUBSET (0 .. WORD - 1), valid_counter : 0 .. VALID_BITS + 1]
  BY DEF Decoders, Words
<1> QED
  BY <1>1, <1>2, <1>3 DEF TypeOK

(* The decoder starts with types that are right.                           *)
LEMMA InitTypes == Init => TypeInv
<1> SUFFICES ASSUME Init PROVE TypeInv
  OBVIOUS
<1>1. 1 \in Defs
  BY TimecoderAssumption
<1>2. timecoder_init(1) \in Decoders
  BY <1>1, Definitions DEF timecoder_init, Decoders, Words
<1>3. needle \in Quarters
  <2>1. Edges >= 1 /\ Edges \in Nat
    BY <1>1, Definitions DEF IsDef, WORD
  <2> QED
    BY <2>1 DEF Init, Quarters
<1>4. lookup \in [Defs -> BOOLEAN] /\ lookup[1]
  BY <1>1 DEF Init
<1>5. tc.def = 1 /\ tc = timecoder_init(1)
  BY DEF Init, timecoder_init
<1>6. /\ platter \in Defs /\ clean \in Nat /\ run \in Nat /\ checked \in 0 .. VALID_BITS + 1
      /\ torn \in BOOLEAN
  <2>1. 0 \in 0 .. VALID_BITS + 1
    BY Definitions
  <2> QED
    BY <2>1 DEF Init
<1>7. cycle \in Cycles /\ cycle.pc # "store"
  BY DEF Init, Cycles, Idle
<1>8. sample \in Samples /\ sample.pc # "crossed"
  BY DEF Init, Samples, Between
<1>9. TypeOK
  BY <1>2, <1>3, <1>4, <1>5, <1>6, <1>7, <1>8, TypeIs
<1> QED
  BY <1>4, <1>5, <1>7, <1>8, <1>9 DEF TypeInv

(* A sample's crossings, when what it finds of tc->def is `seen': the       *)
(* decoder after them, whether they tell a bit, whether a definition was    *)
(* found that is not in use, whether the bit is the one that passed, and    *)
(* what is left of a count that a reversal ends.                            *)
Turned(seen) == Direct(tc, sample.swapped, seen.direction)

Tells(seen) == ReadsBit(Turned(seen), sample.swapped, seen.polarity)

Stale(seen) == \E g \in Glances : seen[g] # tc.def

AsItWas(b, seen) ==
  /\ Tells(seen) /\ ~Stale(seen) /\ Passed(needle, sample.at) # {} /\ tc.def = platter
  /\ Turned(seen).forwards = (sample.at > needle)
  /\ \A k \in Passed(needle, sample.at) : b = RecordBit(platter, k)

Before(seen, n) == IF Turned(seen).forwards = tc.forwards THEN n ELSE 0

Agreed(b, seen) == Agrees(Turned(seen), b, seen)

(* What the crossings of a sample do.                                      *)
LEMMA ProcessSampleIs ==
  ASSUME TypeInv, NEW b \in BOOLEAN, NEW seen \in [Glances -> sample.defs],
         ProcessSample(b, seen)
  PROVE  LET v == Turned(seen).valid_counter
             read == Read(Turned(seen), b, seen.shift)
         IN
         /\ Turned(seen) \in Decoders /\ Turned(seen).def = tc.def
         /\ Turned(seen).bitstream = tc.bitstream /\ Turned(seen).timecode = tc.timecode
         /\ v = Before(seen, tc.valid_counter) /\ v \in 0 .. VALID_BITS + 1
         /\ seen.shift \in sample.defs /\ sample.defs \subseteq Defs
         /\ ~Stale(seen) => seen.shift = tc.def /\ seen.expect = tc.def
         /\ sample.pc = "crossed" /\ sample'.pc # "crossed" /\ sample' \in Samples
         /\ sample.at \in Quarters /\ sample.at \in needle - 1 .. needle + 1
         /\ needle' = sample.at /\ platter' = platter /\ cycle' = cycle /\ lookup' = lookup
         /\ tc' \in Decoders /\ tc'.def = tc.def /\ tc'.forwards = Turned(seen).forwards
         /\ tc'.bitstream = IF Tells(seen) THEN read ELSE tc.bitstream
         /\ tc'.timecode = IF Tells(seen) THEN read ELSE tc.timecode
         /\ Trust' = IF ~Tells(seen) THEN v
                     ELSE IF Agreed(b, seen) THEN Least(v + 1, VALID_BITS + 1) ELSE 0
         /\ Torn = torn /\ Trust = tc.valid_counter
         /\ ~Torn' => /\ ~(Tells(seen) /\ Agreed(b, seen) /\ Stale(seen))
                      /\ Trust' = 0 \/ v = 0 \/ ~torn
         /\ torn' \in BOOLEAN
         /\ clean' = IF AsItWas(b, seen) THEN Least(clean + 1, Def.bits)
                     ELSE IF Tells(seen) \/ Passed(needle, sample.at) # {} THEN 0 ELSE clean
         /\ run' = IF AsItWas(b, seen)
                   THEN Least(Before(seen, run) + 1, Def.bits + VALID_BITS + 1)
                   ELSE IF Tells(seen) \/ Passed(needle, sample.at) # {} THEN 0
                   ELSE Before(seen, run)
         /\ checked' = Least(Before(seen, checked)
                               + (IF Tells(seen) /\ ~Stale(seen) THEN 1 ELSE 0),
                             VALID_BITS + 1)
         /\ Tells(seen) \in BOOLEAN /\ AsItWas(b, seen) \in BOOLEAN
         /\ Stale(seen) \in BOOLEAN /\ Agreed(b, seen) \in BOOLEAN
<1> DEFINE t == Turned(seen)
           v == t.valid_counter
           read == Read(t, b, seen.shift)
           u == process_bitstream(t, b, seen)
           count == Least(v + 1, VALID_BITS + 1)
<1>1. sample.pc = "crossed" /\ tc \in Decoders /\ sample \in Samples /\ torn \in BOOLEAN
  BY TypeIs DEF TypeInv, ProcessSample
<1>2. /\ sample \in Crossed /\ sample.at \in Quarters /\ sample.defs \subseteq Defs
      /\ sample.swapped \in Crossings /\ sample.at \in needle - 1 .. needle + 1
  <2>1. sample \in Crossed
    BY <1>1, StepsTold
  <2> QED
    BY <1>1, <2>1 DEF Crossed, TypeInv
<1>3. seen \in [Glances -> Defs] /\ \A g \in Glances : seen[g] \in sample.defs
  BY <1>2
<1>4. /\ seen.direction \in Defs /\ seen.shift \in Defs /\ seen.shift \in sample.defs
      /\ ~Stale(seen) => seen.shift = tc.def /\ seen.expect = tc.def
  BY <1>3 DEF Glances, Stale
<1>5. /\ needle' = sample.at /\ platter' = platter /\ cycle' = cycle /\ lookup' = lookup
      /\ tc' = (IF Tells(seen) THEN u ELSE t)
      /\ sample' = IF Tells(seen) /\ Agreed(b, seen)
                   THEN [pc |-> "counting", stale |-> Stale(seen), count |-> count]
                   ELSE Between
      /\ clean' = IF AsItWas(b, seen) THEN Least(clean + 1, Def.bits)
                  ELSE IF Tells(seen) \/ Passed(needle, sample.at) # {} THEN 0 ELSE clean
      /\ run' = IF AsItWas(b, seen)
                THEN Least(Before(seen, run) + 1, Def.bits + VALID_BITS + 1)
                ELSE IF Tells(seen) \/ Passed(needle, sample.at) # {} THEN 0
                ELSE Before(seen, run)
      /\ checked' = Least(Before(seen, checked)
                            + (IF Tells(seen) /\ ~Stale(seen) THEN 1 ELSE 0),
                          VALID_BITS + 1)
      /\ torn' = (torn /\ tc'.valid_counter # 0)
  BY DEF ProcessSample, Turned, Tells, Stale, AsItWas, Before, Agreed, tables
<1>6. /\ t \in Decoders /\ t.def = tc.def
      /\ t.bitstream = tc.bitstream /\ t.timecode = tc.timecode
      /\ v = Before(seen, tc.valid_counter)
  BY <1>1, <1>2, <1>4, DirectIs DEF Turned, Before
<1>7. v \in 0 .. VALID_BITS + 1
  BY <1>6 DEF Decoders
<1>8. /\ Tells(seen) \in BOOLEAN /\ AsItWas(b, seen) \in BOOLEAN
      /\ Stale(seen) \in BOOLEAN /\ Agreed(b, seen) \in BOOLEAN
  BY DEF Tells, ReadsBit, AsItWas, Stale, Agreed, Agrees
<1>9. /\ u \in Decoders /\ u.def = t.def /\ u.forwards = t.forwards
      /\ u.bitstream = read /\ u.timecode = read
      /\ u.valid_counter = IF Agreed(b, seen) THEN v ELSE 0
  <2> HIDE DEF t
  <2> QED
    BY <1>3, <1>6, ProcessIs DEF Agreed, t
<1> HIDE DEF t, u, read
<1>10. /\ tc' \in Decoders /\ tc'.def = tc.def /\ tc'.forwards = t.forwards
       /\ tc'.bitstream = IF Tells(seen) THEN read ELSE tc.bitstream
       /\ tc'.timecode = IF Tells(seen) THEN read ELSE tc.timecode
       /\ tc'.valid_counter = IF Tells(seen) /\ ~Agreed(b, seen) THEN 0 ELSE v
  <2>1. CASE Tells(seen)
    BY <1>5, <1>6, <1>9, <2>1
  <2>2. CASE ~Tells(seen)
    BY <1>5, <1>6, <2>2
  <2> QED
    BY <2>1, <2>2
<1> DEFINE told == [pc |-> "counting", stale |-> Stale(seen), count |-> count]
<1>11. /\ told.pc = "counting" /\ told.stale = Stale(seen) /\ told.count = count
       /\ told \in Counting
  <2>1. count \in 1 .. VALID_BITS + 1
    <3> HIDE DEF v
    <3> QED
      BY <1>7, Definitions DEF Least
  <2> HIDE DEF count
  <2> QED
    BY <1>8, <2>1 DEF Counting
<1> HIDE DEF count, v
<1>12. CASE Tells(seen) /\ Agreed(b, seen)
  <2>1. sample' = told /\ tc'.valid_counter = v
    BY <1>5, <1>10, <1>12
  <2> HIDE DEF told
  <2>2. /\ sample'.pc = "counting" /\ sample' \in Samples
        /\ Trust' = count /\ (Torn' <=> torn' \/ Stale(seen))
    BY <1>11, <2>1 DEF Samples, Trust, Torn
  <2>3. ~Torn' => ~Stale(seen) /\ (v = 0 \/ ~torn)
    BY <1>1, <1>5, <2>1, <2>2
  <2>4. Torn = torn /\ Trust = tc.valid_counter
    BY <1>1 DEF Torn, Trust
  <2> QED
    BY <1>1, <1>2, <1>4, <1>5, <1>6, <1>7, <1>8, <1>10, <1>12, <2>2, <2>3, <2>4
       DEF t, v, read, count
<1>13. CASE ~(Tells(seen) /\ Agreed(b, seen))
  <2>1. sample' = Between
    BY <1>5, <1>8, <1>13
  <2>2. /\ sample'.pc = "between" /\ sample' \in Samples
        /\ Trust' = tc'.valid_counter /\ (Torn' <=> torn')
    BY <2>1 DEF Between, Samples, Trust, Torn
  <2>3. Trust' = IF ~Tells(seen) THEN v ELSE 0
    BY <1>8, <1>10, <1>13, <2>2
  <2>4. ~Torn' => Trust' = 0 \/ ~torn
    BY <1>1, <1>5, <2>2
  <2>5. Torn = torn /\ Trust = tc.valid_counter
    BY <1>1 DEF Torn, Trust
  <2> QED
    BY <1>1, <1>2, <1>4, <1>5, <1>6, <1>7, <1>8, <1>10, <1>13, <2>2, <2>3, <2>4, <2>5
       DEF t, v, read
<1> QED
  BY <1>8, <1>12, <1>13

(* Every step keeps the types, and a definition with a table in use.       *)
LEMMA NextTypes == TypeInv /\ [Next]_vars => TypeInv'
<1> SUFFICES ASSUME TypeInv, [Next]_vars PROVE TypeInv'
  OBVIOUS
<1>1. /\ platter \in Defs /\ needle \in Quarters /\ tc \in Decoders /\ lookup \in [Defs -> BOOLEAN]
      /\ cycle \in Cycles /\ sample \in Samples /\ torn \in BOOLEAN
      /\ clean \in Nat /\ run \in Nat /\ checked \in 0 .. VALID_BITS + 1
  BY TypeIs DEF TypeInv
<1>2. /\ lookup[tc.def] /\ tc.def \in Defs /\ VALID_BITS \in Nat /\ Def.bits \in Nat
      /\ 0 \in 0 .. VALID_BITS + 1
      /\ cycle.pc = "store" => cycle.def \in Defs /\ lookup[cycle.def]
      /\ sample.pc = "crossed" => sample.at \in needle - 1 .. needle + 1
  <2>1. tc.def \in Defs
    BY <1>1 DEF Decoders
  <2>2. cycle.pc = "store" => cycle.def \in Defs
    BY <1>1, StepsTold DEF Storing
  <2> QED
    BY <2>1, <2>2, Definitions DEF TypeInv, Def, IsDef, WORD
<1> DEFINE Counts == clean' \in Nat /\ run' \in Nat /\ checked' \in 0 .. VALID_BITS + 1
           Held == platter' \in Defs /\ needle' \in Quarters /\ torn' \in BOOLEAN
           InUse == lookup' \in [Defs -> BOOLEAN] /\ lookup'[tc'.def]
           Cycling == cycle' \in Cycles /\ (cycle'.pc = "store" => lookup'[cycle'.def])
           Sampling == /\ sample' \in Samples
                       /\ sample'.pc = "crossed" => sample'.at \in needle' - 1 .. needle' + 1
<1>3. tc' \in Decoders /\ Counts /\ Held /\ InUse /\ Cycling /\ Sampling => TypeInv'
  BY TypeIsNext DEF TypeInv
<1>4. ASSUME NEW q \in needle - 1 .. needle + 1, Sample(q) PROVE TypeInv'
  <2> DEFINE sw == detect_zero_crossing(tc, Left(platter, q), Right(platter, q))
             p == tc.primary # sw.primary
             s == tc.secondary # sw.secondary
  <2>1. /\ tc' = [tc EXCEPT !.primary = p, !.secondary = s]
        /\ sample' = [pc |-> "crossed", at |-> q, swapped |-> sw, defs |-> {tc.def}]
        /\ q \in Quarters /\ needle' = needle /\ platter' = platter /\ torn' = torn
        /\ clean' = clean /\ run' = run /\ checked' = checked
        /\ cycle' = cycle /\ lookup' = lookup
    BY <1>4 DEF Sample, tables, history
  <2>2. sw \in Crossings
    BY DEF detect_zero_crossing, Crossings
  <2>3. p \in BOOLEAN /\ s \in BOOLEAN
    OBVIOUS
  <2> HIDE DEF sw, p, s
  <2>4. tc' \in Decoders /\ tc'.def = tc.def
    BY <1>1, <2>1, <2>3 DEF Decoders
  <2>5. sample' \in Crossed /\ sample'.at = q
    BY <1>2, <2>1, <2>2 DEF Crossed
  <2>6. Sampling
    BY <2>1, <2>5 DEF Samples
  <2> QED
    BY <1>1, <1>2, <1>3, <2>1, <2>4, <2>6
<1>5. ASSUME NEW b \in BOOLEAN, NEW seen \in [Glances -> sample.defs], ProcessSample(b, seen)
      PROVE  TypeInv'
  <2>1. /\ sample'.pc # "crossed" /\ sample' \in Samples
        /\ sample.at \in Quarters /\ needle' = sample.at /\ platter' = platter
        /\ cycle' = cycle /\ lookup' = lookup /\ torn' \in BOOLEAN
        /\ tc' \in Decoders /\ tc'.def = tc.def
        /\ clean' \in {Least(clean + 1, Def.bits), 0, clean}
        /\ run' \in {Least(Before(seen, run) + 1, Def.bits + VALID_BITS + 1), 0,
                     Before(seen, run)}
        /\ checked' \in {Least(Before(seen, checked) + 1, VALID_BITS + 1),
                         Least(Before(seen, checked) + 0, VALID_BITS + 1)}
    BY <1>5, ProcessSampleIs
  <2>2. Counts
    <3>1. \A n \in Nat, m \in Nat : Least(n + 1, m) \in Nat
      BY DEF Least
    <3>2. \A n \in Nat : Least(n, VALID_BITS + 1) \in 0 .. VALID_BITS + 1
      BY <1>2 DEF Least
    <3>3. Def.bits + VALID_BITS + 1 \in Nat
      BY <1>2
    <3>4. Before(seen, run) \in Nat /\ Before(seen, checked) \in Nat
      BY <1>1, <1>2 DEF Before
    <3>5. clean' \in Nat
      BY <1>1, <1>2, <2>1, <3>1
    <3>6. run' \in Nat
      BY <2>1, <3>1, <3>3, <3>4
    <3>7. checked' \in 0 .. VALID_BITS + 1
      BY <2>1, <3>2, <3>4
    <3> QED
      BY <3>5, <3>6, <3>7
  <2> QED
    BY <1>1, <1>2, <1>3, <2>1, <2>2
<1>6. CASE Count
  <2>1. /\ tc' = [tc EXCEPT !.valid_counter = sample.count] /\ sample' = Between
        /\ torn' = (torn \/ sample.stale) /\ needle' = needle /\ platter' = platter
        /\ cycle' = cycle /\ lookup' = lookup /\ clean' = clean /\ run' = run
        /\ checked' = checked /\ sample.pc = "counting"
    BY <1>6 DEF Count, tables
  <2>2. sample.count \in 0 .. VALID_BITS + 1 /\ sample.stale \in BOOLEAN
    <3>1. sample \in Counting
      BY <1>1, <2>1, StepsTold
    <3> QED
      BY <1>2, <3>1 DEF Counting
  <2>3. tc' \in Decoders /\ tc'.def = tc.def
    BY <1>1, <2>1, <2>2 DEF Decoders
  <2>4. sample'.pc = "between" /\ Sampling
    BY <2>1 DEF Samples, Between
  <2>5. torn' \in BOOLEAN
    BY <1>1, <2>1, <2>2
  <2> QED
    BY <1>1, <1>2, <1>3, <2>1, <2>3, <2>4, <2>5
<1>7. ASSUME NEW d \in Defs, NEW q \in Landings, Jump(d, q) PROVE TypeInv'
  <2>1. q \in Quarters
    BY TimecoderAssumption DEF Quarters
  <2>2. sample' = Between /\ Sampling
    BY <1>7 DEF Jump, Samples, Between
  <2> QED
    BY <1>1, <1>2, <1>3, <1>7, <2>1, <2>2 DEF Jump, tables
<1>8. ASSUME NEW d \in Defs, SetDefinition(d) PROVE TypeInv'
  <2>1. timecoder_set_definition(d) \in Decoders /\ timecoder_set_definition(d).def = d
    BY <1>2 DEF timecoder_set_definition, timecoder_init, Decoders, Words
  <2>2. sample' = Between /\ Sampling
    BY <1>8 DEF SetDefinition, Samples, Between
  <2>3. /\ tc' = timecoder_set_definition(d) /\ lookup[d] /\ lookup' = lookup
        /\ clean' = 0 /\ run' = 0 /\ checked' = 0 /\ torn' = FALSE /\ cycle' = cycle
        /\ needle' = needle /\ platter' = platter
    BY <1>8 DEF SetDefinition, tables
  <2> QED
    BY <1>1, <1>2, <1>3, <2>1, <2>2, <2>3
<1>9. CASE CycleNext
  <2> DEFINE d == next_definition(tc.def)
  <2>1. d \in Defs /\ lookup[d]
    BY <1>2, NextDefinition
  <2>2. /\ cycle' = [pc |-> "store", def |-> d] /\ needle' = needle /\ platter' = platter
        /\ tc' = tc /\ lookup' = lookup /\ sample' = sample /\ torn' = torn
        /\ clean' = clean /\ run' = run /\ checked' = checked
    BY <1>9 DEF CycleNext, tables, history
  <2> HIDE DEF d
  <2>3. cycle' \in Storing /\ cycle'.def = d
    BY <2>1, <2>2 DEF Storing
  <2>4. Cycling
    BY <2>1, <2>2, <2>3 DEF Cycles
  <2> QED
    BY <1>1, <1>2, <1>3, <2>2, <2>4
<1>10. CASE CycleDefinition
  <2>1. /\ cycle.pc = "store" /\ tc' = [tc EXCEPT !.def = cycle.def]
        /\ cycle' = [pc |-> "reset"]
        /\ sample' = IF sample.pc = "crossed"
                     THEN [sample EXCEPT !.defs = @ \cup {cycle.def}] ELSE sample
        /\ clean' = 0 /\ run' = 0 /\ checked' = 0
        /\ needle' = needle /\ platter' = platter /\ lookup' = lookup /\ torn' = torn
    BY <1>10 DEF CycleDefinition, tables
  <2>2. cycle.def \in Defs /\ lookup[cycle.def]
    BY <1>2, <2>1
  <2>3. tc' \in Decoders /\ tc'.def = cycle.def
    BY <1>1, <2>1, <2>2 DEF Decoders
  <2>4. Cycling
    BY <2>1 DEF Cycles
  <2>5. Sampling
    <3>1. CASE sample.pc = "crossed"
      <4> DEFINE defs == sample.defs \cup {cycle.def}
      <4>1. sample \in Crossed
        BY <1>1, <3>1, StepsTold
      <4>2. defs \in SUBSET Defs
        BY <2>2, <4>1 DEF Crossed
      <4>3. sample' = [sample EXCEPT !.defs = defs]
        BY <2>1, <3>1
      <4> HIDE DEF defs
      <4>4. sample' \in Crossed /\ sample'.at = sample.at
        BY <4>1, <4>2, <4>3 DEF Crossed
      <4> QED
        BY <1>2, <2>1, <3>1, <4>4 DEF Samples
    <3>2. CASE sample.pc # "crossed"
      BY <1>1, <2>1, <3>2
    <3> QED
      BY <3>1, <3>2
  <2> QED
    BY <1>1, <1>2, <1>3, <2>1, <2>2, <2>3, <2>4, <2>5
<1>11. CASE CycleReset
  <2>1. /\ tc' = [tc EXCEPT !.valid_counter = 0] /\ cycle' = Idle
        /\ sample' = IF sample.pc = "counting" THEN [sample EXCEPT !.stale = TRUE]
                                               ELSE sample
        /\ run' = 0 /\ checked' = 0 /\ torn' = FALSE /\ clean' = clean
        /\ needle' = needle /\ platter' = platter /\ lookup' = lookup
    BY <1>11 DEF CycleReset, tables
  <2>2. tc' \in Decoders /\ tc'.def = tc.def
    BY <1>1, <1>2, <2>1 DEF Decoders
  <2>3. Cycling
    BY <2>1 DEF Cycles, Idle
  <2>4. Sampling
    <3>1. CASE sample.pc = "counting"
      <4>1. sample \in Counting /\ sample' = [sample EXCEPT !.stale = TRUE]
        BY <1>1, <2>1, <3>1, StepsTold
      <4>2. sample' \in Counting /\ sample'.pc = "counting"
        BY <3>1, <4>1 DEF Counting
      <4> QED
        BY <4>2 DEF Samples
    <3>2. CASE sample.pc # "counting"
      BY <1>1, <1>2, <2>1, <3>2
    <3> QED
      BY <3>1, <3>2
  <2> QED
    BY <1>1, <1>2, <1>3, <2>1, <2>2, <2>3, <2>4
<1>12. ASSUME NEW w \in Workers, NEW d \in Defs, FindBuilt(w, d) PROVE TypeInv'
  BY <1>1, <1>2, <1>3, <1>12 DEF FindBuilt, history
<1>13. ASSUME NEW w \in Workers, PushTimecode(w) PROVE TypeInv'
  BY <1>1, <1>2, <1>3, <1>13 DEF PushTimecode, history
<1>14. ASSUME NEW w \in Workers, FinishTable(w) PROVE TypeInv'
  <2>1. /\ lookup' = [lookup EXCEPT ![build[w].def] = TRUE] /\ tc' = tc /\ cycle' = cycle
        /\ sample' = sample /\ needle' = needle /\ platter' = platter /\ torn' = torn
        /\ clean' = clean /\ run' = run /\ checked' = checked
    BY <1>14 DEF FinishTable, history
  <2>2. lookup' \in [Defs -> BOOLEAN] /\ \A d \in Defs : lookup[d] => lookup'[d]
    BY <1>1, <2>1
  <2> QED
    BY <1>1, <1>2, <1>3, <2>1, <2>2
<1>15. CASE UNCHANGED vars
  BY <1>1, <1>2, <1>3, <1>15 DEF vars, tables
<1>16. CASE Next
  <2> HIDE DEF Counts, Held, InUse, Cycling, Sampling
  <2> QED
    BY <1>4, <1>5, <1>6, <1>7, <1>8, <1>9, <1>10, <1>11, <1>12, <1>13, <1>14, <1>16 DEF Next
<1> QED
  BY <1>15, <1>16

(* The types hold in every run.                                            *)
LEMMA TypesHold == Spec => []TypeInv
  BY InitTypes, NextTypes, PTL DEF Spec

(* The variables have their types, and the definition in use has a table.  *)
THEOREM TypeCorrect == Spec => []TypeOK
<1>1. TypeInv => TypeOK
  BY DEF TypeInv
<1> QED
  BY <1>1, TypesHold, PTL

(* A table that may be used finds every place of its record, and the       *)
(* definition in use has one.                                              *)
THEOREM TablesAreComplete == OneWorker => (Spec => []TablesComplete)
<1>1. TypeInv /\ TablesInv => TablesComplete
  <2> SUFFICES ASSUME TypeInv, TablesInv PROVE TablesComplete
    OBVIOUS
  <2>1. ASSUME NEW d \in Defs, lookup[d], NEW n \in 0 .. timecodes[d].length - 1
        PROVE  lut_lookup(lut[d], Window[d][n]) = n
    <3>1. /\ n \in 0 .. Edges - timecodes[d].bits /\ n < timecodes[d].length
          /\ n \in 0 .. Edges /\ n + timecodes[d].bits - 1 <= Edges
      BY Definitions DEF IsDef, WORD
    <3>2. Window[d][n] = {i \in mask(timecodes[d]) : RecordBit(d, n + i)}
      BY DEF Window
    <3>3. Window[d][n] = Pressed[d][n]
      BY <3>1, <3>2, WindowIs
    <3> QED
      BY <2>1, <3>1, <3>3, Found
  <2> QED
    BY <2>1 DEF TablesComplete, TypeInv
<1> QED
  BY <1>1, TypesHold, TablesInvariant, PTL

(***************************************************************************)
(* The needle and the register.                                            *)
(***************************************************************************)
LEMMA Quarter ==
  ASSUME NEW q \in Quarters
  PROVE  /\ Ahead(q) \in -1 .. Edges - 1 /\ Behind(q) \in 0 .. Edges
BY Definitions DEF Quarters, Ahead, Behind

(* A bit that is passed is the next one in the direction of the needle.    *)
LEMMA PassedIs ==
  ASSUME NEW p \in Quarters, NEW q \in Quarters, q \in p - 1 .. p + 1, NEW k \in Passed(p, q)
  PROVE  /\ k \in 0 .. Edges - 1
         /\ q > p => Ahead(q) = k /\ Ahead(p) = k - 1
         /\ ~(q > p) => Behind(q) = k /\ Behind(p) = k + 1
<1>1. k \in 0 .. Edges - 1 /\ {p, q} = {4 * k + 1, 4 * k + 2} /\ k \in Int
  <2>1. k \in 0 .. Edges - 1
    BY DEF Passed
  <2>2. {p, q} = {4 * k + 1, 4 * k + 2}
    BY DEF Passed
  <2>3. k \in Int
    BY <2>1, Definitions
  <2> QED
    BY <2>1, <2>2, <2>3
<1>2. p \in Int /\ q \in Int
  BY DEF Quarters
<1>3. (p = 4 * k + 1 /\ q = 4 * k + 2) \/ (p = 4 * k + 2 /\ q = 4 * k + 1)
  <2>1. p \in {4 * k + 1, 4 * k + 2} /\ q \in {4 * k + 1, 4 * k + 2}
    BY <1>1
  <2>2. p = q => FALSE
    <3> SUFFICES ASSUME p = q PROVE FALSE
      OBVIOUS
    <3>1. 4 * k + 1 = p /\ 4 * k + 2 = p
      BY <1>1
    <3> QED
      BY <3>1, <1>1
  <2> QED
    BY <2>1, <2>2
<1> QED
  BY <1>1, <1>2, <1>3 DEF Ahead, Behind

(* As long as none is passed, the last one stays.                          *)
LEMMA NonePassed ==
  ASSUME NEW p \in Quarters, NEW q \in Quarters, q \in p - 1 .. p + 1, Passed(p, q) = {}
  PROVE  Ahead(q) = Ahead(p) /\ Behind(q) = Behind(p)
<1>1. p \in Int /\ q \in Int /\ Edges \in Nat /\ p \in 0 .. 4 * Edges - 1 /\ q \in 0 .. 4 * Edges - 1
  BY Definitions DEF Quarters
<1>2. ASSUME NEW k \in 0 .. Edges - 1
      PROVE  ~(p = 4 * k + 1 /\ q = 4 * k + 2) /\ ~(p = 4 * k + 2 /\ q = 4 * k + 1)
  <2>1. {p, q} # {4 * k + 1, 4 * k + 2}
    BY DEF Passed
  <2> QED
    BY <2>1
<1> DEFINE k == p \div 4
<1>3. k \in 0 .. Edges - 1 /\ p \in 4 * k .. 4 * k + 3
  BY <1>1
<1>4. ~(p = 4 * k + 1 /\ q = 4 * k + 2) /\ ~(p = 4 * k + 2 /\ q = 4 * k + 1)
  BY <1>2, <1>3
<1> HIDE DEF k
<1>5. q = p \/ q = p - 1 \/ q = p + 1
  BY <1>1
<1>6. k \in Int
  BY <1>3
<1> QED
  BY <1>1, <1>3, <1>4, <1>5, <1>6 DEF Ahead, Behind

(* Of no bits nothing has to be known.                                     *)
LEMMA NothingRead ==
  ASSUME NEW d \in Defs, NEW p, NEW q \in Quarters, NEW forwards \in BOOLEAN, NEW stream,
         NEW n \in Int, n <= 0
  PROVE  ReadsAt(d, p, q, forwards, stream, n)
<1>1. Ahead(q) \in -1 .. Edges - 1 /\ Behind(q) \in 0 .. Edges /\ Edges \in Nat
  BY Quarter, Definitions
<1>2. Least(n, timecodes[d].bits) = n
  BY Definitions DEF Least, IsDef, WORD
<1>3. \A i \in 0 .. Least(n, timecodes[d].bits) - 1 : FALSE
  BY <1>2
<1> QED
  BY <1>1, <1>3 DEF ReadsAt

(* One more bit is read going forwards.                                    *)
LEMMA ReadOnForwards ==
  ASSUME NEW d \in Defs, NEW p, NEW p0 \in Quarters, NEW q \in Quarters,
         NEW k \in 0 .. Edges - 1, Ahead(q) = k, Ahead(p0) = k - 1,
         NEW stream, stream \subseteq mask(timecodes[d]), NEW n \in Nat, NEW m \in Nat, m <= n + 1,
         ReadsAt(d, p, p0, TRUE, stream, n), NEW b \in BOOLEAN, b = RecordBit(p, k)
  PROVE  ReadsAt(d, p, q, TRUE, ReadForwards(stream, b, timecodes[d]), m)
<1> DEFINE bits == timecodes[d].bits
           read == ReadForwards(stream, b, timecodes[d])
<1>1. bits \in Nat /\ bits >= 1 /\ IsDef(timecodes[d]) /\ k \in Int
  BY Definitions DEF IsDef, WORD
<1>2. /\ \A i \in 0 .. bits - 2 : i \in read <=> i + 1 \in stream
      /\ bits - 1 \in read <=> b
  BY <1>1, ReadForwardsBits
<1>3. /\ n <= (k - 1) + 1
      /\ \A i \in 0 .. Least(n, bits) - 1 : bits - 1 - i \in stream <=> RecordBit(p, (k - 1) - i)
  BY DEF ReadsAt
<1> HIDE DEF bits, read
<1>4. m <= k + 1
  BY <1>1, <1>3
<1>5. ASSUME NEW i \in 0 .. Least(m, bits) - 1
      PROVE  bits - 1 - i \in read <=> RecordBit(p, k - i)
  <2>1. i < m /\ i < bits /\ i \in Nat
    BY <1>1 DEF Least
  <2>2. CASE i = 0
    <3>1. bits - 1 - i = bits - 1 /\ k - i = k
      BY <1>1, <2>2
    <3> QED
      BY <3>1, <1>2
  <2>3. CASE i # 0
    <3>1. i - 1 \in 0 .. Least(n, bits) - 1
      BY <1>1, <2>1, <2>3 DEF Least
    <3>2. /\ bits - 1 - i \in 0 .. bits - 2 /\ (bits - 1 - i) + 1 = bits - 1 - (i - 1)
          /\ (k - 1) - (i - 1) = k - i
      BY <1>1, <2>1, <2>3
    <3> QED
      BY <3>1, <3>2, <1>2, <1>3
  <2> QED
    BY <2>2, <2>3
<1> QED
  BY <1>4, <1>5 DEF ReadsAt, bits, read

(* One more bit is read going backwards.                                   *)
LEMMA ReadOnBackwards ==
  ASSUME NEW d \in Defs, NEW p, NEW p0 \in Quarters, NEW q \in Quarters,
         NEW k \in 0 .. Edges - 1, Behind(q) = k, Behind(p0) = k + 1,
         NEW stream, stream \subseteq mask(timecodes[d]), NEW n \in Nat, NEW m \in Nat, m <= n + 1,
         ReadsAt(d, p, p0, FALSE, stream, n), NEW b \in BOOLEAN, b = RecordBit(p, k)
  PROVE  ReadsAt(d, p, q, FALSE, ReadBackwards(stream, b, timecodes[d]), m)
<1> DEFINE bits == timecodes[d].bits
           read == ReadBackwards(stream, b, timecodes[d])
<1>1. bits \in Nat /\ bits >= 1 /\ IsDef(timecodes[d]) /\ k \in Int /\ Edges \in Nat
  BY Definitions DEF IsDef, WORD
<1>2. /\ \A i \in 1 .. bits - 1 : i \in read <=> i - 1 \in stream
      /\ 0 \in read <=> b
  <2>1. stream \subseteq Nat
    BY <1>1 DEF mask
  <2> QED
    BY <1>1, <2>1, ReadBackwardsBits
<1>3. /\ n <= Edges - (k + 1)
      /\ \A i \in 0 .. Least(n, bits) - 1 : i \in stream <=> RecordBit(p, (k + 1) + i)
  BY DEF ReadsAt
<1> HIDE DEF bits, read
<1>4. m <= Edges - k
  BY <1>1, <1>3
<1>5. ASSUME NEW i \in 0 .. Least(m, bits) - 1
      PROVE  i \in read <=> RecordBit(p, k + i)
  <2>1. i < m /\ i < bits /\ i \in Nat
    BY <1>1 DEF Least
  <2>2. CASE i = 0
    <3>1. k + i = k
      BY <1>1, <2>2
    <3> QED
      BY <2>2, <3>1, <1>2
  <2>3. CASE i # 0
    <3>1. i - 1 \in 0 .. Least(n, bits) - 1
      BY <1>1, <2>1, <2>3 DEF Least
    <3>2. i \in 1 .. bits - 1 /\ (k + 1) + (i - 1) = k + i
      BY <1>1, <2>1, <2>3
    <3> QED
      BY <3>1, <3>2, <1>2, <1>3
  <2> QED
    BY <2>2, <2>3
<1> QED
  BY <1>4, <1>5 DEF ReadsAt, bits, read

(* Where the window starts.                                                *)
Start(d, q, forwards) ==
  IF forwards THEN Ahead(q) - timecodes[d].bits + 1 ELSE Behind(q)

(* The register is the code of the place where the window starts.          *)
HasCode(d, q, forwards, stream) ==
  /\ Start(d, q, forwards) \in 0 .. Edges - timecodes[d].bits
  /\ stream = Pressed[d][Start(d, q, forwards)]

(* A register that is full of bits that were passed is the code of a place. *)
LEMMA FullRegister ==
  ASSUME NEW d \in Defs, NEW q \in Quarters, NEW forwards \in BOOLEAN,
         NEW stream, stream \subseteq mask(timecodes[d]), NEW n \in Nat,
         n >= timecodes[d].bits, ReadsAt(d, d, q, forwards, stream, n)
  PROVE  HasCode(d, q, forwards, stream)
<1> DEFINE bits == timecodes[d].bits
           a == Start(d, q, forwards)
<1>1. bits \in Nat /\ bits >= 1 /\ Edges \in Nat
  BY Definitions DEF IsDef, WORD
<1>2. Ahead(q) \in -1 .. Edges - 1 /\ Behind(q) \in 0 .. Edges
  BY Quarter
<1>3. Least(n, bits) = bits
  BY <1>1 DEF Least
<1>4. a \in 0 .. Edges - bits /\ \A j \in 0 .. bits - 1 : j \in stream <=> RecordBit(d, a + j)
  <2>1. CASE forwards
    <3>1. /\ n <= Ahead(q) + 1
          /\ \A i \in 0 .. bits - 1 : bits - 1 - i \in stream <=> RecordBit(d, Ahead(q) - i)
      BY <1>3, <2>1 DEF ReadsAt
    <3>2. a = Ahead(q) - bits + 1
      BY <2>1 DEF Start
    <3>3. a \in 0 .. Edges - bits
      BY <1>1, <1>2, <3>1, <3>2
    <3>4. ASSUME NEW j \in 0 .. bits - 1 PROVE j \in stream <=> RecordBit(d, a + j)
      <4>1. /\ bits - 1 - j \in 0 .. bits - 1 /\ bits - 1 - (bits - 1 - j) = j
            /\ Ahead(q) - (bits - 1 - j) = a + j
        BY <1>1, <1>2, <3>2
      <4> HIDE DEF a, bits
      <4> QED
        BY <3>1, <4>1
    <3> QED
      BY <3>3, <3>4
  <2>2. CASE ~forwards
    <3>1. /\ n <= Edges - Behind(q)
          /\ \A i \in 0 .. bits - 1 : i \in stream <=> RecordBit(d, Behind(q) + i)
      BY <1>3, <2>2 DEF ReadsAt
    <3>2. a = Behind(q)
      BY <2>2 DEF Start
    <3> QED
      BY <1>1, <1>2, <3>1, <3>2
  <2> QED
    BY <2>1, <2>2
<1>5. a \in 0 .. Edges /\ a + bits - 1 <= Edges
  BY <1>1, <1>4
<1> HIDE DEF a
<1>6. {i \in mask(timecodes[d]) : RecordBit(d, a + i)} = Pressed[d][a]
  BY <1>5, WindowIs
<1>7. stream = {i \in mask(timecodes[d]) : RecordBit(d, a + i)}
  BY <1>4 DEF mask
<1> QED
  BY <1>4, <1>6, <1>7 DEF a, HasCode

(***************************************************************************)
(* The decoder's steps.                                                    *)
(***************************************************************************)
(* timecoder_cycle_definition() leaves the bits read as they are. Those    *)
(* beyond the bits of a shorter register stay above it and go on into what *)
(* is read; the definitions that are cycled to have no fewer bits.         *)
KeepsBits ==
  [][CycleDefinition => timecodes[tc.def].bits <= timecodes[tc'.def].bits]_vars

(* A bit that is read as it passed is in the register, and expected as soon *)
(* as the register was full.                                               *)
LEMMA ReadOn ==
  ASSUME NEW t \in Decoders, t.bitstream \subseteq mask(timecodes[t.def]),
         t.timecode = t.bitstream,
         NEW p \in Quarters, NEW q \in Quarters, q \in p - 1 .. p + 1,
         NEW k \in Passed(p, q), NEW record, t.def = record, t.forwards = (q > p),
         NEW b \in BOOLEAN, b = RecordBit(record, k),
         NEW n \in Nat, NEW m \in Nat, m <= n + 1,
         ReadsAt(t.def, record, p, t.forwards, t.bitstream, n)
  PROVE  /\ ReadsAt(t.def, record, q, t.forwards, Read(t, b, t.def), m)
         /\ n >= timecodes[t.def].bits => Expects(t, t.def) = Read(t, b, t.def)
<1> DEFINE d == t.def
           bits == timecodes[d].bits
           stream == t.bitstream
<1>1. /\ d \in Defs /\ t.forwards \in BOOLEAN /\ IsDef(timecodes[d]) /\ Edges \in Nat
      /\ bits \in Nat /\ bits >= 1
  BY Definitions DEF Decoders, IsDef, WORD
<1>2. /\ k \in 0 .. Edges - 1
      /\ q > p => Ahead(q) = k /\ Ahead(p) = k - 1
      /\ ~(q > p) => Behind(q) = k /\ Behind(p) = k + 1
  BY PassedIs
<1>3. Read(t, b, t.def) \subseteq mask(timecodes[d])
  BY <1>1, ReadFits
<1>4. ASSUME NEW j \in Nat, j <= n + 1
      PROVE  ReadsAt(d, record, q, t.forwards, Read(t, b, t.def), j)
  <2>1. CASE t.forwards = TRUE
    <3>1. Ahead(q) = k /\ Ahead(p) = k - 1 /\ ReadsAt(d, record, p, TRUE, stream, n)
      BY <1>2, <2>1
    <3>2. ReadsAt(d, record, q, TRUE, ReadForwards(stream, b, timecodes[d]), j)
      BY <1>1, <1>2, <1>4, <3>1, ReadOnForwards
    <3> QED
      BY <2>1, <3>2 DEF Read
  <2>2. CASE t.forwards = FALSE
    <3>1. Behind(q) = k /\ Behind(p) = k + 1 /\ ReadsAt(d, record, p, FALSE, stream, n)
      BY <1>2, <2>2
    <3>2. ReadsAt(d, record, q, FALSE, ReadBackwards(stream, b, timecodes[d]), j)
      BY <1>1, <1>2, <1>4, <3>1, ReadOnBackwards
    <3> QED
      BY <2>2, <3>2 DEF Read
  <2> QED
    BY <1>1, <2>1, <2>2
<1>5. ASSUME n >= bits PROVE Expects(t, t.def) = Read(t, b, t.def)
  <2> DEFINE a == Start(d, p, t.forwards)
             e == Start(d, q, t.forwards)
             next == n + 1
  <2>1. record = d /\ ReadsAt(d, d, p, t.forwards, stream, n)
    OBVIOUS
  <2>2. next \in Nat /\ next >= bits /\ next <= n + 1
    BY <1>1, <1>5
  <2> HIDE DEF next
  <2>3. ReadsAt(d, d, q, t.forwards, Read(t, b, t.def), next)
    BY <1>4, <2>1, <2>2
  <2>4. a \in 0 .. Edges - bits /\ stream = Pressed[d][a]
    <3>1. /\ d \in Defs /\ t.forwards \in BOOLEAN /\ n >= timecodes[d].bits
          /\ stream \subseteq mask(timecodes[d]) /\ ReadsAt(d, d, p, t.forwards, stream, n)
      BY <1>1, <1>5, <2>1
    <3> HIDE DEF d, stream
    <3>2. HasCode(d, p, t.forwards, stream)
      BY <3>1, FullRegister
    <3> QED
      BY <3>2 DEF HasCode
  <2>5. e \in 0 .. Edges - bits /\ Read(t, b, t.def) = Pressed[d][e]
    <3>1. /\ d \in Defs /\ t.forwards \in BOOLEAN /\ next >= timecodes[d].bits /\ next \in Nat
          /\ Read(t, b, t.def) \subseteq mask(timecodes[d]) /\ ReadsAt(d, d, q, t.forwards, Read(t, b, t.def), next)
      BY <1>1, <1>3, <2>2, <2>3
    <3> HIDE DEF d, stream
    <3>2. HasCode(d, q, t.forwards, Read(t, b, t.def))
      BY <3>1, FullRegister
    <3> QED
      BY <3>2 DEF HasCode
  <2>6. CASE t.forwards = TRUE
    <3>0. Ahead(q) = k /\ Ahead(p) = k - 1 /\ k \in Int
      <4>1. q > p
        BY <2>6
      <4>2. k \in Int
        BY <1>1, <1>2
      <4> QED
        BY <1>2, <4>1, <4>2
    <3>1. e = a + 1
      <4>1. e = Ahead(q) - bits + 1 /\ a = Ahead(p) - bits + 1
        BY <2>6 DEF Start
      <4> HIDE DEF a, e, bits
      <4> QED
        BY <3>0, <4>1, <1>1
    <3>2. a + 1 \in 1 .. Edges /\ (a + 1) - 1 = a
      BY <1>1, <2>4, <2>5, <3>1
    <3> HIDE DEF a, e
    <3>3. Pressed[d][a + 1] = fwd(Pressed[d][a], timecodes[d])
      <4>1. \A i \in 1 .. Edges : Pressed[d][i] = fwd(Pressed[d][i - 1], timecodes[d])
        BY <1>1, Record
      <4>2. Pressed[d][a + 1] = fwd(Pressed[d][(a + 1) - 1], timecodes[d])
        BY <4>1, <3>2
      <4> QED
        BY <3>2, <4>2
    <3>4. Expects(t, t.def) = fwd(stream, timecodes[d])
      BY <2>6 DEF Expects
    <3> QED
      BY <2>4, <2>5, <3>1, <3>3, <3>4
  <2>7. CASE t.forwards = FALSE
    <3>1. a = e + 1
      BY <1>1, <1>2, <2>7 DEF Start
    <3>2. e + 1 \in 1 .. Edges /\ (e + 1) - 1 = e /\ e \in 0 .. Edges
      BY <1>1, <2>4, <2>5, <3>1
    <3> HIDE DEF a, e
    <3>3. Pressed[d][a] = fwd(Pressed[d][e], timecodes[d]) /\ Pressed[d][e] \subseteq mask(timecodes[d])
      <4>1. /\ \A i \in 1 .. Edges : Pressed[d][i] = fwd(Pressed[d][i - 1], timecodes[d])
            /\ \A i \in 0 .. Edges : Pressed[d][i] \subseteq mask(timecodes[d])
        BY <1>1, Record
      <4>2. Pressed[d][e + 1] = fwd(Pressed[d][(e + 1) - 1], timecodes[d])
        BY <4>1, <3>2
      <4> QED
        BY <3>1, <3>2, <4>1, <4>2
    <3>4. rev(Pressed[d][a], timecodes[d]) = Pressed[d][e]
      <4>1. rev(fwd(Pressed[d][e], timecodes[d]), timecodes[d]) = Pressed[d][e]
        BY <1>1, <3>3, Symmetric
      <4> QED
        BY <3>3, <4>1
    <3>5. Expects(t, t.def) = rev(stream, timecodes[d])
      BY <2>7 DEF Expects
    <3> QED
      BY <2>4, <2>5, <3>4, <3>5
  <2> QED
    BY <1>1, <2>6, <2>7
<1> QED
  BY <1>4, <1>5

(* What an agreeing bit moves down is still of the longer register.        *)
LEMMA Settling ==
  ASSUME NEW t \in Decoders, t.timecode = t.bitstream, NEW b \in BOOLEAN,
         NEW high \in Int, \A i \in t.bitstream : i < timecodes[t.def].bits \/ i < high,
         Expects(t, t.def) = Read(t, b, t.def)
  PROVE  \A i \in Read(t, b, t.def) : i < timecodes[t.def].bits \/ i < high - 1
<1> DEFINE def == timecodes[t.def]
<1>1. /\ IsDef(def) /\ t.bitstream \subseteq Nat /\ t.forwards \in BOOLEAN
      /\ def.bits \in Nat
  BY Definitions DEF Decoders, Words, WORD, IsDef
<1>2. CASE t.forwards = TRUE
  <2>1. Read(t, b, t.def) = RightShift(t.bitstream)
                       \cup Bit(lfsr(t.bitstream, def.taps \cup {0}), def.bits - 1)
    BY <1>2 DEF Expects, fwd
  <2>2. ASSUME NEW i \in RightShift(t.bitstream)
        PROVE  i < def.bits \/ i < high - 1
    <3>1. PICK j \in t.bitstream \ {0} : i = j - 1
      BY DEF RightShift
    <3>2. j \in Nat /\ (j < def.bits \/ j < high)
      BY <1>1
    <3> HIDE DEF def
    <3> QED
      BY <1>1, <3>1, <3>2
  <2>3. def.bits - 1 < def.bits
    BY <1>1
  <2> HIDE DEF def
  <2> QED
    BY <2>1, <2>2, <2>3 DEF Bit, def
<1>3. CASE t.forwards = FALSE
  <2>1. Read(t, b, t.def) \subseteq mask(def)
    BY <1>1, <1>3, RevBits DEF Expects
  <2>2. \A i \in mask(def) : i < def.bits
    BY <1>1 DEF mask
  <2> QED
    BY <2>1, <2>2
<1> QED
  BY <1>1, <1>2, <1>3

(* No register has more bits than Highest.                                 *)
LEMMA HighestIs ==
  /\ Highest \in Nat /\ Highest <= VALID_BITS + 1 /\ Highest <= WORD
  /\ \A d \in Defs : timecodes[d].bits \in 1 .. Highest
  /\ \A d \in Defs : Highest \in timecodes[d].bits .. WORD
<1>1. /\ Highest \in {VALID_BITS + 1, WORD} /\ VALID_BITS \in Nat
      /\ Highest <= VALID_BITS + 1 /\ Highest <= WORD
  BY Definitions DEF Highest, Least, WORD
<1>2. ASSUME NEW d \in Defs
      PROVE  timecodes[d].bits \in 1 .. VALID_BITS + 1 /\ timecodes[d].bits \in 1 .. WORD - 1
  BY Definitions DEF IsDef
<1> QED
  BY <1>1, <1>2 DEF WORD

(* The decoder starts with nothing read.                                   *)
LEMMA InitDecoder == Init => DecoderInv /\ KeptInv
<1> SUFFICES ASSUME Init PROVE DecoderInv /\ KeptInv
  OBVIOUS
<1>1. /\ tc = timecoder_init(1) /\ run = 0 /\ clean = 0 /\ checked = 0
      /\ sample.pc = "between"
  BY DEF Init, Between
<1>2. /\ tc.def = 1 /\ tc.bitstream = {} /\ tc.timecode = {} /\ Trust = 0
      /\ tc.forwards = TRUE
  BY <1>1 DEF timecoder_init, Trust
<1>3. 1 \in Defs /\ needle \in Quarters
  BY InitTypes, TypeIs, TimecoderAssumption DEF TypeInv
<1>4. Def.bits \in Nat /\ Def.bits <= Highest /\ Highest \in Nat
  BY <1>2, <1>3, HighestIs DEF Def
<1>5. Settled \in Int /\ Settled <= 0
  BY <1>1, <1>2, <1>4 DEF Settled, Least
<1>6. ReadsAt(tc.def, platter, needle, tc.forwards, tc.bitstream, Settled)
  <2> HIDE DEF Settled
  <2> QED
    BY <1>2, <1>3, <1>5, NothingRead
<1>7. ReadsAt(tc.def, platter, needle, tc.forwards, tc.bitstream, run)
  <2>1. run \in Int /\ run <= 0
    BY <1>1
  <2> QED
    BY <1>2, <1>3, <2>1, NothingRead
<1>8. DecoderInv
  <2>1. /\ tc.timecode = tc.bitstream /\ tc.bitstream \subseteq 0 .. Highest - 1
        /\ \A i \in tc.bitstream : i < Def.bits \/ i < Highest - Trust
    BY <1>2
  <2>2. ~(run > 0) /\ Least(clean, checked) <= run /\ Trust <= checked
    BY <1>1, <1>2 DEF Least
  <2>3. clean <= Def.bits
    BY <1>1, <1>4
  <2> QED
    BY <1>6, <2>1, <2>2, <2>3 DEF DecoderInv
<1> QED
  BY <1>1, <1>2, <1>4, <1>7, <1>8 DEF KeptInv

(* The facts about a sample's crossings that both invariants need.         *)
LEMMA SampleFacts ==
  ASSUME TypeInv, tc.timecode = tc.bitstream,
         NEW b \in BOOLEAN, NEW seen \in [Glances -> sample.defs], ProcessSample(b, seen)
  PROVE  LET t == Turned(seen)
             read == Read(t, b, seen.shift)
         IN
         /\ platter \in Defs /\ needle \in Quarters /\ tc \in Decoders
         /\ clean \in Nat /\ run \in Nat /\ checked \in 0 .. VALID_BITS + 1
         /\ tc.def \in Defs /\ VALID_BITS \in Nat /\ Def.bits \in Nat /\ Def.bits >= 1
         /\ tc.valid_counter \in 0 .. VALID_BITS + 1 /\ Def = timecodes[tc.def] /\ Def' = Def
         /\ Highest \in Nat /\ Def.bits <= Highest /\ Highest <= VALID_BITS + 1
         /\ Highest \in Def.bits .. WORD /\ torn \in BOOLEAN
         /\ t.forwards \in BOOLEAN /\ t.timecode = t.bitstream /\ tc'.timecode = tc'.bitstream
         /\ ~Stale(seen) =>
              /\ read = Read(t, b, t.def)
              /\ Agreed(b, seen) <=> Expects(t, t.def) = Read(t, b, t.def)
         /\ AsItWas(b, seen) => /\ \E k \in Passed(needle, sample.at) : b = RecordBit(platter, k)
                                /\ t.def = platter /\ t.forwards = (sample.at > needle)
                                /\ Tells(seen) /\ ~Stale(seen)
<1> DEFINE t == Turned(seen)
           read == Read(t, b, seen.shift)
<1>1. /\ t \in Decoders /\ t.def = tc.def
      /\ t.bitstream = tc.bitstream /\ t.timecode = tc.timecode
      /\ ~Stale(seen) => seen.shift = tc.def /\ seen.expect = tc.def
      /\ tc'.def = tc.def
      /\ tc'.bitstream = IF Tells(seen) THEN read ELSE tc.bitstream
      /\ tc'.timecode = IF Tells(seen) THEN read ELSE tc.timecode
      /\ Tells(seen) \in BOOLEAN
  BY ProcessSampleIs
<1>2. AsItWas(b, seen) => /\ \E k \in Passed(needle, sample.at) : b = RecordBit(platter, k)
                          /\ t.def = platter /\ t.forwards = (sample.at > needle)
                          /\ Tells(seen) /\ ~Stale(seen)
  BY <1>1 DEF AsItWas
<1>3. ~Stale(seen) =>
        /\ read = Read(t, b, t.def)
        /\ Agreed(b, seen) <=> Expects(t, t.def) = Read(t, b, t.def)
  BY <1>1 DEF Agreed, Agrees
<1> HIDE DEF t, read
<1>4. tc'.timecode = tc'.bitstream /\ t.timecode = t.bitstream /\ t.forwards \in BOOLEAN
  BY <1>1 DEF Decoders
<1>5. Def' = Def
  BY <1>1 DEF Def
<1>6. /\ platter \in Defs /\ needle \in Quarters /\ tc \in Decoders
      /\ clean \in Nat /\ run \in Nat /\ checked \in 0 .. VALID_BITS + 1
      /\ tc.def \in Defs /\ VALID_BITS \in Nat /\ Def.bits \in Nat /\ Def.bits >= 1
      /\ tc.valid_counter \in 0 .. VALID_BITS + 1 /\ Def = timecodes[tc.def]
      /\ torn \in BOOLEAN
  BY TypeIs, Definitions DEF TypeInv, Decoders, Def, IsDef, WORD
<1>7. /\ Highest \in Nat /\ Def.bits <= Highest /\ Highest <= VALID_BITS + 1
      /\ Highest \in Def.bits .. WORD
  BY <1>6, HighestIs
<1> QED
  BY <1>2, <1>3, <1>4, <1>5, <1>6, <1>7 DEF t, read

(* The crossings of a sample keep the invariant: a bit that is read as it   *)
(* passed is one more of those that were, a reversal or a bit that was      *)
(* misread or skipped starts again, and one that was not expected takes the *)
(* trust in all before it.                                                  *)
LEMMA SampleStep ==
  ASSUME TypeInv, DecoderInv,
         NEW b \in BOOLEAN, NEW seen \in [Glances -> sample.defs], ProcessSample(b, seen)
  PROVE  DecoderInv'
<1> DEFINE t == Turned(seen)
           v == t.valid_counter
           q == sample.at
           passed == Passed(needle, q)
           before == Before(seen, run)
           known == Before(seen, checked)
           bits == Def.bits
           read == Read(t, b, seen.shift)
           tells == Tells(seen)
           stale == Stale(seen)
           agreed == Agreed(b, seen)
           asItWas == AsItWas(b, seen)
           settled == Least(before, v - (Highest - bits))
           Trusted == cycle.pc # "reset" /\ (~torn \/ v = 0)
<1>1. /\ tc.timecode = tc.bitstream /\ tc.bitstream \subseteq 0 .. Highest - 1
      /\ run > 0 => tc.def = platter
      /\ clean <= bits /\ Least(clean, checked) <= run
      /\ cycle.pc # "reset" /\ ~Torn =>
           /\ Trust <= checked
           /\ \A i \in tc.bitstream : i < bits \/ i < Highest - Trust
           /\ ReadsAt(tc.def, platter, needle, tc.forwards, tc.bitstream, Settled)
  BY DEF DecoderInv
<1>2. /\ platter \in Defs /\ needle \in Quarters /\ tc \in Decoders
      /\ clean \in Nat /\ run \in Nat /\ checked \in 0 .. VALID_BITS + 1
      /\ tc.def \in Defs /\ VALID_BITS \in Nat /\ bits \in Nat /\ bits >= 1
      /\ tc.valid_counter \in 0 .. VALID_BITS + 1 /\ Def = timecodes[tc.def] /\ Def' = Def
      /\ Highest \in Nat /\ bits <= Highest /\ Highest <= VALID_BITS + 1
      /\ Highest \in bits .. WORD /\ torn \in BOOLEAN
      /\ t.forwards \in BOOLEAN /\ t.timecode = t.bitstream /\ tc'.timecode = tc'.bitstream
      /\ ~stale => /\ read = Read(t, b, t.def)
                   /\ agreed <=> Expects(t, t.def) = Read(t, b, t.def)
      /\ asItWas => /\ \E k \in passed : b = RecordBit(platter, k)
                    /\ t.def = platter /\ t.forwards = (q > needle) /\ tells /\ ~stale
  BY <1>1, SampleFacts
<1>3. /\ t \in Decoders /\ t.def = tc.def
      /\ t.bitstream = tc.bitstream /\ t.timecode = tc.timecode
      /\ v = Before(seen, tc.valid_counter) /\ v \in 0 .. VALID_BITS + 1
      /\ seen.shift \in Defs
      /\ q \in Quarters /\ q \in needle - 1 .. needle + 1
      /\ needle' = q /\ platter' = platter /\ cycle' = cycle
      /\ tc'.def = tc.def /\ tc'.forwards = t.forwards
      /\ tc'.bitstream = IF tells THEN read ELSE tc.bitstream
      /\ Trust' = IF ~tells THEN v
                  ELSE IF agreed THEN Least(v + 1, VALID_BITS + 1) ELSE 0
      /\ Torn = torn /\ Trust = tc.valid_counter
      /\ ~Torn' => ~(tells /\ agreed /\ stale) /\ (Trust' = 0 \/ v = 0 \/ ~torn)
      /\ clean' = IF asItWas THEN Least(clean + 1, bits)
                  ELSE IF tells \/ passed # {} THEN 0 ELSE clean
      /\ run' = IF asItWas THEN Least(before + 1, bits + VALID_BITS + 1)
                ELSE IF tells \/ passed # {} THEN 0 ELSE before
      /\ checked' = Least(known + (IF tells /\ ~stale THEN 1 ELSE 0), VALID_BITS + 1)
      /\ tells \in BOOLEAN /\ asItWas \in BOOLEAN /\ stale \in BOOLEAN /\ agreed \in BOOLEAN
  BY ProcessSampleIs
<1>4. Settled = Least(run, tc.valid_counter - (Highest - bits))
  BY <1>3 DEF Settled
<1>5. /\ before \in Nat /\ before <= run /\ known \in 0 .. VALID_BITS + 1
      /\ Least(clean, known) <= before
      /\ before > 0 => tc.def = platter
      /\ Trusted =>
           /\ v <= known
           /\ \A i \in tc.bitstream : i < bits \/ i < Highest - v
           /\ ReadsAt(tc.def, platter, needle, t.forwards, tc.bitstream, settled)
  <2>1. t.forwards = tc.forwards => before = run /\ known = checked /\ v = tc.valid_counter
    BY <1>3 DEF Before
  <2>2. t.forwards # tc.forwards => before = 0 /\ known = 0 /\ v = 0
    BY <1>3 DEF Before
  <2> HIDE DEF t, v, before, known
  <2>3. /\ before \in Nat /\ before <= run /\ known \in 0 .. VALID_BITS + 1
        /\ Least(clean, known) <= before
        /\ before > 0 => tc.def = platter
    <3>1. Least(clean, 0) <= 0 /\ 0 \in 0 .. VALID_BITS + 1
      BY <1>2 DEF Least
    <3> QED
      BY <1>1, <1>2, <2>1, <2>2, <3>1
  <2>4. ASSUME v = 0
        PROVE  /\ v <= known
               /\ \A i \in tc.bitstream : i < bits \/ i < Highest - v
               /\ ReadsAt(tc.def, platter, needle, t.forwards, tc.bitstream, settled)
    <3>1. settled \in Int /\ settled <= 0
      <4> HIDE DEF bits
      <4> QED
        BY <1>2, <2>3, <2>4 DEF Least
    <3> HIDE DEF settled, bits
    <3>2. ReadsAt(tc.def, platter, needle, t.forwards, tc.bitstream, settled)
      BY <1>2, <3>1, NothingRead
    <3>3. \A i \in tc.bitstream : i < Highest - v
      BY <1>1, <1>2, <2>4
    <3> QED
      BY <2>3, <2>4, <3>2, <3>3
  <2>5. ASSUME v # 0, cycle.pc # "reset", ~torn
        PROVE  /\ v <= known
               /\ \A i \in tc.bitstream : i < bits \/ i < Highest - v
               /\ ReadsAt(tc.def, platter, needle, t.forwards, tc.bitstream, settled)
    <3>1. before = run /\ known = checked /\ v = tc.valid_counter /\ t.forwards = tc.forwards
      BY <2>1, <2>2, <2>5
    <3>2. settled = Settled
      BY <1>4, <3>1
    <3> HIDE DEF settled, bits
    <3> QED
      BY <1>1, <1>3, <2>5, <3>1, <3>2
  <2> QED
    BY <2>3, <2>4, <2>5
<1> HIDE DEF t, v, before, known, read, tells, stale, agreed, asItWas
<1>6. tc'.bitstream \subseteq 0 .. Highest - 1
  <2>1. read \subseteq 0 .. Highest - 1
    <3>1. Highest \in timecodes[seen.shift].bits .. WORD
      BY <1>3, HighestIs
    <3> QED
      BY <1>1, <1>3, <3>1, ReadFits DEF read
  <2> QED
    BY <1>1, <1>3, <2>1
<1>7. Trust' \in 0 .. VALID_BITS + 1
  <2> HIDE DEF bits
  <2> QED
    BY <1>2, <1>3 DEF Least
<1>8. /\ checked' <= known + 1 /\ (~tells => checked' <= known)
      /\ checked' \in Nat /\ checked' <= VALID_BITS + 1
      /\ checked' >= known
      /\ tells /\ ~stale => checked' = Least(known + 1, VALID_BITS + 1)
  <2>1. CASE tells /\ ~stale
    <3>1. checked' = Least(known + 1, VALID_BITS + 1)
      BY <1>3, <2>1
    <3> QED
      BY <1>2, <1>5, <2>1, <3>1 DEF Least
  <2>2. CASE ~(tells /\ ~stale)
    <3>1. checked' = Least(known + 0, VALID_BITS + 1)
      BY <1>3, <2>2
    <3> QED
      BY <1>2, <1>5, <2>2, <3>1 DEF Least
  <2> QED
    BY <2>1, <2>2
<1>9. /\ run' > 0 => tc'.def = platter'
      /\ run' \in Nat /\ run' <= before + 1
      /\ clean' <= bits /\ Least(clean', checked') <= run'
  <2> HIDE DEF settled
  <2>1. CASE asItWas
    <3>1. /\ run' = Least(before + 1, bits + VALID_BITS + 1)
          /\ clean' = Least(clean + 1, bits)
      BY <1>3, <2>1
    <3>n. clean \in Nat /\ bits \in Nat /\ before \in Nat /\ VALID_BITS \in Nat
      BY <1>2, <1>5
    <3> HIDE DEF bits
    <3>2. /\ run' \in Nat /\ run' <= before + 1
          /\ clean' \in Nat /\ clean' <= clean + 1 /\ clean' <= bits
      BY <3>n, <3>1 DEF Least
    <3>3. clean <= before \/ known <= before
      BY <1>5 DEF Least
    <3>4. clean' <= run' \/ checked' <= run'
      BY <1>2, <1>5, <1>8, <3>1, <3>2, <3>3 DEF Least
    <3>5. tc'.def = platter'
      BY <1>2, <1>3, <2>1
    <3> QED
      BY <1>8, <3>2, <3>4, <3>5 DEF Least
  <2>2. CASE ~asItWas /\ (tells \/ passed # {})
    <3>1. run' = 0 /\ clean' = 0
      BY <1>3, <2>2
    <3> QED
      BY <1>2, <1>5, <1>8, <3>1 DEF Least
  <2>3. CASE ~asItWas /\ ~tells /\ passed = {}
    <3>1. run' = before /\ clean' = clean
      BY <1>3, <2>3
    <3>2. clean <= before \/ known <= before
      BY <1>5 DEF Least
    <3>3. clean' <= run' \/ checked' <= run'
      BY <1>2, <1>5, <1>8, <2>3, <3>1, <3>2
    <3> QED
      BY <1>1, <1>2, <1>3, <1>5, <1>8, <3>1, <3>3 DEF Least
  <2> QED
    BY <1>3, <2>1, <2>2, <2>3
<1>10. ASSUME cycle'.pc # "reset", ~Torn'
       PROVE  /\ Trust' = 0 \/ Trusted
              /\ tells /\ agreed => ~stale /\ Trusted
  <2>1. Trust' = 0 \/ Trusted
    BY <1>2, <1>3, <1>10
  <2>2. ASSUME tells, agreed PROVE ~stale /\ Trusted
    <3>1. Trust' = Least(v + 1, VALID_BITS + 1) /\ ~stale
      BY <1>3, <1>10, <2>2
    <3>2. Trust' # 0
      BY <1>2, <1>3, <3>1 DEF Least
    <3> QED
      BY <2>1, <3>1, <3>2
  <2> QED
    BY <2>1, <2>2
<1>11. ASSUME cycle'.pc # "reset", ~Torn' PROVE Trust' <= checked'
  <2>1. CASE tells /\ agreed
    <3>1. v <= known /\ checked' = Least(known + 1, VALID_BITS + 1)
      BY <1>5, <1>8, <1>10, <1>11, <2>1
    <3>2. Trust' = Least(v + 1, VALID_BITS + 1)
      BY <1>3, <2>1
    <3> QED
      BY <1>2, <1>3, <1>5, <3>1, <3>2 DEF Least
  <2>2. CASE ~(tells /\ agreed)
    <3>1. Trust' = 0 \/ (Trust' = v /\ v <= known)
      BY <1>3, <1>5, <1>10, <1>11, <2>2
    <3> QED
      BY <1>2, <1>3, <1>5, <1>8, <3>1
  <2> QED
    BY <2>1, <2>2
<1>12. ASSUME cycle'.pc # "reset", ~Torn'
       PROVE  \A i \in tc'.bitstream : i < bits \/ i < Highest - Trust'
  <2>1. CASE Trust' = 0
    BY <1>2, <1>6, <2>1
  <2>2. CASE Trust' # 0 /\ ~tells
    BY <1>3, <1>5, <1>10, <1>12, <2>2
  <2>3. CASE Trust' # 0 /\ tells
    <3>0. agreed /\ ~stale /\ Trusted
      BY <1>3, <1>10, <1>12, <2>3
    <3>1. \A i \in Read(t, b, t.def) : i < bits \/ i < (Highest - v) - 1
      <4>1. /\ bits = timecodes[t.def].bits /\ t.timecode = t.bitstream
            /\ \A i \in t.bitstream : i < timecodes[t.def].bits \/ i < Highest - v
        BY <1>2, <1>3, <1>5, <3>0
      <4>2. Highest - v \in Int
        BY <1>2, <1>3
      <4>3. Expects(t, t.def) = Read(t, b, t.def)
        BY <1>2, <3>0
      <4> HIDE DEF bits
      <4> QED
        BY <1>3, <4>1, <4>2, <4>3, Settling
    <3>2. tc'.bitstream = Read(t, b, t.def) /\ Trust' = Least(v + 1, VALID_BITS + 1)
      BY <1>2, <1>3, <2>3, <3>0
    <3> HIDE DEF bits
    <3>3. Trust' <= v + 1 /\ Trust' \in Nat
      BY <1>2, <1>3, <3>2 DEF Least
    <3>4. \A i \in Int : i < (Highest - v) - 1 => i < Highest - Trust'
      BY <1>2, <1>3, <3>3
    <3>5. tc'.bitstream \subseteq Int
      BY <1>6
    <3> QED
      BY <3>1, <3>2, <3>4, <3>5
  <2> QED
    BY <1>3, <2>1, <2>2, <2>3
<1>13. ASSUME cycle'.pc # "reset", ~Torn'
       PROVE  ReadsAt(tc'.def, platter', needle', tc'.forwards, tc'.bitstream, Settled')
  <2>1. Settled' = Least(run', Trust' - (Highest - bits))
    BY <1>2 DEF Settled, Highest
  <2>2. /\ tc'.def = tc.def /\ platter' = platter /\ needle' = q
        /\ tc'.forwards = t.forwards
    BY <1>3
  <2>3. Settled' \in Int /\ Settled' <= run' /\ Settled' <= Trust' - (Highest - bits)
    <3> HIDE DEF bits
    <3> QED
      BY <1>2, <1>7, <1>9, <2>1 DEF Least
  <2>8. Settled' > 0 => Trust' > 0
    <3> DEFINE s == Settled'
               w == Trust'
    <3>1. s \in Int /\ w \in Int /\ s <= w - (Highest - bits)
      BY <1>7, <2>3
    <3>2. Highest \in Int /\ bits \in Int /\ bits <= Highest
      BY <1>2
    <3> HIDE DEF s, w, bits
    <3>3. s > 0 => w > 0
      BY <3>1, <3>2
    <3> QED
      BY <3>3 DEF s, w
  <2>4. CASE Settled' <= 0
    <3>1. ReadsAt(tc.def, platter, q, t.forwards, tc'.bitstream, Settled')
      BY <1>2, <1>3, <2>3, <2>4, NothingRead
    <3> QED
      BY <2>2, <3>1
  <2>5. CASE asItWas /\ Settled' > 0
    <3>1. PICK k \in passed : b = RecordBit(platter, k)
      BY <1>2, <2>5
    <3>2. t.def = platter /\ t.forwards = (q > needle) /\ tells /\ ~stale
      BY <1>2, <2>5
    <3>3. Trust' > 0
      BY <2>5, <2>8
    <3>4. agreed /\ Trusted
      BY <1>3, <1>10, <1>13, <3>2, <3>3
    <3>5. tc'.bitstream = Read(t, b, t.def) /\ Trust' = Least(v + 1, VALID_BITS + 1)
      BY <1>2, <1>3, <3>2, <3>4
    <3>6. v >= Highest - bits /\ settled \in Nat /\ Settled' \in Nat /\ Settled' <= settled + 1
      <4> DEFINE s == Settled'
                 w == Trust'
                 r == run'
      <4>1. /\ s \in Int /\ s > 0 /\ w \in Int /\ r \in Int /\ r <= before + 1
            /\ s <= w - (Highest - bits) /\ s <= r
        BY <1>7, <1>9, <2>3, <2>5
      <4>2. w = Least(v + 1, VALID_BITS + 1)
        BY <3>5
      <4> HIDE DEF s, w, r, bits
      <4>3. w <= v + 1
        BY <1>2, <1>3, <4>2 DEF Least
      <4>4. v \in Int /\ before \in Int /\ Highest - bits \in Int
        BY <1>2, <1>3, <1>5
      <4>5. v - (Highest - bits) >= s - 1 /\ before >= s - 1
        BY <1>2, <4>1, <4>3, <4>4
      <4>6. settled \in Int /\ settled >= s - 1
        BY <4>1, <4>4, <4>5 DEF Least
      <4> HIDE DEF settled
      <4>7. v >= Highest - bits /\ settled \in Nat /\ s \in Nat /\ s <= settled + 1
        BY <4>1, <4>4, <4>5, <4>6
      <4> QED
        BY <4>7 DEF s
    <3>7. t.bitstream \subseteq mask(timecodes[t.def])
      <4>1. \A i \in tc.bitstream : i \in Nat /\ (i < bits \/ i < Highest - v)
        BY <1>1, <1>5, <3>4
      <4> HIDE DEF bits
      <4>2. \A i \in tc.bitstream : i \in Nat /\ i < bits
        BY <1>2, <1>3, <3>6, <4>1
      <4>3. \A i \in tc.bitstream : i \in 0 .. bits - 1
        BY <1>2, <4>2
      <4> QED
        BY <1>2, <1>3, <4>3 DEF mask, bits
    <3> HIDE DEF settled
    <3>8. ReadsAt(t.def, platter, q, t.forwards, Read(t, b, t.def), Settled')
      <4>1. ReadsAt(t.def, platter, needle, t.forwards, t.bitstream, settled)
        BY <1>3, <1>5, <3>4
      <4>2. t.timecode = t.bitstream /\ t.def = platter /\ k \in Passed(needle, q)
        BY <1>2, <3>2
      <4> QED
        BY <1>2, <1>3, <3>1, <3>2, <3>6, <3>7, <4>1, <4>2, ReadOn
    <3> QED
      BY <1>3, <2>2, <3>5, <3>8
  <2>6. CASE ~asItWas /\ ~tells /\ passed = {} /\ Settled' > 0
    <3>1. run' = before /\ Trust' = v /\ tc'.bitstream = tc.bitstream
      BY <1>3, <2>6
    <3>2. Ahead(q) = Ahead(needle) /\ Behind(q) = Behind(needle)
      BY <1>2, <1>3, <2>6, NonePassed
    <3>3. Settled' = settled
      BY <2>1, <3>1
    <3>4. Trusted
      BY <1>10, <1>13, <2>6, <2>8
    <3> HIDE DEF settled
    <3>5. ReadsAt(tc.def, platter, q, t.forwards, tc.bitstream, settled)
      BY <1>5, <3>2, <3>4 DEF ReadsAt
    <3> QED
      BY <2>2, <3>1, <3>3, <3>5
  <2>7. ~asItWas /\ (tells \/ passed # {}) => run' = 0
    BY <1>3
  <2> HIDE DEF passed
  <2> QED
    BY <1>3, <2>3, <2>4, <2>5, <2>6, <2>7
<1> QED
  <2>1. Def'.bits = bits /\ Highest' = Highest
    BY <1>2 DEF Highest
  <2> QED
    BY <1>2, <1>6, <1>9, <1>11, <1>12, <1>13, <2>1 DEF DecoderInv

(* The crossings of a sample keep what holds while no longer register has   *)
(* left any bits: a bit that is read as it passed is expected once the      *)
(* register was full.                                                       *)
LEMMA SampleKept ==
  ASSUME TypeInv, DecoderInv, KeptInv,
         NEW b \in BOOLEAN, NEW seen \in [Glances -> sample.defs], ProcessSample(b, seen)
  PROVE  KeptInv'
<1> DEFINE t == Turned(seen)
           v == t.valid_counter
           q == sample.at
           passed == Passed(needle, q)
           before == Before(seen, run)
           bits == Def.bits
           read == Read(t, b, seen.shift)
           tells == Tells(seen)
           stale == Stale(seen)
           agreed == Agreed(b, seen)
           asItWas == AsItWas(b, seen)
<1>1. /\ tc.timecode = tc.bitstream /\ tc.bitstream \subseteq mask(Def)
      /\ ReadsAt(tc.def, platter, needle, tc.forwards, tc.bitstream, run)
      /\ run <= bits + Trust
      /\ sample.pc = "crossed" => \A d \in sample.defs : timecodes[d].bits <= bits
  BY DEF DecoderInv, KeptInv
<1>2. /\ platter \in Defs /\ needle \in Quarters /\ tc \in Decoders /\ run \in Nat
      /\ tc.def \in Defs /\ VALID_BITS \in Nat /\ bits \in Nat /\ bits >= 1
      /\ tc.valid_counter \in 0 .. VALID_BITS + 1 /\ Def = timecodes[tc.def] /\ Def' = Def
      /\ Highest \in bits .. WORD
      /\ t.forwards \in BOOLEAN /\ t.timecode = t.bitstream
      /\ ~stale => /\ read = Read(t, b, t.def)
                   /\ agreed <=> Expects(t, t.def) = Read(t, b, t.def)
      /\ asItWas => /\ \E k \in passed : b = RecordBit(platter, k)
                    /\ t.def = platter /\ t.forwards = (q > needle) /\ tells /\ ~stale
  BY <1>1, SampleFacts
<1>3. /\ t \in Decoders /\ t.def = tc.def
      /\ t.bitstream = tc.bitstream /\ t.timecode = tc.timecode
      /\ v = Before(seen, tc.valid_counter) /\ v \in 0 .. VALID_BITS + 1
      /\ seen.shift \in sample.defs /\ seen.shift \in Defs
      /\ sample.pc = "crossed" /\ sample'.pc # "crossed"
      /\ q \in Quarters /\ q \in needle - 1 .. needle + 1
      /\ needle' = q /\ platter' = platter
      /\ tc'.def = tc.def /\ tc'.forwards = t.forwards
      /\ tc'.bitstream = IF tells THEN read ELSE tc.bitstream
      /\ Trust' = IF ~tells THEN v
                  ELSE IF agreed THEN Least(v + 1, VALID_BITS + 1) ELSE 0
      /\ Trust = tc.valid_counter
      /\ run' = IF asItWas THEN Least(before + 1, bits + VALID_BITS + 1)
                ELSE IF tells \/ passed # {} THEN 0 ELSE before
      /\ tells \in BOOLEAN /\ asItWas \in BOOLEAN /\ stale \in BOOLEAN /\ agreed \in BOOLEAN
  BY ProcessSampleIs
<1>4. /\ before \in Nat /\ before <= bits + v
      /\ ReadsAt(t.def, platter, needle, t.forwards, t.bitstream, before)
  <2>1. CASE t.forwards = tc.forwards
    <3>1. before = run /\ v = tc.valid_counter
      BY <1>3, <2>1 DEF Before
    <3> HIDE DEF before, v, t, bits
    <3> QED
      BY <1>1, <1>2, <1>3, <2>1, <3>1
  <2>2. CASE t.forwards # tc.forwards
    <3>1. before = 0 /\ v = 0
      BY <1>3, <2>2 DEF Before
    <3> HIDE DEF before, v, t, bits
    <3>2. before \in Int /\ before <= 0
      BY <3>1
    <3>3. ReadsAt(t.def, platter, needle, t.forwards, t.bitstream, before)
      BY <1>2, <1>3, <3>2, NothingRead
    <3> QED
      BY <1>2, <3>1, <3>3
  <2> QED
    BY <2>1, <2>2
<1> HIDE DEF t, v, before, read, tells, stale, agreed, asItWas
<1>5. tc'.bitstream \subseteq mask(Def')
  <2>1. read \subseteq mask(Def)
    <3>1. mask(Def) = 0 .. bits - 1
      BY DEF mask
    <3>2. timecodes[seen.shift].bits <= bits /\ bits <= WORD
      BY <1>1, <1>2, <1>3 DEF WORD
    <3>3. bits \in timecodes[seen.shift].bits .. WORD
      BY <1>2, <1>3, <3>2, HighestIs
    <3> HIDE DEF bits
    <3>4. read \subseteq 0 .. bits - 1
      BY <1>1, <1>3, <3>1, <3>3, ReadFits DEF read
    <3> QED
      BY <3>1, <3>4
  <2> QED
    BY <1>1, <1>2, <1>3, <2>1
<1>6. Trust' \in 0 .. VALID_BITS + 1
  <2> HIDE DEF bits
  <2> QED
    BY <1>2, <1>3 DEF Least
<1>7. /\ tc'.def = t.def /\ platter' = platter /\ needle' = q
      /\ tc'.forwards = t.forwards /\ Def'.bits = bits
  BY <1>2, <1>3
<1>8. /\ ReadsAt(tc'.def, platter', needle', tc'.forwards, tc'.bitstream, run')
      /\ run' <= bits + Trust'
  <2>1. CASE asItWas
    <3>1. PICK k \in passed : b = RecordBit(platter, k)
      BY <1>2, <2>1
    <3>2. t.def = platter /\ t.forwards = (q > needle) /\ tells /\ ~stale
      BY <1>2, <2>1
    <3>3. run' = Least(before + 1, bits + VALID_BITS + 1)
      BY <1>3, <2>1
    <3>4. run' \in Nat /\ run' <= before + 1
      <4>1. before \in Nat /\ bits \in Nat /\ VALID_BITS \in Nat
        BY <1>2, <1>4
      <4> HIDE DEF bits
      <4> QED
        BY <3>3, <4>1 DEF Least
    <3>5. /\ ReadsAt(t.def, platter, q, t.forwards, Read(t, b, t.def), run')
          /\ before >= timecodes[t.def].bits => Expects(t, t.def) = Read(t, b, t.def)
      <4>1. t.bitstream \subseteq mask(timecodes[t.def]) /\ t.timecode = t.bitstream
        BY <1>1, <1>2, <1>3
      <4>2. k \in Passed(needle, q)
        OBVIOUS
      <4> QED
        BY <1>2, <1>3, <1>4, <3>1, <3>2, <3>4, <4>1, <4>2, ReadOn
    <3>6. run' <= bits + Trust'
      <4>n. /\ before \in Nat /\ bits \in Nat /\ VALID_BITS \in Nat /\ before <= bits + v
            /\ v \in 0 .. VALID_BITS + 1 /\ Trust' \in Nat
        BY <1>2, <1>3, <1>4, <1>6
      <4>1. CASE before < bits
        <5> DEFINE r == run'
                   w == Trust'
        <5>1. r \in Nat /\ r <= before + 1 /\ w \in Nat
          BY <3>4, <4>n
        <5> HIDE DEF bits, r, w
        <5>2. r <= bits + w
          BY <4>1, <4>n, <5>1
        <5> QED
          BY <5>2 DEF r, w
      <4>2. CASE before >= bits
        <5>1. Trust' = Least(v + 1, VALID_BITS + 1)
          BY <1>2, <1>3, <3>2, <3>5, <4>2
        <5> HIDE DEF bits
        <5> QED
          BY <3>3, <4>n, <5>1 DEF Least
      <4> HIDE DEF bits
      <4> QED
        BY <4>n, <4>1, <4>2
    <3>7. tc'.bitstream = Read(t, b, t.def)
      BY <1>2, <1>3, <3>2
    <3> QED
      BY <1>7, <3>5, <3>6, <3>7
  <2>2. CASE ~asItWas /\ (tells \/ passed # {})
    <3>1. run' = 0
      BY <1>3, <2>2
    <3>2. run' \in Int /\ run' <= 0
      BY <3>1
    <3>3. ReadsAt(tc.def, platter, q, t.forwards, tc'.bitstream, run')
      BY <1>2, <1>3, <3>2, NothingRead
    <3>4. run' <= bits + Trust'
      <4>1. \A x \in Nat, y \in Nat : 0 <= x + y
        OBVIOUS
      <4>2. bits \in Nat /\ Trust' \in Nat
        BY <1>2, <1>6
      <4> HIDE DEF bits
      <4> QED
        BY <3>1, <4>1, <4>2
    <3> QED
      BY <1>3, <1>7, <3>3, <3>4
  <2>3. CASE ~asItWas /\ ~tells /\ passed = {}
    <3>1. run' = before /\ Trust' = v /\ tc'.bitstream = t.bitstream
      BY <1>3, <2>3
    <3>2. Ahead(q) = Ahead(needle) /\ Behind(q) = Behind(needle)
      BY <1>2, <1>3, <2>3, NonePassed
    <3>3. ReadsAt(t.def, platter, q, t.forwards, t.bitstream, before)
      BY <1>4, <3>2 DEF ReadsAt
    <3> QED
      BY <1>4, <1>7, <3>1, <3>3
  <2> QED
    BY <1>3, <2>1, <2>2, <2>3
<1> QED
  BY <1>3, <1>5, <1>7, <1>8 DEF KeptInv

(* The invariants do not speak of the tables.                              *)
LEMMA DecoderKept ==
  ASSUME UNCHANGED <<platter, needle, cycle, clean, run, checked>>,
         tc'.def = tc.def, tc'.forwards = tc.forwards, tc'.bitstream = tc.bitstream,
         tc'.timecode = tc.timecode, Trust' = Trust, Torn' = Torn,
         sample'.pc = "crossed" => \A d \in sample'.defs :
           d = tc.def \/ (sample.pc = "crossed" /\ d \in sample.defs),
         Def.bits \in Int
  PROVE  (DecoderInv => DecoderInv') /\ (KeptInv => KeptInv')
<1>1. Def' = Def /\ Settled' = Settled /\ Highest' = Highest
  BY DEF Def, Settled, Highest
<1>2. DecoderInv => DecoderInv'
  <2> HIDE DEF Settled
  <2> QED
    BY <1>1 DEF DecoderInv
<1>3. ASSUME KeptInv PROVE KeptInv'
  <2>1. sample'.pc = "crossed" => \A d \in sample'.defs : timecodes[d].bits <= Def'.bits
    <3>1. Def.bits <= Def.bits /\ Def = timecodes[tc.def]
      BY DEF Def
    <3> QED
      BY <1>1, <1>3, <3>1 DEF KeptInv
  <2> QED
    BY <1>1, <1>3, <2>1 DEF KeptInv
<1> QED
  BY <1>2, <1>3

(* When nothing is trusted, nothing of what was read has to be known.      *)
LEMMA NothingTrusted ==
  ASSUME run' = 0, tc'.def \in Defs, needle' \in Quarters, tc'.forwards \in BOOLEAN,
         tc'.bitstream \subseteq 0 .. Highest - 1, tc'.timecode = tc'.bitstream,
         Trust' \in Nat,
         cycle'.pc # "reset" /\ ~Torn' =>
           /\ Trust' <= checked'
           /\ \A i \in tc'.bitstream : i < Def'.bits \/ i < Highest - Trust',
         clean' \in Nat, clean' <= Def'.bits, checked' \in Nat,
         clean' = 0 \/ checked' = 0
  PROVE  /\ DecoderInv'
         /\ /\ tc'.bitstream \subseteq mask(Def')
            /\ sample'.pc = "crossed" => \A d \in sample'.defs : timecodes[d].bits <= Def'.bits
            => KeptInv'
<1>1. Def'.bits \in Nat /\ Def'.bits <= Highest /\ Highest \in Nat /\ Highest' = Highest
  BY HighestIs DEF Def, Highest
<1>2. Least(clean', checked') <= 0
  BY DEF Least
<1>3. Settled' \in Int /\ Settled' <= IF Trust' <= Highest - Def'.bits
                                      THEN Trust' - (Highest - Def'.bits) ELSE 0
  <2>1. Settled' = Least(0, Trust' - (Highest - Def'.bits))
    BY <1>1 DEF Settled
  <2> QED
    BY <1>1, <2>1 DEF Least
<1>4. Settled' <= 0
  BY <1>1, <1>3
<1>5. ReadsAt(tc'.def, platter', needle', tc'.forwards, tc'.bitstream, Settled')
  BY <1>3, <1>4, NothingRead
<1>6. ReadsAt(tc'.def, platter', needle', tc'.forwards, tc'.bitstream, 0)
  <2>1. 0 \in Int /\ 0 <= 0
    OBVIOUS
  <2> QED
    BY <2>1, NothingRead
<1>7. DecoderInv'
  BY <1>1, <1>2, <1>5 DEF DecoderInv
<1>8. /\ tc'.bitstream \subseteq mask(Def')
      /\ sample'.pc = "crossed" => \A d \in sample'.defs : timecodes[d].bits <= Def'.bits
      => KeptInv'
  BY <1>1, <1>6 DEF KeptInv
<1> QED
  BY <1>7, <1>8

(* Every step keeps the invariant; what the steps to another register keep *)
(* is kept when it has at least as many bits.                              *)
LEMMA NextDecoder ==
  ASSUME TypeInv, DecoderInv, [Next]_vars
  PROVE  /\ DecoderInv'
         /\ KeptInv /\ [CycleDefinition => timecodes[tc.def].bits <= timecodes[tc'.def].bits]_vars
              => KeptInv'
<1> DEFINE Keeps == [CycleDefinition => timecodes[tc.def].bits <= timecodes[tc'.def].bits]_vars
           Goal == DecoderInv' /\ (KeptInv /\ Keeps => KeptInv')
<1> SUFFICES Goal
  OBVIOUS
<1>1. /\ tc \in Decoders /\ tc.def \in Defs /\ needle \in Quarters /\ platter \in Defs
      /\ clean \in Nat /\ run \in Nat /\ checked \in 0 .. VALID_BITS + 1 /\ VALID_BITS \in Nat
      /\ tc.valid_counter \in 0 .. VALID_BITS + 1 /\ tc.forwards \in BOOLEAN
      /\ Def = timecodes[tc.def] /\ Def.bits \in Nat
      /\ Highest \in Nat /\ Def.bits <= Highest
      /\ sample \in Samples /\ cycle \in Cycles /\ torn \in BOOLEAN
  <2>1. /\ tc \in Decoders /\ needle \in Quarters /\ platter \in Defs
        /\ clean \in Nat /\ run \in Nat /\ checked \in 0 .. VALID_BITS + 1
        /\ sample \in Samples /\ cycle \in Cycles /\ torn \in BOOLEAN
    BY TypeIs DEF TypeInv
  <2> QED
    BY <2>1, Definitions, HighestIs DEF Decoders, Def, IsDef, WORD
<1>2. /\ tc.bitstream \subseteq 0 .. Highest - 1 /\ tc.timecode = tc.bitstream
      /\ cycle.pc # "reset" /\ ~Torn =>
           /\ Trust <= checked
           /\ \A i \in tc.bitstream : i < Def.bits \/ i < Highest - Trust
      /\ clean <= Def.bits
      /\ KeptInv => /\ tc.bitstream \subseteq mask(Def)
                    /\ sample.pc = "crossed" => \A d \in sample.defs : timecodes[d].bits <= Def.bits
  BY DEF DecoderInv, KeptInv
<1>3. ASSUME NEW q \in needle - 1 .. needle + 1, Sample(q) PROVE Goal
  <2> DEFINE sw == detect_zero_crossing(tc, Left(platter, q), Right(platter, q))
             p == tc.primary # sw.primary
             s == tc.secondary # sw.secondary
  <2>1. /\ tc' = [tc EXCEPT !.primary = p, !.secondary = s]
        /\ sample = Between
        /\ sample' = [pc |-> "crossed", at |-> q, swapped |-> sw, defs |-> {tc.def}]
        /\ UNCHANGED <<platter, needle, cycle, clean, run, checked>> /\ torn' = torn
    BY <1>3 DEF Sample, history
  <2>2. sample'.pc = "crossed" /\ sample'.defs = {tc.def} /\ sample.pc = "between"
    BY <2>1 DEF Between
  <2> HIDE DEF p, s
  <2>3. /\ tc'.def = tc.def /\ tc'.forwards = tc.forwards /\ tc'.bitstream = tc.bitstream
        /\ tc'.timecode = tc.timecode /\ tc'.valid_counter = tc.valid_counter
    BY <1>1, <2>1 DEF Decoders
  <2>4. Trust' = Trust /\ Torn' = Torn
    BY <1>1, <2>1, <2>2, <2>3 DEF Trust, Torn
  <2> QED
    BY <1>1, <2>1, <2>2, <2>3, <2>4, DecoderKept
<1>4. ASSUME NEW b \in BOOLEAN, NEW seen \in [Glances -> sample.defs], ProcessSample(b, seen)
      PROVE  Goal
  BY <1>4, SampleStep, SampleKept
<1>5. CASE Count
  <2>1. /\ sample.pc = "counting" /\ tc' = [tc EXCEPT !.valid_counter = sample.count]
        /\ sample' = Between /\ torn' = (torn \/ sample.stale)
        /\ UNCHANGED <<platter, needle, cycle, clean, run, checked>>
    BY <1>5 DEF Count
  <2>2. sample \in Counting /\ sample.stale \in BOOLEAN /\ sample'.pc = "between"
    BY <1>1, <2>1, StepsTold DEF Counting, Between
  <2>3. /\ tc'.def = tc.def /\ tc'.forwards = tc.forwards /\ tc'.bitstream = tc.bitstream
        /\ tc'.timecode = tc.timecode /\ tc'.valid_counter = sample.count
    BY <1>1, <2>1 DEF Decoders
  <2>4. Trust' = Trust /\ Torn' = Torn
    BY <1>1, <2>1, <2>2, <2>3 DEF Trust, Torn
  <2> QED
    BY <1>1, <2>1, <2>2, <2>3, <2>4, DecoderKept
<1>6. ASSUME NEW d \in Defs, NEW q \in Landings, Jump(d, q) PROVE Goal
  <2>1. q \in Quarters
    BY TimecoderAssumption DEF Quarters
  <2>2. /\ run' = 0 /\ clean' = 0 /\ needle' = q /\ tc' = tc /\ cycle' = cycle
        /\ checked' = checked /\ sample' = sample /\ torn' = torn /\ sample = Between
    BY <1>6 DEF Jump
  <2>3. Def' = Def /\ Trust' = Trust /\ Torn' = Torn
    BY <2>2 DEF Def, Trust, Torn
  <2>4. Trust = tc.valid_counter /\ Trust \in Nat /\ sample.pc = "between"
    BY <1>1, <2>2 DEF Trust, Between
  <2>5. /\ DecoderInv'
        /\ /\ tc'.bitstream \subseteq mask(Def')
           /\ sample'.pc = "crossed" => \A e \in sample'.defs : timecodes[e].bits <= Def'.bits
           => KeptInv'
    <3>1. /\ clean' \in Nat /\ clean' <= Def'.bits /\ checked' \in Nat /\ Trust' \in Nat
      BY <1>1, <2>2, <2>3, <2>4
    <3> QED
      BY <1>1, <1>2, <2>1, <2>2, <2>3, <3>1, NothingTrusted
  <2> QED
    BY <1>2, <2>2, <2>3, <2>4, <2>5
<1>7. ASSUME NEW d \in Defs, SetDefinition(d) PROVE Goal
  <2>1. /\ run' = 0 /\ clean' = 0 /\ checked' = 0 /\ needle' = needle /\ cycle' = cycle
        /\ tc' = timecoder_init(d) /\ sample' = sample /\ sample = Between
    BY <1>7 DEF SetDefinition, timecoder_set_definition
  <2>2. /\ tc'.def = d /\ tc'.forwards = TRUE /\ tc'.bitstream = {} /\ tc'.timecode = {}
        /\ tc'.valid_counter = 0
    BY <2>1 DEF timecoder_init
  <2>3. sample'.pc = "between" /\ Trust' = 0
    BY <2>1, <2>2 DEF Trust, Between
  <2>4. Def'.bits \in Nat
    BY <2>2, Definitions DEF Def, IsDef, WORD
  <2>5. /\ tc'.def \in Defs /\ needle' \in Quarters /\ tc'.forwards \in BOOLEAN
        /\ tc'.bitstream \subseteq 0 .. Highest - 1 /\ tc'.timecode = tc'.bitstream
        /\ \A i \in tc'.bitstream : i < Def'.bits \/ i < Highest - Trust'
    BY <1>1, <2>1, <2>2
  <2>6. /\ Trust' \in Nat /\ Trust' <= checked' /\ clean' \in Nat
        /\ clean' <= Def'.bits /\ checked' \in Nat
    <3>1. Trust' = 0 /\ checked' = 0 /\ clean' = 0
      BY <2>1, <2>3
    <3> QED
      BY <2>4, <3>1
  <2>7. /\ DecoderInv'
        /\ /\ tc'.bitstream \subseteq mask(Def')
           /\ sample'.pc = "crossed" => \A e \in sample'.defs : timecodes[e].bits <= Def'.bits
           => KeptInv'
    BY <2>1, <2>5, <2>6, NothingTrusted
  <2> QED
    BY <2>2, <2>3, <2>7
<1>8. CASE CycleNext
  <2>1. /\ cycle.pc # "reset" /\ cycle'.pc # "reset"
        /\ UNCHANGED <<platter, needle, tc, sample, clean, run, checked, torn>>
    BY <1>8 DEF CycleNext, history, Idle
  <2>2. Def' = Def /\ Trust' = Trust /\ Torn' = Torn /\ Highest' = Highest
    BY <2>1 DEF Def, Trust, Torn, Highest
  <2>3. Settled' = Settled
    BY <2>1, <2>2 DEF Settled
  <2>4. DecoderInv'
    <3> HIDE DEF Settled
    <3> QED
      BY <2>1, <2>2, <2>3 DEF DecoderInv
  <2>5. KeptInv => KeptInv'
    BY <2>1, <2>2 DEF KeptInv
  <2> QED
    BY <2>4, <2>5
<1>9. CASE CycleDefinition
  <2> DEFINE d == cycle.def
  <2>1. /\ cycle.pc = "store" /\ run' = 0 /\ clean' = 0 /\ checked' = 0 /\ needle' = needle
        /\ cycle' = [pc |-> "reset"] /\ torn' = torn
        /\ tc' = [tc EXCEPT !.def = d]
        /\ sample' = IF sample.pc = "crossed" THEN [sample EXCEPT !.defs = @ \cup {d}] ELSE sample
    BY <1>9 DEF CycleDefinition
  <2>2. d \in Defs
    BY <1>1, <2>1, StepsTold DEF Storing
  <2> HIDE DEF d
  <2>3. /\ tc'.def = d /\ tc'.forwards = tc.forwards /\ tc'.bitstream = tc.bitstream
        /\ tc'.timecode = tc.timecode /\ tc'.valid_counter = tc.valid_counter
    BY <1>1, <2>1 DEF Decoders
  <2>4. Def' = timecodes[d] /\ Def'.bits \in Nat
    BY <1>1, <2>2, <2>3, Definitions DEF Def, IsDef, WORD
  <2>5. /\ Trust' \in Nat
        /\ sample'.pc = "crossed" => sample.pc = "crossed" /\ sample'.defs = sample.defs \cup {d}
    <3>1. CASE sample.pc = "crossed"
      <4> DEFINE defs == sample.defs \cup {d}
      <4>1. sample \in Crossed /\ sample' = [sample EXCEPT !.defs = defs]
        BY <1>1, <2>1, <3>1, StepsTold
      <4> HIDE DEF defs
      <4>2. sample'.pc = "crossed" /\ sample'.defs = defs
        BY <3>1, <4>1 DEF Crossed
      <4> QED
        BY <1>1, <2>3, <3>1, <4>2 DEF Trust, defs
    <3>2. CASE sample.pc # "crossed"
      <4>1. sample' = sample
        BY <2>1, <3>2
      <4>2. sample.pc = "counting" => sample.count \in Nat
        BY <1>1, StepsTold DEF Counting
      <4> QED
        BY <1>1, <2>3, <3>2, <4>1, <4>2 DEF Trust
    <3> QED
      BY <3>1, <3>2
  <2>6. /\ DecoderInv'
        /\ /\ tc'.bitstream \subseteq mask(Def')
           /\ sample'.pc = "crossed" => \A e \in sample'.defs : timecodes[e].bits <= Def'.bits
           => KeptInv'
    <3>1. cycle'.pc = "reset"
      BY <2>1
    <3> QED
      BY <1>1, <1>2, <2>1, <2>2, <2>3, <2>4, <2>5, <3>1, NothingTrusted
  <2>7. ASSUME KeptInv, Keeps PROVE KeptInv'
    <3>1. timecodes[tc.def].bits <= timecodes[tc'.def].bits
      <4>1. cycle' # cycle
        BY <2>1
      <4> QED
        BY <1>9, <2>7, <4>1 DEF vars
    <3>2. Def.bits <= Def'.bits /\ Def'.bits <= Def'.bits
      BY <1>1, <2>3, <2>4, <3>1
    <3>3. mask(Def) \subseteq mask(Def')
      <4>1. \A i \in 0 .. Def.bits - 1 : i \in 0 .. Def'.bits - 1
        BY <1>1, <2>4, <3>2
      <4> QED
        BY <4>1 DEF mask
    <3>4. ASSUME sample'.pc = "crossed", NEW e \in sample'.defs
          PROVE  timecodes[e].bits <= Def'.bits
      <4>1. CASE e \in sample.defs
        <5>1. timecodes[e].bits <= Def.bits /\ e \in Defs
          BY <1>1, <1>2, <2>5, <2>7, <3>4, <4>1, StepsTold DEF Crossed
        <5>2. timecodes[e].bits \in Nat
          BY <5>1, Definitions DEF IsDef, WORD
        <5> QED
          BY <1>1, <2>4, <3>2, <5>1, <5>2
      <4>2. CASE e = d
        BY <2>4, <3>2, <4>2
      <4> QED
        BY <2>5, <3>4, <4>1, <4>2
    <3> QED
      BY <1>2, <2>3, <2>6, <2>7, <3>3, <3>4
  <2> QED
    BY <2>6, <2>7
<1>10. CASE CycleReset
  <2>1. /\ run' = 0 /\ checked' = 0 /\ clean' = clean /\ needle' = needle /\ torn' = FALSE
        /\ tc' = [tc EXCEPT !.valid_counter = 0]
        /\ sample' = IF sample.pc = "counting" THEN [sample EXCEPT !.stale = TRUE] ELSE sample
    BY <1>10 DEF CycleReset
  <2>2. /\ tc'.def = tc.def /\ tc'.forwards = tc.forwards /\ tc'.bitstream = tc.bitstream
        /\ tc'.timecode = tc.timecode /\ tc'.valid_counter = 0
    BY <1>1, <2>1 DEF Decoders
  <2>3. Def' = Def
    BY <2>2 DEF Def
  <2>4. /\ Trust' \in Nat /\ (~Torn' => Trust' = 0)
        /\ sample'.pc = "crossed" => sample.pc = "crossed" /\ sample'.defs = sample.defs
    <3>1. CASE sample.pc = "counting"
      <4>1. sample \in Counting /\ sample' = [sample EXCEPT !.stale = TRUE]
        BY <1>1, <2>1, <3>1, StepsTold
      <4>2. sample'.pc = "counting" /\ sample'.stale = TRUE /\ sample'.count \in Nat
        BY <3>1, <4>1 DEF Counting
      <4> QED
        BY <4>2 DEF Trust, Torn
    <3>2. CASE sample.pc # "counting"
      BY <2>1, <2>2, <3>2 DEF Trust
    <3> QED
      BY <3>1, <3>2
  <2>5. ~Torn' => /\ Trust' <= checked'
                  /\ \A i \in tc'.bitstream : i < Def'.bits \/ i < Highest - Trust'
    BY <1>1, <1>2, <2>1, <2>2, <2>4
  <2>6. /\ DecoderInv'
        /\ /\ tc'.bitstream \subseteq mask(Def')
           /\ sample'.pc = "crossed" => \A e \in sample'.defs : timecodes[e].bits <= Def'.bits
           => KeptInv'
    BY <1>1, <1>2, <2>1, <2>2, <2>3, <2>4, <2>5, NothingTrusted
  <2> QED
    BY <1>2, <2>2, <2>3, <2>4, <2>6
<1>u. ASSUME UNCHANGED <<platter, needle, tc, cycle, sample, history>> PROVE Goal
  <2>1. Trust' = Trust /\ Torn' = Torn
    BY <1>u DEF Trust, Torn, history
  <2> QED
    BY <1>1, <1>u, <2>1, DecoderKept DEF history
<1>11. ASSUME NEW w \in Workers, NEW d \in Defs, FindBuilt(w, d) PROVE Goal
  BY <1>u, <1>11 DEF FindBuilt
<1>12. ASSUME NEW w \in Workers, PushTimecode(w) PROVE Goal
  BY <1>u, <1>12 DEF PushTimecode
<1>13. ASSUME NEW w \in Workers, FinishTable(w) PROVE Goal
  BY <1>u, <1>13 DEF FinishTable
<1>14. CASE UNCHANGED vars
  BY <1>u, <1>14 DEF vars, history
<1>15. Next \/ UNCHANGED vars
  OBVIOUS
<1> HIDE DEF Goal
<1>16. CASE Next
  BY <1>3, <1>4, <1>5, <1>6, <1>7, <1>8, <1>9, <1>10, <1>11, <1>12, <1>13, <1>16, Zenon DEF Next
<1> QED
  BY <1>14, <1>15, <1>16

(* In every run of process_sample() the register holds the bits the needle *)
(* has passed, as many as were read one after the other in one direction   *)
(* and agreed after a change of definition.                                *)
THEOREM DecoderInvariant == Spec => []DecoderInv
<1>1. TypeInv /\ DecoderInv /\ [Next]_vars => DecoderInv'
  BY NextDecoder
<1>2. Init => DecoderInv
  BY InitDecoder
<1> QED
  BY <1>1, <1>2, TypesHold, PTL DEF Spec

(* While the definitions that are cycled to have no fewer bits, nothing is *)
(* left in the register from before.                                       *)
LEMMA KeptInvariant == Spec /\ KeepsBits => []KeptInv
<1>1. /\ TypeInv /\ DecoderInv /\ KeptInv /\ [Next]_vars
      /\ [CycleDefinition => timecodes[tc.def].bits <= timecodes[tc'.def].bits]_vars
      => KeptInv'
  BY NextDecoder
<1>2. Init => KeptInv
  BY InitDecoder
<1> QED
  BY <1>1, <1>2, TypesHold, DecoderInvariant, PTL DEF Spec, KeepsBits

(***************************************************************************)
(* What the decoder gives.                                                 *)
(***************************************************************************)
(* A register full of bits that were passed gives the needle's place.      *)
LEMMA FullGives ==
  ASSUME TypeInv, TablesInv, tc.bitstream \subseteq mask(Def), tc.def = platter,
         NEW n \in Nat, n >= Def.bits,
         ReadsAt(tc.def, platter, needle, tc.forwards, tc.bitstream, n)
  PROVE  LET r == lut_lookup(lut[tc.def], tc.bitstream)
         IN  /\ r # NO_SLOT => r = TruePosition
             /\ TruePosition \in 0 .. Def.length - 1 => r = TruePosition
<1>1. /\ tc.def \in Defs /\ needle \in Quarters /\ tc.forwards \in BOOLEAN
      /\ Def = timecodes[tc.def] /\ Def.bits \in Nat /\ Def.bits >= 1 /\ lookup[tc.def]
  BY TypeIs, Definitions DEF TypeInv, Decoders, Def, IsDef, WORD
<1>2. HasCode(tc.def, needle, tc.forwards, tc.bitstream)
  <2>1. n >= timecodes[tc.def].bits /\ tc.bitstream \subseteq mask(timecodes[tc.def])
    BY <1>1
  <2>2. ReadsAt(tc.def, tc.def, needle, tc.forwards, tc.bitstream, n)
    OBVIOUS
  <2> QED
    BY <1>1, <2>1, <2>2, FullRegister
<1>3. Start(tc.def, needle, tc.forwards) = TruePosition
  BY <1>1 DEF Start, TruePosition, Ahead, Behind
<1>4. /\ TruePosition \in 0 .. Edges - timecodes[tc.def].bits
      /\ tc.bitstream = Pressed[tc.def][TruePosition]
  BY <1>2, <1>3 DEF HasCode
<1> DEFINE r == lut_lookup(lut[tc.def], Pressed[tc.def][TruePosition])
<1>5. /\ r # NO_SLOT => r = TruePosition
      /\ TruePosition < timecodes[tc.def].length => r = TruePosition
  BY <1>1, <1>4, Found
<1>6. TruePosition \in 0 .. Def.length - 1 => TruePosition < timecodes[tc.def].length
  BY <1>1, Definitions DEF IsDef, WORD
<1>7. lut_lookup(lut[tc.def], tc.bitstream) = r
  BY <1>4
<1> HIDE DEF r
<1> QED
  BY <1>5, <1>6, <1>7

(* A position is given only after enough bits were checked, and it is the  *)
(* needle's as soon as the window was read well, whatever definitions the  *)
(* decoder was switched between: the bits that agreed have moved out all   *)
(* that a longer register left. Excepted is a count that has missed a      *)
(* reset, because timecoder_cycle_definition() fell within a sample.       *)
THEOREM PositionIsTrue == OneWorker => (Spec => []NoFalsePosition)
<1> SUFFICES ASSUME OneWorker PROVE Spec => []NoFalsePosition
  OBVIOUS
<1>1. TypeInv /\ TablesInv /\ DecoderInv => NoFalsePosition
  <2> SUFFICES ASSUME TypeInv, TablesInv, DecoderInv,
                      timecoder_get_position(tc) # NONE, Asked, ~torn
               PROVE  /\ checked > VALID_BITS
                      /\ clean >= Def.bits => timecoder_get_position(tc) = TruePosition
    BY DEF NoFalsePosition
  <2>1. /\ VALID_BITS \in Nat /\ tc.valid_counter \in 0 .. VALID_BITS + 1
        /\ checked \in 0 .. VALID_BITS + 1 /\ clean \in Nat /\ run \in Nat
        /\ Def.bits \in 1 .. VALID_BITS + 1 /\ tc.def \in Defs /\ Def = timecodes[tc.def]
    BY TypeIs, Definitions DEF TypeInv, Decoders, Def
  <2>0. Trust = tc.valid_counter /\ ~Torn /\ cycle.pc # "reset"
    BY DEF Asked, Between, Trust, Torn
  <2>2. /\ Highest \in Nat /\ Highest <= VALID_BITS + 1 /\ Def.bits <= Highest
    BY <2>1, HighestIs
  <2>3. /\ tc.valid_counter > VALID_BITS
        /\ timecoder_get_position(tc) = lut_lookup(lut[tc.def], tc.bitstream)
    BY <2>1 DEF timecoder_get_position
  <2>4. /\ tc.valid_counter <= checked /\ Least(clean, checked) <= run /\ clean <= Def.bits
        /\ tc.bitstream \subseteq 0 .. Highest - 1 /\ (run > 0 => tc.def = platter)
        /\ \A i \in tc.bitstream : i < Def.bits \/ i < Highest - tc.valid_counter
        /\ ReadsAt(tc.def, platter, needle, tc.forwards, tc.bitstream, Settled)
    BY <2>0 DEF DecoderInv
  <2>5. checked > VALID_BITS
    BY <2>1, <2>3, <2>4
  <2>6. ASSUME clean >= Def.bits PROVE timecoder_get_position(tc) = TruePosition
    <3>1. run >= Def.bits
      BY <2>1, <2>4, <2>5, <2>6 DEF Least
    <3>2. Settled \in Nat /\ Settled >= Def.bits
      BY <2>0, <2>1, <2>2, <2>3, <3>1 DEF Settled, Least
    <3>3. tc.bitstream \subseteq mask(Def)
      <4>1. ASSUME NEW i \in tc.bitstream PROVE i \in 0 .. Def.bits - 1
        <5>1. i \in 0 .. Highest - 1 /\ (i < Def.bits \/ i < Highest - tc.valid_counter)
          BY <2>4
        <5> QED
          BY <2>1, <2>2, <2>3, <5>1
      <4> QED
        BY <4>1 DEF mask
    <3>4. tc.def = platter
      BY <2>1, <2>4, <3>1
    <3> HIDE DEF Settled
    <3> QED
      BY <2>3, <2>4, <3>2, <3>3, <3>4, FullGives DEF NONE, NO_SLOT
  <2> QED
    BY <2>5, <2>6
<1> QED
  BY <1>1, TypesHold, TablesInvariant, DecoderInvariant, PTL

(* A needle is found again after one window and VALID_BITS + 1 more bits,  *)
(* unless a longer register has left bits that the first of them ended.    *)
THEOREM IsFoundAgain == OneWorker => (Spec /\ KeepsBits => []FoundAgain)
<1> SUFFICES ASSUME OneWorker PROVE Spec /\ KeepsBits => []FoundAgain
  OBVIOUS
<1>1. TypeInv /\ TablesInv /\ DecoderInv /\ KeptInv => FoundAgain
  <2> SUFFICES ASSUME TypeInv, TablesInv, DecoderInv, KeptInv,
                      run >= Def.bits + VALID_BITS + 1, Asked,
                      TruePosition \in 0 .. Def.length - 1
               PROVE  timecoder_get_position(tc) = TruePosition
    BY DEF FoundAgain
  <2>1. /\ VALID_BITS \in Nat /\ tc.valid_counter \in 0 .. VALID_BITS + 1 /\ run \in Nat
        /\ Def.bits \in 1 .. VALID_BITS + 1
    BY TypeIs, Definitions DEF TypeInv, Decoders, Def
  <2>2. /\ run <= Def.bits + tc.valid_counter /\ tc.bitstream \subseteq mask(Def)
        /\ ReadsAt(tc.def, platter, needle, tc.forwards, tc.bitstream, run)
        /\ run > 0 => tc.def = platter
    BY DEF DecoderInv, KeptInv, Asked, Between, Trust
  <2>3. tc.valid_counter > VALID_BITS /\ run >= Def.bits /\ run > 0
    BY <2>1, <2>2
  <2>4. timecoder_get_position(tc) = lut_lookup(lut[tc.def], tc.bitstream)
    BY <2>1, <2>3 DEF timecoder_get_position
  <2> QED
    BY <2>1, <2>2, <2>3, <2>4, FullGives
<1> QED
  BY <1>1, TypesHold, TablesInvariant, DecoderInvariant, KeptInvariant, PTL
=============================================================================
