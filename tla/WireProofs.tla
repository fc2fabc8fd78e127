------------------------------ MODULE WireProofs ------------------------------
(***************************************************************************)
(* The codec on messages of any size: what is encoded is decoded to the    *)
(* same message, what is decoded would have been encoded to the same       *)
(* bytes, and a damaged packet gets the error its damage calls for, for    *)
(* every base, magic, limit and set of messages.                           *)
(***************************************************************************)
EXTENDS Wire, SequenceTheorems, WellFoundedInduction, TLAPS

-----------------------------------------------------------------------------
(* Counting.                                                                *)

(* A set of numbers that is not empty has a smallest member.                *)
LEMMA SmallestNumber ==
  ASSUME NEW T \in SUBSET Nat, T # {}
  PROVE  \E x \in T : \A y \in T : x <= y
<1>1. PICK R : /\ R = {ss \in Nat \X Nat : ss[1] < ss[2]}
               /\ IsWellFoundedOn(R, Nat)
  BY NatLessThanWellFounded DEF OpToRel
<1>2. \A x, y \in Nat : <<y, x>> \in R <=> y < x
  BY <1>1
<1>3. PICK x \in T : \A y \in T : <<y, x>> \notin R
  BY <1>1, WFMin, Zenon
<1>4. ASSUME NEW y \in T PROVE x <= y
  <2>1. x \in Nat /\ y \in Nat
    OBVIOUS
  <2>2. <<y, x>> \notin R
    BY <1>3
  <2>3. ~(y < x)
    BY <1>2, <2>1, <2>2, Zenon
  <2> QED BY <2>1, <2>3
<1> QED BY <1>4

(* Induction over 0..k for a set of numbers.                                *)
LEMMA Upwards ==
  ASSUME NEW k \in Nat, NEW G \in SUBSET (0..k), 0 \in G,
         \A n \in 1..k : n - 1 \in G => n \in G
  PROVE  G = 0..k
<1> DEFINE T == (0..k) \ G
<1> SUFFICES ASSUME T # {} PROVE FALSE
  OBVIOUS
<1>1. T \in SUBSET Nat
  OBVIOUS
<1>2. PICK x \in T : \A y \in T : x <= y
  BY <1>1, SmallestNumber
<1>3. x \in 1..k /\ x - 1 \in 0..k
  OBVIOUS
<1>4. x - 1 \notin T
  BY <1>2, <1>3
<1> QED BY <1>2, <1>3, <1>4

(* A recursive definition over 0..k defines something.                      *)
IsIteration(f, k, start, step) ==
  f = [n \in 0..k |-> IF n = 0 THEN start ELSE step[<<n, f[n - 1]>>]]

LEMMA Iteration ==
  ASSUME NEW k \in Nat, NEW X, NEW start \in X, NEW step \in [(1..k) \X X -> X]
  PROVE  \E f \in [0..k -> X] : IsIteration(f, k, start, step)
<1> DEFINE G == {j \in 0..k : \E f \in [0..j -> X] : IsIteration(f, j, start, step)}
<1>1. 0 \in G
  <2> DEFINE f == [n \in 0..0 |-> start]
  <2>1. f \in [0..0 -> X] /\ IsIteration(f, 0, start, step)
    BY DEF IsIteration
  <2> QED BY <2>1
<1>2. ASSUME NEW j \in 1..k, j - 1 \in G PROVE j \in G
  <2>1. PICK f \in [0..(j - 1) -> X] : IsIteration(f, j - 1, start, step)
    BY <1>2
  <2> DEFINE g == [n \in 0..j |-> IF n < j THEN f[n] ELSE step[<<j, f[j - 1]>>]]
  <2>2. step[<<j, f[j - 1]>>] \in X
    BY <2>1
  <2>3. g \in [0..j -> X]
    BY <2>1, <2>2
  <2>4. ASSUME NEW n \in 0..j
        PROVE  g[n] = IF n = 0 THEN start ELSE step[<<n, g[n - 1]>>]
    <3>1. CASE n = 0
      BY <2>1, <3>1 DEF IsIteration
    <3>2. CASE n \in 1..(j - 1)
      <4>1. f[n] = step[<<n, f[n - 1]>>]
        BY <2>1, <3>2 DEF IsIteration
      <4>2. n \in 0..j /\ n - 1 \in 0..j /\ n < j /\ n - 1 < j /\ n # 0
        BY <3>2
      <4> QED BY <4>1, <4>2
    <3>3. CASE n = j
      <4>1. j - 1 \in 0..j /\ j - 1 < j /\ j # 0 /\ j \in 0..j /\ ~(j < j)
        OBVIOUS
      <4>2. g[j - 1] = f[j - 1] /\ g[j] = step[<<j, f[j - 1]>>]
        BY <4>1
      <4> HIDE DEF g
      <4> QED BY <3>3, <4>1, <4>2
    <3> QED BY <3>1, <3>2, <3>3
  <2>5. IsIteration(g, j, start, step)
    BY <2>3, <2>4 DEF IsIteration
  <2> QED BY <2>3, <2>5
<1>3. G \in SUBSET (0..k) /\ (k \in G => \E f \in [0..k -> X] : IsIteration(f, k, start, step))
  OBVIOUS
<1> HIDE DEF G
<1>4. G = 0..k
  BY <1>1, <1>2, <1>3, Upwards
<1> QED BY <1>3, <1>4
-----------------------------------------------------------------------------
(* Integers and their bytes.                                                *)

LEMMA BaseIsPositive == /\ Base \in Nat \ {0} /\ Word \in Nat \ {0}
                        /\ Long \in Nat \ {0}
<1>1. Base \in Nat /\ kRakNetPacketId \in 0..(Base - 1)
  BY WireAssumption DEF Byte
<1>2. Base \in Nat \ {0}
  BY <1>1
<1>3. \A a \in Nat \ {0} : a * a \in Nat \ {0}
  OBVIOUS
<1> QED BY <1>2, <1>3 DEF Word, Long

(* A number is its high part and its low part.                              *)
LEMMA Split ==
  ASSUME NEW w \in Nat \ {0}, NEW v \in Nat
  PROVE  /\ v \div w \in Nat /\ v % w \in 0..(w - 1)
         /\ v = w * (v \div w) + (v % w)
OBVIOUS

LEMMA SplitBelow ==
  ASSUME NEW w \in Nat \ {0}, NEW h \in Nat, NEW v \in 0..(w * h - 1)
  PROVE  v \div w \in 0..(h - 1)
<1> DEFINE q == v \div w
<1>1. q \in Nat /\ v >= w * q /\ v < w * h
  BY Split
<1> HIDE DEF q
<1>2. ASSUME q >= h PROVE FALSE
  <2>1. PICK d \in Nat : q = h + d
    BY <1>1, <1>2
  <2>2. w * q = w * h + w * d /\ w * d \in Nat /\ w * h \in Nat
    BY <2>1
  <2> QED BY <1>1, <2>2
<1> QED BY <1>1, <1>2 DEF q

(* The parts are determined by the number.                                  *)
LEMMA OneSplit ==
  ASSUME NEW w \in Nat \ {0}, NEW a \in Nat, NEW b \in Nat,
         NEW c \in 0..(w - 1), NEW d \in 0..(w - 1), w * a + c = w * b + d
  PROVE  a = b /\ c = d
<1>1. CASE a > b
  <2>1. PICK e \in Nat : a = b + 1 + e
    BY <1>1
  <2>2. w * a = w * b + w + w * e /\ w * e \in Nat
    BY <2>1
  <2> QED BY <2>2
<1>2. CASE b > a
  <2>1. PICK e \in Nat : b = a + 1 + e
    BY <1>2
  <2>2. w * b = w * a + w + w * e /\ w * e \in Nat
    BY <2>1
  <2> QED BY <2>2
<1> QED BY <1>1, <1>2

LEMMA Join ==
  ASSUME NEW w \in Nat \ {0}, NEW h \in Nat, NEW hi \in 0..(h - 1), NEW lo \in 0..(w - 1)
  PROVE  /\ w * hi + lo \in 0..(w * h - 1)
         /\ (w * hi + lo) \div w = hi
         /\ (w * hi + lo) % w = lo
<1>1. w * hi + lo \in 0..(w * h - 1)
  <2>1. PICK d \in Nat : h = hi + 1 + d
    OBVIOUS
  <2>2. w * h = w * hi + w + w * d /\ w * d \in Nat /\ w * hi \in Nat
    BY <2>1
  <2> QED BY <2>2
<1> DEFINE v == w * hi + lo
<1>2. v \in Nat
  BY <1>1
<1> DEFINE q == v \div w
           r == v % w
<1>3. q \in Nat /\ r \in 0..(w - 1) /\ v = w * q + r
  BY <1>2, Split
<1> HIDE DEF q, r
<1>4. q = hi /\ r = lo
  BY <1>3, OneSplit
<1> QED BY <1>1, <1>4 DEF q, r

(* The low part of a number of two parts.                                   *)
LEMMA LowPart ==
  ASSUME NEW w \in Nat \ {0}, NEW v \in Nat
  PROVE  /\ w * w \in Nat \ {0}
         /\ v % (w * w) \in Nat
         /\ (v % (w * w)) % w = v % w
         /\ (v % (w * w)) \div w = (v \div w) % w
<1> DEFINE q == v \div w
           r == v % w
           top == q \div w
           mid == q % w
           u == w * mid + r
<1>1. q \in Nat /\ r \in 0..(w - 1) /\ v = w * q + r
  BY Split
<1>2. top \in Nat /\ mid \in 0..(w - 1) /\ q = w * top + mid
  BY <1>1, Split
<1>3. w * w \in Nat \ {0}
  OBVIOUS
<1> HIDE DEF q, r, top, mid
<1>4. w * (w * top + mid) + r = (w * w) * top + (w * mid + r)
  BY <1>1, <1>2
<1>5. u \in 0..((w * w) - 1) /\ u \div w = mid /\ u % w = r
  BY <1>1, <1>2, Join
<1>6. v = (w * w) * top + u
  BY <1>1, <1>2, <1>4
<1>7. v % (w * w) = u
  <2> DEFINE a == v \div (w * w)
             c == v % (w * w)
             ww == w * w
  <2>1. a \in Nat /\ c \in 0..(ww - 1) /\ v = ww * a + c
    BY <1>3, Split
  <2> HIDE DEF a, c, u
  <2>2. ww \in Nat \ {0} /\ u \in 0..(ww - 1) /\ ww * a + c = ww * top + u
    BY <1>3, <1>5, <1>6, <2>1
  <2> HIDE DEF ww
  <2>3. c = u
    BY <1>2, <2>1, <2>2, OneSplit
  <2> QED BY <2>3 DEF c, ww
<1>8. u \in Nat
  BY <1>5
<1> QED BY <1>3, <1>5, <1>7, <1>8 DEF q, r, mid

(* Two bytes.                                                               *)
LEMMA Write16 ==
  ASSUME NEW v \in 0..(Word - 1)
  PROVE  /\ Bytes16(v) \in [1..2 -> Byte]
         /\ \A s : \A o \in Nat :
              (\A i \in 1..2 : s[o + i] = Bytes16(v)[i]) => Value16(s, o) = v
<1>1. v \in Nat /\ v % Base \in 0..(Base - 1) /\ v \div Base \in 0..(Base - 1)
  <2>1. Base \in Nat \ {0} /\ v \in 0..((Base * Base) - 1)
    BY BaseIsPositive DEF Word
  <2>2. v \div Base \in 0..(Base - 1)
    BY <2>1, SplitBelow
  <2>3. v \in Nat
    BY <2>1
  <2> QED BY <2>1, <2>2, <2>3, Split
<1>2. v = Base * (v \div Base) + (v % Base)
  BY <1>1, BaseIsPositive, Split
<1>3. (v \div Base) % Base = v \div Base
  BY <1>1, BaseIsPositive
<1>4. Bytes16(v) = <<v \div Base, v % Base>>
  BY <1>3 DEF Bytes16
<1> DEFINE hi == v \div Base
           lo == v % Base
<1> HIDE DEF hi, lo
<1>5. Bytes16(v) = <<hi, lo>>
  BY <1>4 DEF hi, lo
<1>6. hi \in 0..(Base - 1) /\ lo \in 0..(Base - 1) /\ v = Base * hi + lo
  BY <1>1, <1>2 DEF hi, lo
<1>7. Bytes16(v) \in [1..2 -> Byte]
  BY <1>5, <1>6 DEF Byte
<1>8. ASSUME NEW s, NEW o \in Nat, \A i \in 1..2 : s[o + i] = Bytes16(v)[i]
      PROVE  Value16(s, o) = v
  <2>1. s[o + 1] = hi /\ s[o + 2] = lo
    BY <1>5, <1>8
  <2> QED BY <1>6, <2>1 DEF Value16
<1> QED BY <1>7, <1>8

LEMMA Read16 ==
  ASSUME NEW s, NEW o \in Nat, \A i \in 1..2 : s[o + i] \in Byte
  PROVE  /\ Value16(s, o) \in 0..(Word - 1)
         /\ Bytes16(Value16(s, o)) = [i \in 1..2 |-> s[o + i]]
<1> DEFINE hi == s[o + 1]
           lo == s[o + 2]
           v == Base * hi + lo
<1>1. hi \in 0..(Base - 1) /\ lo \in 0..(Base - 1)
  BY DEF Byte
<1> HIDE DEF hi, lo
<1>2. v \in 0..((Base * Base) - 1) /\ v \div Base = hi /\ v % Base = lo
  BY <1>1, BaseIsPositive, Join
<1>3. hi % Base = hi
  BY <1>1, BaseIsPositive
<1>4. Value16(s, o) = v
  BY DEF Value16, hi, lo
<1> HIDE DEF v
<1>5. Bytes16(v) = <<hi, lo>>
  BY <1>2, <1>3 DEF Bytes16
<1>6. <<hi, lo>> = [i \in 1..2 |-> s[o + i]]
  BY DEF hi, lo
<1> QED BY <1>2, <1>4, <1>5, <1>6 DEF Word

LEMMA Low16 ==
  ASSUME NEW v \in Nat
  PROVE  v % Word \in 0..(Word - 1) /\ Bytes16(v) = Bytes16(v % Word)
<1>1. v % Word \in 0..(Word - 1)
  BY BaseIsPositive, Split
<1>2. (v % Word) % Base = v % Base /\ (v % Word) \div Base = (v \div Base) % Base
  BY BaseIsPositive, LowPart DEF Word
<1>3. (v \div Base) \in Nat
  BY BaseIsPositive, Split
<1>4. ((v \div Base) % Base) % Base = (v \div Base) % Base
  BY <1>3, BaseIsPositive
<1> QED BY <1>1, <1>2, <1>4 DEF Bytes16

LEMMA BytesAreSequence ==
  ASSUME NEW k \in Nat, NEW b \in [1..k -> Byte]
  PROVE  b \in Seq(Byte) /\ Len(b) = k
OBVIOUS

LEMMA Bytes16IsSequence ==
  ASSUME NEW v \in 0..(Word - 1)
  PROVE  Bytes16(v) \in Seq(Byte) /\ Len(Bytes16(v)) = 2
<1> DEFINE b == Bytes16(v)
<1>1. b \in [1..2 -> Byte] /\ 2 \in Nat
  BY Write16
<1> HIDE DEF b
<1>2. b \in Seq(Byte) /\ Len(b) = 2
  BY <1>1, BytesAreSequence, Zenon
<1> QED BY <1>2 DEF b

(* Two halves, of two or of four bytes each.                                *)
LEMMA Halves ==
  ASSUME NEW k \in Nat, NEW a \in [1..k -> Byte], NEW b \in [1..k -> Byte]
  PROVE  /\ a \o b \in [1..(k + k) -> Byte]
         /\ \A i \in 1..k : (a \o b)[i] = a[i] /\ (a \o b)[k + i] = b[i]
<1>1. a \in Seq(Byte) /\ b \in Seq(Byte) /\ Len(a) = k /\ Len(b) = k
  OBVIOUS
<1>2. /\ a \o b \in Seq(Byte) /\ Len(a \o b) = k + k
      /\ \A i \in 1..(k + k) : (a \o b)[i] = IF i <= k THEN a[i] ELSE b[i - k]
  <2>1. /\ a \o b \in Seq(Byte) /\ Len(a \o b) = Len(a) + Len(b)
        /\ \A i \in 1..(Len(a) + Len(b)) :
             (a \o b)[i] = IF i <= Len(a) THEN a[i] ELSE b[i - Len(a)]
    BY <1>1, ConcatProperties
  <2> QED BY <1>1, <2>1, Zenon
<1>3. a \o b \in [1..(k + k) -> Byte]
  BY <1>2, LenProperties
<1>4. ASSUME NEW i \in 1..k PROVE (a \o b)[i] = a[i] /\ (a \o b)[k + i] = b[i]
  <2>1. i \in 1..(k + k) /\ k + i \in 1..(k + k) /\ (k + i) - k = i /\ ~(k + i <= k)
    OBVIOUS
  <2> QED BY <1>2, <2>1
<1> QED BY <1>3, <1>4

(* Four bytes.                                                              *)
LEMMA Write32 ==
  ASSUME NEW v \in 0..(Long - 1)
  PROVE  /\ Bytes32(v) \in [1..4 -> Byte]
         /\ \A s : \A o \in Nat :
              (\A i \in 1..4 : s[o + i] = Bytes32(v)[i]) => Value32(s, o) = v
<1> DEFINE hi == v \div Word
           lo == v % Word
<1>1. v \in Nat /\ Word \in Nat \ {0} /\ v \in 0..((Word * Word) - 1)
  BY BaseIsPositive DEF Long
<1>2. hi \in 0..(Word - 1)
  BY <1>1, SplitBelow
<1>3. lo \in 0..(Word - 1) /\ v = Word * hi + lo
  BY <1>1, Split
<1>4. Bytes32(v) = Bytes16(hi) \o Bytes16(lo)
  BY <1>1, Low16 DEF Bytes32
<1> HIDE DEF hi, lo
<1>5. /\ Bytes32(v) \in [1..4 -> Byte]
      /\ \A i \in 1..2 : Bytes32(v)[i] = Bytes16(hi)[i] /\ Bytes32(v)[2 + i] = Bytes16(lo)[i]
  <2>1. Bytes16(hi) \in [1..2 -> Byte] /\ Bytes16(lo) \in [1..2 -> Byte]
    BY <1>2, <1>3, Write16
  <2> DEFINE both == Bytes16(hi) \o Bytes16(lo)
  <2>2. /\ both \in [1..(2 + 2) -> Byte]
        /\ \A i \in 1..2 : both[i] = Bytes16(hi)[i] /\ both[2 + i] = Bytes16(lo)[i]
    BY <2>1, Halves
  <2>3. 2 + 2 = 4
    OBVIOUS
  <2> QED BY <1>4, <2>2, <2>3, Zenon
<1>6. ASSUME NEW s, NEW o \in Nat, \A i \in 1..4 : s[o + i] = Bytes32(v)[i]
      PROVE  Value32(s, o) = v
  <2>1. ASSUME NEW i \in 1..2
        PROVE  s[o + i] = Bytes16(hi)[i] /\ s[(o + 2) + i] = Bytes16(lo)[i]
    <3>1. i \in 1..4 /\ 2 + i \in 1..4 /\ (o + 2) + i = o + (2 + i)
      OBVIOUS
    <3> QED BY <1>5, <1>6, <3>1
  <2>2. Value16(s, o) = hi /\ Value16(s, o + 2) = lo
    BY <1>2, <1>3, <2>1, Write16, o + 2 \in Nat
  <2> QED BY <1>3, <2>2 DEF Value32
<1> QED BY <1>5, <1>6

LEMMA Read32 ==
  ASSUME NEW s, NEW o \in Nat, \A i \in 1..4 : s[o + i] \in Byte
  PROVE  /\ Value32(s, o) \in 0..(Long - 1)
         /\ Bytes32(Value32(s, o)) = [i \in 1..4 |-> s[o + i]]
<1> DEFINE hi == Value16(s, o)
           lo == Value16(s, o + 2)
           v == Word * hi + lo
<1>1. \A i \in 1..2 : s[o + i] \in Byte /\ s[(o + 2) + i] \in Byte
  <2> TAKE i \in 1..2
  <2>1. i \in 1..4 /\ 2 + i \in 1..4 /\ (o + 2) + i = o + (2 + i)
    OBVIOUS
  <2> QED BY <2>1
<1>2. /\ hi \in 0..(Word - 1) /\ Bytes16(hi) = [i \in 1..2 |-> s[o + i]]
      /\ lo \in 0..(Word - 1) /\ Bytes16(lo) = [i \in 1..2 |-> s[(o + 2) + i]]
  BY <1>1, Read16, o + 2 \in Nat
<1> HIDE DEF hi, lo
<1>3. v \in 0..((Word * Word) - 1) /\ v \div Word = hi /\ v % Word = lo
  BY <1>2, BaseIsPositive, Join
<1>4. Value32(s, o) = v
  BY DEF Value32, hi, lo
<1>5. v \in Nat
  BY <1>3, BaseIsPositive
<1> HIDE DEF v
<1>6. Bytes32(v) = Bytes16(hi) \o Bytes16(lo)
  BY <1>3, <1>5, Low16 DEF Bytes32
<1>7. Bytes16(hi) \in [1..2 -> Byte] /\ Bytes16(lo) \in [1..2 -> Byte]
  BY <1>2, Write16
<1>8. /\ Bytes32(v) \in [1..4 -> Byte]
      /\ \A i \in 1..2 : Bytes32(v)[i] = s[o + i] /\ Bytes32(v)[2 + i] = s[(o + 2) + i]
  <2> DEFINE both == Bytes16(hi) \o Bytes16(lo)
  <2>1. /\ both \in [1..(2 + 2) -> Byte]
        /\ \A i \in 1..2 : both[i] = Bytes16(hi)[i] /\ both[2 + i] = Bytes16(lo)[i]
    BY <1>7, Halves
  <2>2. \A i \in 1..2 : Bytes16(hi)[i] = s[o + i] /\ Bytes16(lo)[i] = s[(o + 2) + i]
    BY <1>2
  <2>3. 2 + 2 = 4
    OBVIOUS
  <2> QED BY <1>6, <2>1, <2>2, <2>3, Zenon
<1>9. ASSUME NEW i \in 1..4 PROVE Bytes32(v)[i] = s[o + i]
  <2>1. CASE i \in 1..2
    BY <1>8, <2>1
  <2>2. CASE i \in 3..4
    <3>1. i - 2 \in 1..2 /\ 2 + (i - 2) = i /\ (o + 2) + (i - 2) = o + i
      BY <2>2
    <3> QED BY <1>8, <3>1
  <2> QED BY <2>1, <2>2
<1>10. Bytes32(v) = [i \in 1..4 |-> s[o + i]]
  BY <1>8, <1>9
<1> QED BY <1>3, <1>4, <1>10 DEF Long
LEMMA Low32 ==
  ASSUME NEW v \in Nat
  PROVE  v % Long \in 0..(Long - 1) /\ Bytes32(v) = Bytes32(v % Long)
<1> DEFINE u == v % Long
<1>1. u \in 0..(Long - 1)
  BY BaseIsPositive, Split
<1>2. u % Word = v % Word /\ u \div Word = (v \div Word) % Word
  BY BaseIsPositive, LowPart DEF Long
<1> HIDE DEF u
<1>3. u \in Nat /\ v \div Word \in Nat
  BY <1>1, BaseIsPositive, Split
<1>4. Bytes16(u) = Bytes16(u % Word) /\ Bytes16(v) = Bytes16(v % Word)
  BY <1>3, Low16
<1>5. Bytes16(v \div Word) = Bytes16(u \div Word)
  BY <1>2, <1>3, Low16
<1> QED BY <1>1, <1>2, <1>4, <1>5 DEF Bytes32, u

(* Eight bytes.                                                             *)
LEMMA Write64 ==
  ASSUME NEW v \in 0..((Long * Long) - 1)
  PROVE  /\ Bytes64(v) \in [1..8 -> Byte]
         /\ \A s : \A o \in Nat :
              (\A i \in 1..8 : s[o + i] = Bytes64(v)[i]) => Value64(s, o) = v
<1> DEFINE hi == v \div Long
           lo == v % Long
<1>1. v \in Nat /\ Long \in Nat \ {0} /\ v \in 0..((Long * Long) - 1)
  BY BaseIsPositive
<1>2. hi \in 0..(Long - 1)
  BY <1>1, SplitBelow
<1>3. lo \in 0..(Long - 1) /\ v = Long * hi + lo
  BY <1>1, Split
<1>4. Bytes64(v) = Bytes32(hi) \o Bytes32(lo)
  BY <1>1, Low32 DEF Bytes64
<1> HIDE DEF hi, lo
<1>5. /\ Bytes64(v) \in [1..8 -> Byte]
      /\ \A i \in 1..4 : Bytes64(v)[i] = Bytes32(hi)[i] /\ Bytes64(v)[4 + i] = Bytes32(lo)[i]
  <2>1. Bytes32(hi) \in [1..4 -> Byte] /\ Bytes32(lo) \in [1..4 -> Byte]
    BY <1>2, <1>3, Write32
  <2> DEFINE both == Bytes32(hi) \o Bytes32(lo)
  <2>2. /\ both \in [1..(4 + 4) -> Byte]
        /\ \A i \in 1..4 : both[i] = Bytes32(hi)[i] /\ both[4 + i] = Bytes32(lo)[i]
    BY <2>1, Halves
  <2>3. 4 + 4 = 8
    OBVIOUS
  <2> QED BY <1>4, <2>2, <2>3, Zenon
<1>6. ASSUME NEW s, NEW o \in Nat, \A i \in 1..8 : s[o + i] = Bytes64(v)[i]
      PROVE  Value64(s, o) = v
  <2>1. ASSUME NEW i \in 1..4
        PROVE  s[o + i] = Bytes32(hi)[i] /\ s[(o + 4) + i] = Bytes32(lo)[i]
    <3>1. i \in 1..8 /\ 4 + i \in 1..8 /\ (o + 4) + i = o + (4 + i)
      OBVIOUS
    <3> QED BY <1>5, <1>6, <3>1
  <2>2. Value32(s, o) = hi /\ Value32(s, o + 4) = lo
    BY <1>2, <1>3, <2>1, Write32, o + 4 \in Nat
  <2> QED BY <1>3, <2>2 DEF Value64
<1> QED BY <1>5, <1>6

LEMMA Read64 ==
  ASSUME NEW s, NEW o \in Nat, \A i \in 1..8 : s[o + i] \in Byte
  PROVE  /\ Value64(s, o) \in 0..((Long * Long) - 1)
         /\ Bytes64(Value64(s, o)) = [i \in 1..8 |-> s[o + i]]
<1> DEFINE hi == Value32(s, o)
           lo == Value32(s, o + 4)
           v == Long * hi + lo
<1>1. \A i \in 1..4 : s[o + i] \in Byte /\ s[(o + 4) + i] \in Byte
  <2> TAKE i \in 1..4
  <2>1. i \in 1..8 /\ 4 + i \in 1..8 /\ (o + 4) + i = o + (4 + i)
    OBVIOUS
  <2> QED BY <2>1
<1>2. /\ hi \in 0..(Long - 1) /\ Bytes32(hi) = [i \in 1..4 |-> s[o + i]]
      /\ lo \in 0..(Long - 1) /\ Bytes32(lo) = [i \in 1..4 |-> s[(o + 4) + i]]
  BY <1>1, Read32, o + 4 \in Nat
<1> HIDE DEF hi, lo
<1>3. v \in 0..((Long * Long) - 1) /\ v \div Long = hi /\ v % Long = lo
  BY <1>2, BaseIsPositive, Join
<1>4. Value64(s, o) = v
  BY DEF Value64, hi, lo
<1>5. v \in Nat
  BY <1>3, BaseIsPositive
<1> HIDE DEF v
<1>6. Bytes64(v) = Bytes32(hi) \o Bytes32(lo)
  BY <1>3, <1>5, Low32 DEF Bytes64
<1>7. Bytes32(hi) \in [1..4 -> Byte] /\ Bytes32(lo) \in [1..4 -> Byte]
  BY <1>2, Write32
<1>8. /\ Bytes64(v) \in [1..8 -> Byte]
      /\ \A i \in 1..4 : Bytes64(v)[i] = s[o + i] /\ Bytes64(v)[4 + i] = s[(o + 4) + i]
  <2> DEFINE both == Bytes32(hi) \o Bytes32(lo)
  <2>1. /\ both \in [1..(4 + 4) -> Byte]
        /\ \A i \in 1..4 : both[i] = Bytes32(hi)[i] /\ both[4 + i] = Bytes32(lo)[i]
    BY <1>7, Halves
  <2>2. \A i \in 1..4 : Bytes32(hi)[i] = s[o + i] /\ Bytes32(lo)[i] = s[(o + 4) + i]
    BY <1>2
  <2>3. 4 + 4 = 8
    OBVIOUS
  <2> QED BY <1>6, <2>1, <2>2, <2>3, Zenon
<1>9. ASSUME NEW i \in 1..8 PROVE Bytes64(v)[i] = s[o + i]
  <2>1. CASE i \in 1..4
    BY <1>8, <2>1
  <2>2. CASE i \in 5..8
    <3>1. i - 4 \in 1..4 /\ 4 + (i - 4) = i /\ (o + 4) + (i - 4) = o + i
      BY <2>2
    <3> QED BY <1>8, <3>1
  <2> QED BY <2>1, <2>2
<1>10. Bytes64(v) = [i \in 1..8 |-> s[o + i]]
  BY <1>8, <1>9
<1> QED BY <1>3, <1>4, <1>10

(* Each of the three widths.                                                *)
Limit(width) == CASE width = 2 -> Word [] width = 4 -> Long [] width = 8 -> Long * Long

LEMMA WriteInteger ==
  ASSUME NEW width \in {2, 4, 8}, NEW v \in 0..(Limit(width) - 1)
  PROVE  /\ BytesOf(v, width) \in [1..width -> Byte]
         /\ \A s : \A o \in Nat :
              (\A i \in 1..width : s[o + i] = BytesOf(v, width)[i])
                => ValueAt(s, o, width) = v
<1>1. CASE width = 2
  BY <1>1, Write16 DEF Limit, BytesOf, ValueAt
<1>2. CASE width = 4
  BY <1>2, Write32 DEF Limit, BytesOf, ValueAt
<1>3. CASE width = 8
  BY <1>3, Write64 DEF Limit, BytesOf, ValueAt
<1> QED BY <1>1, <1>2, <1>3

LEMMA ReadInteger ==
  ASSUME NEW width \in {2, 4, 8}, NEW s, NEW o \in Nat,
         \A i \in 1..width : s[o + i] \in Byte
  PROVE  /\ ValueAt(s, o, width) \in 0..(Limit(width) - 1)
         /\ \A i \in 1..width : BytesOf(ValueAt(s, o, width), width)[i] = s[o + i]
<1>1. CASE width = 2
  BY <1>1, Read16 DEF Limit, BytesOf, ValueAt
<1>2. CASE width = 4
  BY <1>2, Read32 DEF Limit, BytesOf, ValueAt
<1>3. CASE width = 8
  BY <1>3, Read64 DEF Limit, BytesOf, ValueAt
<1> QED BY <1>1, <1>2, <1>3

-----------------------------------------------------------------------------
(* Sequences.                                                               *)

(* What makes a sequence the concatenation of two others.                   *)
LEMMA IsConcatenation ==
  ASSUME NEW S, NEW s \in Seq(S), NEW t \in Seq(S), NEW u \in Seq(S),
         Len(u) = Len(s) + Len(t),
         \A i \in 1..Len(s) : u[i] = s[i],
         \A i \in 1..Len(t) : u[Len(s) + i] = t[i]
  PROVE  s \o t = u
<1> DEFINE k == Len(s)
           l == Len(t)
<1>1. k \in Nat /\ l \in Nat /\ k = Len(s) /\ l = Len(t)
  BY LenProperties
<1> HIDE DEF k, l
<1>2. /\ s \o t \in Seq(S) /\ Len(s \o t) = k + l
      /\ \A i \in 1..(k + l) : (s \o t)[i] = IF i <= k THEN s[i] ELSE t[i - k]
  BY <1>1, ConcatProperties
<1>3. ASSUME NEW i \in 1..Len(u) PROVE u[i] = (s \o t)[i]
  <2>1. CASE i \in 1..k
    BY <1>1, <1>2, <2>1
  <2>2. CASE i \in (k + 1)..(k + l)
    <3>1. i - k \in 1..l /\ k + (i - k) = i
      BY <1>1, <2>2
    <3>2. u[i] = t[i - k]
      BY <1>1, <3>1
    <3> QED BY <1>1, <1>2, <2>2, <3>2
  <2> QED BY <1>1, <2>1, <2>2
<1> QED BY <1>1, <1>2, <1>3, SeqEqual

(* Where the bytes of a concatenation come from.                            *)
LEMMA Joined ==
  ASSUME NEW S, NEW s \in Seq(S), NEW t \in Seq(S)
  PROVE  /\ s \o t \in Seq(S) /\ Len(s \o t) = Len(s) + Len(t)
         /\ \A i \in 1..Len(s) : (s \o t)[i] = s[i]
         /\ \A i \in 1..Len(t) : (s \o t)[Len(s) + i] = t[i]
<1> DEFINE k == Len(s)
           l == Len(t)
<1>1. k \in Nat /\ l \in Nat
  BY LenProperties
<1>2. /\ s \o t \in Seq(S) /\ Len(s \o t) = k + l
      /\ \A i \in 1..(k + l) : (s \o t)[i] = IF i <= k THEN s[i] ELSE t[i - k]
  BY ConcatProperties
<1> HIDE DEF k, l
<1>3. ASSUME NEW i \in 1..k PROVE (s \o t)[i] = s[i]
  BY <1>1, <1>2
<1>4. ASSUME NEW i \in 1..l PROVE (s \o t)[k + i] = t[i]
  <2>1. k + i \in 1..(k + l) /\ ~(k + i <= k) /\ (k + i) - k = i
    BY <1>1
  <2> QED BY <1>2, <2>1
<1> QED BY <1>2, <1>3, <1>4 DEF k, l

(* A part of a sequence.                                                    *)
LEMMA Part ==
  ASSUME NEW S, NEW s \in Seq(S), NEW o \in Nat, NEW l \in Nat, o + l <= Len(s)
  PROVE  /\ SubSeq(s, o + 1, o + l) \in Seq(S)
         /\ Len(SubSeq(s, o + 1, o + l)) = l
         /\ \A i \in 1..l : SubSeq(s, o + 1, o + l)[i] = s[o + i]
<1> DEFINE t == SubSeq(s, o + 1, o + l)
<1>1. Len(s) \in Nat /\ \A i \in 1..Len(s) : s[i] \in S
  BY LenProperties, ElementOfSeq
<1>2. \A i \in (o + 1)..(o + l) : s[i] \in S
  BY <1>1
<1>3. /\ t \in Seq(S)
      /\ Len(t) = IF o + 1 <= o + l THEN ((o + l) - (o + 1)) + 1 ELSE 0
      /\ \A i \in 1..(((o + l) - (o + 1)) + 1) : t[i] = s[((o + 1) + i) - 1]
  BY <1>2, SubSeqProperties
<1> HIDE DEF t
<1>4. Len(t) = l
  BY <1>3
<1>5. ASSUME NEW i \in 1..l PROVE t[i] = s[o + i]
  <2>1. i \in 1..(((o + l) - (o + 1)) + 1) /\ ((o + 1) + i) - 1 = o + i
    OBVIOUS
  <2> QED BY <1>3, <2>1
<1> QED BY <1>3, <1>4, <1>5 DEF t

(* What makes a sequence a part of another.                                 *)
LEMMA IsPart ==
  ASSUME NEW S, NEW s \in Seq(S), NEW o \in Nat, NEW t \in Seq(S), o + Len(t) <= Len(s),
         \A i \in 1..Len(t) : s[o + i] = t[i]
  PROVE  SubSeq(s, o + 1, o + Len(t)) = t
<1>1. Len(t) \in Nat
  BY LenProperties
<1> QED BY <1>1, Part, SeqEqual
-----------------------------------------------------------------------------
(* The lists of fields.                                                     *)

IsField(f) ==
  /\ f.name # "type"
  /\ \/ f.kind = "Int" /\ f.size \in {2, 4, 8}
     \/ f.kind = "Raw" /\ f.size \in Nat
     \/ f.kind = "Text" /\ f.size \in Nat /\ f.size < Word

(* Fields whose names tell them apart.                                      *)
IsFieldList(fields) ==
  /\ Len(fields) \in Nat /\ DOMAIN fields = 1..Len(fields)
  /\ \A n \in 1..Len(fields) : IsField(fields[n])
  /\ \A m, n \in 1..Len(fields) : fields[m].name = fields[n].name => m = n

(* The lists made of shorter ones.                                          *)
LEMMA ThreeAndThree ==
  ASSUME NEW a, NEW b, NEW c, NEW d, NEW e, NEW f
  PROVE  <<a, b, c>> \o <<d, e, f>> = <<a, b, c, d, e, f>>
<1> DEFINE s == <<a, b, c>>
           t == <<d, e, f>>
           u == <<a, b, c, d, e, f>>
           S == {a, b, c, d, e, f}
<1>1. s \in Seq(S) /\ t \in Seq(S) /\ u \in Seq(S) /\ Len(u) = Len(s) + Len(t)
  OBVIOUS
<1>2. /\ \A i \in 1..Len(s) : u[i] = s[i]
      /\ \A i \in 1..Len(t) : u[Len(s) + i] = t[i]
  OBVIOUS
<1>3. s \o t = u
  <2> HIDE DEF s, t, u, S
  <2> QED BY <1>1, <1>2, IsConcatenation
<1> QED BY <1>3

LEMMA OneAndThree ==
  ASSUME NEW a, NEW b, NEW c, NEW d
  PROVE  <<a>> \o <<b, c, d>> = <<a, b, c, d>>
<1> DEFINE s == <<a>>
           t == <<b, c, d>>
           u == <<a, b, c, d>>
           S == {a, b, c, d}
<1>1. s \in Seq(S) /\ t \in Seq(S) /\ u \in Seq(S) /\ Len(u) = Len(s) + Len(t)
  OBVIOUS
<1>2. /\ \A i \in 1..Len(s) : u[i] = s[i]
      /\ \A i \in 1..Len(t) : u[Len(s) + i] = t[i]
  OBVIOUS
<1>3. s \o t = u
  <2> HIDE DEF s, t, u, S
  <2> QED BY <1>1, <1>2, IsConcatenation
<1> QED BY <1>3

LEMMA FourAndTwo ==
  ASSUME NEW a, NEW b, NEW c, NEW d, NEW e, NEW f
  PROVE  <<a, b, c, d>> \o <<e, f>> = <<a, b, c, d, e, f>>
<1> DEFINE s == <<a, b, c, d>>
           t == <<e, f>>
           u == <<a, b, c, d, e, f>>
           S == {a, b, c, d, e, f}
<1>1. s \in Seq(S) /\ t \in Seq(S) /\ u \in Seq(S) /\ Len(u) = Len(s) + Len(t)
  OBVIOUS
<1>2. /\ \A i \in 1..Len(s) : u[i] = s[i]
      /\ \A i \in 1..Len(t) : u[Len(s) + i] = t[i]
  OBVIOUS
<1>3. s \o t = u
  <2> HIDE DEF s, t, u, S
  <2> QED BY <1>1, <1>2, IsConcatenation
<1> QED BY <1>3

LEMMA TwoAndSix ==
  ASSUME NEW a, NEW b, NEW c, NEW d, NEW e, NEW f, NEW g, NEW h
  PROVE  <<a, b>> \o <<c, d, e, f, g, h>> = <<a, b, c, d, e, f, g, h>>
<1> DEFINE s == <<a, b>>
           t == <<c, d, e, f, g, h>>
           u == <<a, b, c, d, e, f, g, h>>
           S == {a, b, c, d, e, f, g, h}
<1>1. s \in Seq(S) /\ t \in Seq(S) /\ u \in Seq(S) /\ Len(u) = Len(s) + Len(t)
  OBVIOUS
<1>2. /\ \A i \in 1..Len(s) : u[i] = s[i]
      /\ \A i \in 1..Len(t) : u[Len(s) + i] = t[i]
  OBVIOUS
<1>3. s \o t = u
  <2> HIDE DEF s, t, u, S
  <2> QED BY <1>1, <1>2, IsConcatenation
<1> QED BY <1>3

LEMMA HelloFields ==
  Written.Hello = <<U16("major"), U16("minor"), U16("patch"),
                    U16("protocol"), U16("samp"), U32("flags")>>
BY ThreeAndThree DEF Written, RuntimeVersion

LEMMA WelcomeFields ==
  Written.Welcome = <<U16("accepted"), U16("major"), U16("minor"), U16("patch"),
                      U16("protocol"), U32("flags")>>
<1>1. Written.Welcome = (<<U16("accepted")>> \o <<U16("major"), U16("minor"), U16("patch")>>)
                           \o <<U16("protocol"), U32("flags")>>
  BY DEF Written, RuntimeVersion
<1>2. <<U16("accepted")>> \o <<U16("major"), U16("minor"), U16("patch")>>
        = <<U16("accepted"), U16("major"), U16("minor"), U16("patch")>>
  BY OneAndThree
<1>3. Written.Welcome = <<U16("accepted"), U16("major"), U16("minor"), U16("patch")>>
                           \o <<U16("protocol"), U32("flags")>>
  BY <1>1, <1>2
<1> QED BY <1>3, FourAndTwo

LEMMA AssetFields ==
  Written.ManifestAsset =
    <<U64("revision"), U32("index"), U32("assetId"), U16("assetType"),
      Text("name", MaximumNameLength), Text("url", MaximumUrlLength),
      U64("fileSize"), Raw("sha256", DigestSize)>>
BY TwoAndSix DEF Written, WriteAssetDescription

LEMMA TypeOfMessage ==
  ASSUME NEW n \in 1..10
  PROVE  /\ DOMAIN MessageTypes = 1..10
         /\ \A m : m.type = MessageTypes[n] => TypeOf(m) = n
<1>1. DOMAIN MessageTypes = 1..10
  BY DEF MessageTypes
<1>2. \A i, j \in 1..10 : MessageTypes[i] = MessageTypes[j] => i = j
  BY DEF MessageTypes
<1> QED BY <1>1, <1>2 DEF TypeOf

(* What is written is what is read, and a field is found by its name.       *)
LEMMA FieldLists ==
  ASSUME NEW n \in 1..10
  PROVE  /\ IsFieldList(Written[MessageTypes[n]])
         /\ Expected[MessageTypes[n]] = Written[MessageTypes[n]]
<1>1. Expected = Written
  BY DEF Expected, Written, ReadAssetDescription, WriteAssetDescription
<1>2. IsFieldList(Written.Hello)
  BY HelloFields DEF IsFieldList, IsField, U16, U32
<1>3. IsFieldList(Written.Welcome)
  BY WelcomeFields DEF IsFieldList, IsField, U16, U32
<1>4. IsFieldList(Written.Reject)
  BY DEF Written, IsFieldList, IsField, U16
<1>5. IsFieldList(Written.Ping) /\ IsFieldList(Written.Pong)
  BY DEF Written, IsFieldList, IsField, U64
<1>6. IsFieldList(Written.ManifestBegin) /\ IsFieldList(Written.ManifestEnd)
  BY DEF Written, Boundary, IsFieldList, IsField, U32, U64
<1>7. IsFieldList(Written.ManifestAsset)
  <2>1. /\ MaximumNameLength \in Nat /\ MaximumNameLength < Word
        /\ MaximumUrlLength \in Nat /\ MaximumUrlLength < Word
        /\ DigestSize \in Nat
    BY WireAssumption
  <2> DEFINE s == <<U64("revision"), U32("index"), U32("assetId"), U16("assetType"),
                    Text("name", MaximumNameLength), Text("url", MaximumUrlLength),
                    U64("fileSize"), Raw("sha256", DigestSize)>>
  <2>2. Len(s) = 8 /\ DOMAIN s = 1..8
    OBVIOUS
  <2>3. \A i \in 1..8 : IsField(s[i])
    BY <2>1 DEF IsField, U16, U32, U64, Text, Raw
  <2>4. \A i, j \in 1..8 : s[i].name = s[j].name => i = j
    BY DEF U16, U32, U64, Text, Raw
  <2>5. IsFieldList(s)
    <3> HIDE DEF s
    <3> QED BY <2>2, <2>3, <2>4 DEF IsFieldList
  <2> QED BY <2>5, AssetFields
<1>8. IsFieldList(Written.AssetReady)
  BY DEF Written, IsFieldList, IsField, U32, U64
<1>9. IsFieldList(Written.AssetError)
  BY DEF Written, IsFieldList, IsField, U16, U32, U64
<1>10. MessageTypes[n] \in {"Hello", "Welcome", "Reject", "Ping", "Pong", "ManifestBegin",
                            "ManifestAsset", "ManifestEnd", "AssetReady", "AssetError"}
  BY DEF MessageTypes
<1> QED BY <1>1, <1>2, <1>3, <1>4, <1>5, <1>6, <1>7, <1>8, <1>9, <1>10

-----------------------------------------------------------------------------
(* The recursive definitions.                                               *)

LEMMA BytesAfterIs ==
  ASSUME NEW fields, IsFieldList(fields), NEW m,
         \A n \in 1..Len(fields) : FieldBytes(fields[n], m[fields[n].name]) \in Seq(Byte)
  PROVE  /\ BytesAfter(fields, m)[0] = <<>>
         /\ \A n \in 1..Len(fields) :
              BytesAfter(fields, m)[n]
                = BytesAfter(fields, m)[n - 1] \o FieldBytes(fields[n], m[fields[n].name])
         /\ \A n \in 0..Len(fields) : BytesAfter(fields, m)[n] \in Seq(Byte)
<1> DEFINE k == Len(fields)
           Written1(n) == FieldBytes(fields[n], m[fields[n].name])
           step == [x \in (1..k) \X Seq(Byte) |-> x[2] \o Written1(x[1])]
           IsAfter(f) == f = [n \in 0..k |-> IF n = 0 THEN <<>> ELSE f[n - 1] \o Written1(n)]
           B == BytesAfter(fields, m)
<1>1. k \in Nat
  BY DEF IsFieldList
<1> HIDE DEF k
<1>2. \A n \in 1..k : Written1(n) \in Seq(Byte)
  BY DEF k
<1> HIDE DEF Written1
<1>3. step \in [(1..k) \X Seq(Byte) -> Seq(Byte)] /\ <<>> \in Seq(Byte)
  BY <1>2, Joined
<1>4. \A n \in 1..k : \A t \in Seq(Byte) : step[<<n, t>>] = t \o Written1(n)
  OBVIOUS
<1> HIDE DEF step
<1>5. PICK f \in [0..k -> Seq(Byte)] : IsIteration(f, k, <<>>, step)
  BY <1>1, <1>3, Iteration
<1>6. ASSUME NEW n \in 0..k
      PROVE  f[n] = IF n = 0 THEN <<>> ELSE f[n - 1] \o Written1(n)
  <2>1. f[n] = IF n = 0 THEN <<>> ELSE step[<<n, f[n - 1]>>]
    BY <1>5, Zenon DEF IsIteration
  <2>2. CASE n = 0
    BY <2>1, <2>2
  <2>3. CASE n # 0
    <3>1. n \in 1..k /\ f[n - 1] \in Seq(Byte)
      BY <1>1, <1>5, <2>3
    <3> QED BY <1>4, <2>1, <2>3, <3>1
  <2> QED BY <2>2, <2>3
<1>7. IsAfter(f)
  BY <1>5, <1>6
<1>8. B = CHOOSE g : IsAfter(g)
  BY DEF BytesAfter, k, Written1
<1> HIDE DEF IsAfter, B
<1>9. IsAfter(B)
  BY <1>7, <1>8, Zenon
<1>10. B[0] = <<>> /\ \A n \in 1..k : B[n] = B[n - 1] \o Written1(n)
  <2>1. ASSUME NEW n \in 0..k
        PROVE  B[n] = IF n = 0 THEN <<>> ELSE B[n - 1] \o Written1(n)
    BY <1>9, Zenon DEF IsAfter
  <2>2. 0 \in 0..k /\ \A n \in 1..k : n \in 0..k /\ n # 0
    BY <1>1
  <2> QED BY <2>1, <2>2, Zenon
<1> DEFINE G == {n \in 0..k : B[n] \in Seq(Byte)}
<1>11. 0 \in G
  <2>1. 0 \in 0..k /\ B[0] \in Seq(Byte)
    BY <1>1, <1>10, EmptySeq
  <2> QED BY <2>1
<1>12. ASSUME NEW n \in 1..k, n - 1 \in G PROVE n \in G
  <2>1. B[n - 1] \in Seq(Byte) /\ Written1(n) \in Seq(Byte) /\ n \in 0..k
    BY <1>1, <1>2, <1>12
  <2>2. B[n - 1] \o Written1(n) \in Seq(Byte)
    BY <2>1, ConcatProperties
  <2> QED BY <1>10, <2>1, <2>2
<1>13. G = 0..k
  BY <1>1, <1>11, <1>12, Upwards
<1> QED BY <1>10, <1>13 DEF B, k, Written1

LEMMA ExtentType ==
  ASSUME NEW f, IsField(f), NEW bytes \in Seq(Byte), NEW o \in Nat
  PROVE  Extent(f, bytes, o) \in Nat
<1>1. Len(bytes) \in Nat
  BY LenProperties
<1>2. CASE f.kind # "Text"
  BY <1>2 DEF Extent, IsField
<1>3. CASE f.kind = "Text" /\ o + 2 <= Len(bytes)
  <2>1. \A i \in 1..2 : bytes[o + i] \in Byte
    <3> TAKE i \in 1..2
    <3>1. o + i \in 1..Len(bytes)
      BY <1>1, <1>3
    <3> QED BY <3>1, ElementOfSeq
  <2>2. Value16(bytes, o) \in Nat
    BY <2>1, Read16, BaseIsPositive
  <2> QED BY <1>1, <1>3, <2>2 DEF Extent
<1> QED BY <1>1, <1>2, <1>3 DEF Extent

LEMMA OffsetsAfterIs ==
  ASSUME NEW fields, IsFieldList(fields), NEW bytes \in Seq(Byte)
  PROVE  /\ OffsetsAfter(fields, bytes)[0] = 0
         /\ \A n \in 1..Len(fields) :
              OffsetsAfter(fields, bytes)[n]
                = OffsetsAfter(fields, bytes)[n - 1]
                    + Extent(fields[n], bytes, OffsetsAfter(fields, bytes)[n - 1])
         /\ \A n \in 0..Len(fields) : OffsetsAfter(fields, bytes)[n] \in Nat
<1> DEFINE k == Len(fields)
           Taken(n, o) == Extent(fields[n], bytes, o)
           step == [x \in (1..k) \X Nat |-> x[2] + Taken(x[1], x[2])]
           IsAfter(f) == f = [n \in 0..k |-> IF n = 0 THEN 0
                                             ELSE f[n - 1] + Taken(n, f[n - 1])]
           O == OffsetsAfter(fields, bytes)
<1>1. k \in Nat
  BY DEF IsFieldList
<1>2. \A n \in 1..k : \A o \in Nat : Taken(n, o) \in Nat
  BY ExtentType DEF IsFieldList
<1> HIDE DEF k, Taken
<1>3. step \in [(1..k) \X Nat -> Nat]
  <2>1. ASSUME NEW x \in (1..k) \X Nat PROVE x[2] + Taken(x[1], x[2]) \in Nat
    <3>1. x[1] \in 1..k /\ x[2] \in Nat
      OBVIOUS
    <3>2. Taken(x[1], x[2]) \in Nat
      BY <1>2, <3>1
    <3> QED BY <3>1, <3>2
  <2> QED BY <2>1
<1>4. \A n \in 1..k : \A o \in Nat : step[<<n, o>>] = o + Taken(n, o)
  OBVIOUS
<1> HIDE DEF step
<1>5. PICK f \in [0..k -> Nat] : IsIteration(f, k, 0, step)
  BY <1>1, <1>3, Iteration
<1>6. ASSUME NEW n \in 0..k
      PROVE  f[n] = IF n = 0 THEN 0 ELSE f[n - 1] + Taken(n, f[n - 1])
  <2>1. f[n] = IF n = 0 THEN 0 ELSE step[<<n, f[n - 1]>>]
    BY <1>5, Zenon DEF IsIteration
  <2>2. CASE n = 0
    BY <2>1, <2>2
  <2>3. CASE n # 0
    <3>1. n \in 1..k /\ f[n - 1] \in Nat
      BY <1>1, <1>5, <2>3
    <3> QED BY <1>4, <2>1, <2>3, <3>1
  <2> QED BY <2>2, <2>3
<1>7. IsAfter(f)
  BY <1>5, <1>6
<1>8. O = CHOOSE g : IsAfter(g)
  BY DEF OffsetsAfter, k, Taken
<1> HIDE DEF IsAfter, O
<1>9. IsAfter(O)
  BY <1>7, <1>8, Zenon
<1>10. O[0] = 0 /\ \A n \in 1..k : O[n] = O[n - 1] + Taken(n, O[n - 1])
  <2>1. ASSUME NEW n \in 0..k
        PROVE  O[n] = IF n = 0 THEN 0 ELSE O[n - 1] + Taken(n, O[n - 1])
    BY <1>9, Zenon DEF IsAfter
  <2>2. 0 \in 0..k /\ \A n \in 1..k : n \in 0..k /\ n # 0
    BY <1>1
  <2> QED BY <2>1, <2>2, Zenon
<1> DEFINE G == {n \in 0..k : O[n] \in Nat}
<1>11. 0 \in G
  BY <1>1, <1>10
<1>12. ASSUME NEW n \in 1..k, n - 1 \in G PROVE n \in G
  <2>1. O[n - 1] \in Nat /\ n \in 0..k
    BY <1>1, <1>12
  <2>2. Taken(n, O[n - 1]) \in Nat
    BY <1>2, <2>1
  <2> QED BY <1>10, <2>1, <2>2
<1>13. G = 0..k
  BY <1>1, <1>11, <1>12, Upwards
<1> QED BY <1>10, <1>13 DEF O, k, Taken
-----------------------------------------------------------------------------
(* One field.                                                               *)

(* The values a field arrives with.                                         *)
Carries(f, v) ==
  \/ f.kind = "Int" /\ v \in 0..(Limit(f.size) - 1)
  \/ f.kind = "Raw" /\ v \in [1..f.size -> Byte]
  \/ f.kind = "Text" /\ v \in Seq(Byte) /\ Len(v) <= f.size

LEMMA FieldWritten ==
  ASSUME NEW f, IsField(f), NEW v, Carries(f, v)
  PROVE  /\ FieldBytes(f, v) \in Seq(Byte)
         /\ Len(FieldBytes(f, v)) = IF f.kind = "Text" THEN 2 + Len(v) ELSE f.size
<1>1. CASE f.kind = "Int"
  <2>1. f.size \in {2, 4, 8} /\ v \in 0..(Limit(f.size) - 1)
    BY <1>1 DEF IsField, Carries
  <2>2. FieldBytes(f, v) = BytesOf(v, f.size)
    BY <1>1 DEF FieldBytes
  <2>3. BytesOf(v, f.size) \in [1..f.size -> Byte]
    BY <2>1, WriteInteger, Zenon
  <2>4. f.size \in Nat
    BY <2>1
  <2> QED BY <1>1, <2>2, <2>3, <2>4
<1>2. CASE f.kind = "Raw"
  BY <1>2 DEF IsField, Carries, FieldBytes
<1>3. CASE f.kind = "Text"
  <2>1. v \in Seq(Byte) /\ Len(v) \in 0..(Word - 1)
    <3>1. v \in Seq(Byte) /\ Len(v) <= f.size /\ f.size \in Nat /\ f.size < Word
      BY <1>3 DEF IsField, Carries
    <3> QED BY <3>1, LenProperties, BaseIsPositive
  <2>2. Bytes16(Len(v)) \in Seq(Byte) /\ Len(Bytes16(Len(v))) = 2
    BY <2>1, Bytes16IsSequence, Zenon
  <2>3. FieldBytes(f, v) = Bytes16(Len(v)) \o v
    BY <1>3 DEF FieldBytes
  <2> DEFINE head == Bytes16(Len(v))
  <2> HIDE DEF head
  <2>4. head \in Seq(Byte) /\ Len(head) = 2 /\ FieldBytes(f, v) = head \o v
    BY <2>2, <2>3 DEF head
  <2>5. head \o v \in Seq(Byte) /\ Len(head \o v) = Len(head) + Len(v)
    BY <2>1, <2>4, Joined
  <2> QED BY <1>3, <2>4, <2>5
<1> QED BY <1>1, <1>2, <1>3 DEF IsField

(* A field is read as it was written, wherever its bytes are.               *)
LEMMA FieldArrives ==
  ASSUME NEW f, IsField(f), NEW v, Carries(f, v), NEW P \in Seq(Byte), NEW o \in Nat,
         o + Len(FieldBytes(f, v)) <= Len(P),
         \A i \in 1..Len(FieldBytes(f, v)) : P[o + i] = FieldBytes(f, v)[i]
  PROVE  Extent(f, P, o) = Len(FieldBytes(f, v)) /\ ReadField(f, P, o) = v
<1>1. CASE f.kind = "Int"
  <2>1. f.size \in {2, 4, 8} /\ v \in 0..(Limit(f.size) - 1)
    BY <1>1 DEF IsField, Carries
  <2>2. FieldBytes(f, v) = BytesOf(v, f.size) /\ Len(FieldBytes(f, v)) = f.size
    BY <1>1, FieldWritten DEF FieldBytes
  <2>3. \A i \in 1..f.size : P[o + i] = BytesOf(v, f.size)[i]
    BY <2>2
  <2>4. ValueAt(P, o, f.size) = v
    BY <2>1, <2>3, WriteInteger
  <2> QED BY <1>1, <2>2, <2>4 DEF Extent, ReadField
<1>2. CASE f.kind = "Raw"
  <2>1. f.size \in Nat /\ v \in [1..f.size -> Byte]
    BY <1>2 DEF IsField, Carries
  <2>2. FieldBytes(f, v) = v /\ v \in Seq(Byte) /\ Len(v) = f.size
    BY <1>2, <2>1 DEF FieldBytes
  <2>3. SubSeq(P, o + 1, o + Len(v)) = v
    BY <2>2, IsPart
  <2> QED BY <1>2, <2>2, <2>3 DEF Extent, ReadField
<1>3. CASE f.kind = "Text"
  <2> DEFINE head == Bytes16(Len(v))
  <2>1. v \in Seq(Byte) /\ Len(v) \in 0..(Word - 1) /\ Len(v) <= f.size /\ f.size \in Nat
    <3>1. v \in Seq(Byte) /\ Len(v) <= f.size /\ f.size \in Nat /\ f.size < Word
      BY <1>3 DEF IsField, Carries
    <3> QED BY <3>1, LenProperties, BaseIsPositive
  <2>2. head \in Seq(Byte) /\ Len(head) = 2
    BY <2>1, Bytes16IsSequence, Zenon
  <2>3. FieldBytes(f, v) = head \o v
    BY <1>3 DEF FieldBytes
  <2>4. Len(FieldBytes(f, v)) = 2 + Len(v)
    BY <1>3, FieldWritten
  <2>5. Len(P) \in Nat /\ o + (2 + Len(v)) <= Len(P)
    BY <2>4, LenProperties
  <2> HIDE DEF head
  <2>6. /\ \A i \in 1..Len(head) : (head \o v)[i] = head[i]
        /\ \A i \in 1..Len(v) : (head \o v)[Len(head) + i] = v[i]
    <3>1. v \in Seq(Byte) /\ head \in Seq(Byte)
      BY <2>1, <2>2
    <3> QED BY <3>1, Joined
  <2>7. Value16(P, o) = Len(v)
    <3>1. ASSUME NEW i \in 1..2 PROVE P[o + i] = head[i]
      <4>1. i \in 1..Len(head) /\ i \in 1..(2 + Len(v))
        BY <2>1, <2>2
      <4> QED BY <2>3, <2>4, <2>6, <4>1
    <3> QED BY <2>1, <3>1, Write16, Zenon DEF head
  <2>8. ASSUME NEW i \in 1..Len(v) PROVE P[(o + 2) + i] = v[i]
    <3>1. 2 + i \in 1..(2 + Len(v)) /\ (o + 2) + i = o + (2 + i)
      BY <2>1
    <3>2. (head \o v)[2 + i] = v[i]
      BY <2>2, <2>6
    <3> QED BY <2>3, <2>4, <3>1, <3>2
  <2>9. Extent(f, P, o) = 2 + Len(v)
    BY <1>3, <2>1, <2>5, <2>7 DEF Extent
  <2>10. SubSeq(P, (o + 2) + 1, (o + 2) + Len(v)) = v
    BY <2>1, <2>5, <2>8, IsPart
  <2>11. (o + 2) + 1 = o + 3 /\ (o + 2) + Len(v) = o + (2 + Len(v))
    BY <2>1
  <2>12. ReadField(f, P, o) = SubSeq(P, o + 3, o + (2 + Len(v)))
    BY <1>3, <2>9 DEF ReadField
  <2> QED BY <2>4, <2>9, <2>10, <2>11, <2>12
<1> QED BY <1>1, <1>2, <1>3 DEF IsField

(* The bytes of a field that is read are those it would be written with.    *)
LEMMA FieldRead ==
  ASSUME NEW f, IsField(f), NEW P \in Seq(Byte), NEW o \in Nat,
         o + Extent(f, P, o) <= Len(P)
  PROVE  /\ Carries(f, ReadField(f, P, o))
         /\ FieldBytes(f, ReadField(f, P, o)) = SubSeq(P, o + 1, o + Extent(f, P, o))
<1>1. Len(P) \in Nat
  BY LenProperties
<1> DEFINE v == ReadField(f, P, o)
<1>2. CASE f.kind = "Int"
  <2>1. f.size \in {2, 4, 8} /\ Extent(f, P, o) = f.size /\ v = ValueAt(P, o, f.size)
    BY <1>2 DEF IsField, Extent, ReadField
  <2>2. ASSUME NEW i \in 1..f.size PROVE P[o + i] \in Byte
    <3>1. o + i \in 1..Len(P)
      BY <1>1, <2>1
    <3> QED BY <3>1, ElementOfSeq
  <2> HIDE DEF v
  <2> DEFINE b == BytesOf(v, f.size)
  <2>3. v \in 0..(Limit(f.size) - 1) /\ \A i \in 1..f.size : b[i] = P[o + i]
    <3>1. /\ ValueAt(P, o, f.size) \in 0..(Limit(f.size) - 1)
          /\ \A i \in 1..f.size : BytesOf(ValueAt(P, o, f.size), f.size)[i] = P[o + i]
      <4>1. PICK width \in {2, 4, 8} : f.size = width
        BY <2>1
      <4>2. \A i \in 1..width : P[o + i] \in Byte
        BY <2>2, <4>1
      <4>3. /\ ValueAt(P, o, width) \in 0..(Limit(width) - 1)
            /\ \A i \in 1..width : BytesOf(ValueAt(P, o, width), width)[i] = P[o + i]
        BY <4>2, ReadInteger, ZenonT(40)
      <4> QED BY <4>1, <4>3, Zenon
    <3> QED BY <2>1, <3>1, Zenon
  <2>4. Carries(f, v)
    BY <1>2, <2>3 DEF Carries
  <2>5. b \in [1..f.size -> Byte] /\ f.size \in Nat
    <3>1. b \in [1..f.size -> Byte]
      BY <2>1, <2>3, WriteInteger, Zenon
    <3> QED BY <2>1, <3>1
  <2> HIDE DEF b
  <2>6. b \in Seq(Byte) /\ Len(b) = f.size
    BY <2>5, BytesAreSequence
  <2>7. SubSeq(P, o + 1, o + Len(b)) = b
    BY <2>1, <2>3, <2>6, IsPart
  <2>8. FieldBytes(f, v) = b
    BY <1>2 DEF FieldBytes, b
  <2> QED BY <2>1, <2>4, <2>6, <2>7, <2>8 DEF v
<1>3. CASE f.kind = "Raw"
  <2>1. f.size \in Nat /\ Extent(f, P, o) = f.size /\ v = SubSeq(P, o + 1, o + f.size)
    BY <1>3 DEF IsField, Extent, ReadField
  <2> HIDE DEF v
  <2>2. v \in Seq(Byte) /\ Len(v) = f.size
    BY <2>1, Part
  <2>3. v \in [1..f.size -> Byte]
    BY <2>2, LenProperties
  <2> QED BY <1>3, <2>1, <2>3 DEF Carries, FieldBytes, v
<1>4. CASE f.kind = "Text"
  <2> DEFINE length == Value16(P, o)
  <2>1. f.size \in Nat /\ f.size < Word
    BY <1>4 DEF IsField
  <2>2. o + 2 <= Len(P)
    BY <1>1, <1>4 DEF Extent
  <2>3. ASSUME NEW i \in 1..2 PROVE P[o + i] \in Byte
    <3>1. o + i \in 1..Len(P)
      BY <1>1, <2>2
    <3> QED BY <3>1, ElementOfSeq
  <2>4. length \in 0..(Word - 1) /\ Bytes16(length) = [i \in 1..2 |-> P[o + i]]
    BY <2>3, Read16
  <2>5. length \in Nat
    BY <2>4, BaseIsPositive
  <2> HIDE DEF length
  <2>6. length <= f.size /\ Extent(f, P, o) = 2 + length
    BY <1>1, <1>4, <2>1, <2>2, <2>5 DEF Extent, length
  <2>7. (o + 2) + 1 = o + 3 /\ (o + 2) + length = o + (2 + length)
    BY <2>5
  <2>8. v = SubSeq(P, (o + 2) + 1, (o + 2) + length)
    BY <1>4, <2>6, <2>7 DEF ReadField
  <2>9. (o + 2) + length <= Len(P)
    BY <1>1, <2>5, <2>6
  <2> HIDE DEF v
  <2>10. /\ v \in Seq(Byte) /\ Len(v) = length
         /\ \A i \in 1..length : v[i] = P[(o + 2) + i]
    BY <2>5, <2>8, <2>9, Part
  <2>11. Carries(f, v)
    BY <1>4, <2>6, <2>10 DEF Carries
  <2>12. FieldBytes(f, v) = Bytes16(length) \o v
    BY <1>4, <2>10 DEF FieldBytes
  <2> DEFINE head == Bytes16(length)
             t == SubSeq(P, o + 1, o + (2 + length))
  <2>13. head \in Seq(Byte) /\ Len(head) = 2 /\ head[1] = P[o + 1] /\ head[2] = P[o + 2]
    BY <2>4, Write16
  <2>14. /\ t \in Seq(Byte) /\ Len(t) = 2 + length
         /\ \A i \in 1..(2 + length) : t[i] = P[o + i]
    BY <2>5, <2>7, <2>9, Part
  <2> HIDE DEF head, t
  <2>15. \A i \in 1..Len(head) : t[i] = head[i]
    BY <2>5, <2>13, <2>14
  <2>16. ASSUME NEW i \in 1..Len(v) PROVE t[Len(head) + i] = v[i]
    <3>1. 2 + i \in 1..(2 + length) /\ o + (2 + i) = (o + 2) + i /\ i \in 1..length
      BY <2>5, <2>10
    <3> QED BY <2>10, <2>13, <2>14, <3>1
  <2>17. head \o v = t
    <3>1. Len(t) = Len(head) + Len(v)
      BY <2>10, <2>13, <2>14
    <3> QED BY <2>10, <2>13, <2>14, <2>15, <2>16, <3>1, IsConcatenation, Zenon
  <2> QED BY <2>6, <2>11, <2>12, <2>17 DEF head, t, v
<1> QED BY <1>2, <1>3, <1>4 DEF IsField

-----------------------------------------------------------------------------
(* All the fields of a message.                                             *)

CarriesAll(fields, m) ==
  \A n \in 1..Len(fields) : Carries(fields[n], m[fields[n].name])

LEMMA Appended ==
  ASSUME NEW b, NEW f, NEW c, b \in Seq(Byte) /\ f \in Seq(Byte) /\ c = b \o f
  PROVE  /\ Len(b) \in Nat /\ Len(f) \in Nat /\ Len(c) = Len(b) + Len(f)
         /\ \A i \in 1..Len(b) : c[i] = b[i]
         /\ \A i \in 1..Len(f) : c[Len(b) + i] = f[i]
<1>1. b \in Seq(Byte) /\ f \in Seq(Byte)
  OBVIOUS
<1>2. /\ Len(b \o f) = Len(b) + Len(f)
      /\ \A i \in 1..Len(b) : (b \o f)[i] = b[i]
      /\ \A i \in 1..Len(f) : (b \o f)[Len(b) + i] = f[i]
  BY <1>1, Joined
<1> QED BY <1>1, <1>2, LenProperties

(* B holds the bytes of the first n parts F for every n.                    *)
Grows(k, B, F) ==
  /\ k \in Nat
  /\ \A n \in 1..k : F[n] \in Seq(Byte) /\ B[n] = B[n - 1] \o F[n]
  /\ \A n \in 0..k : B[n] \in Seq(Byte)

(* What has been written stays as it is.                                    *)
LEMMA Prefixes ==
  ASSUME NEW k, NEW B, NEW F, Grows(k, B, F), NEW n \in 0..k
  PROVE  Len(B[n]) <= Len(B[k]) /\ \A i \in 1..Len(B[n]) : B[k][i] = B[n][i]
<1> DEFINE Keeps(j) == Len(B[n]) <= Len(B[j]) /\ \A i \in 1..Len(B[n]) : B[j][i] = B[n][i]
           G == {j \in 0..k : n <= j => Keeps(j)}
<1>1. k \in Nat /\ \A j \in 0..k : Len(B[j]) \in Nat
  BY LenProperties DEF Grows
<1>2. 0 \in G
  BY <1>1
<1>3. ASSUME NEW j \in 1..k, j - 1 \in G PROVE j \in G
  <2>1. CASE j <= n
    BY <1>1, <2>1
  <2>2. CASE j > n
    <3>1. Keeps(j - 1)
      BY <1>1, <1>3, <2>2
    <3> DEFINE a == B[n]
               b == B[j - 1]
               c == B[j]
               f == F[j]
    <3>2. b \in Seq(Byte) /\ f \in Seq(Byte) /\ c = b \o f
      <4>1. j \in 1..k /\ j - 1 \in 0..k
        BY <1>1
      <4> QED BY <4>1, Zenon DEF Grows
    <3>3. Len(a) \in Nat /\ Len(a) <= Len(b) /\ \A i \in 1..Len(a) : b[i] = a[i]
      BY <1>1, <3>1
    <3> HIDE DEF a, b, c, f
    <3>4. /\ Len(b) \in Nat /\ Len(f) \in Nat /\ Len(c) = Len(b) + Len(f)
          /\ \A i \in 1..Len(b) : c[i] = b[i]
      BY <3>2, Appended
    <3>5. Len(a) <= Len(c) /\ \A i \in 1..Len(a) : c[i] = a[i]
      BY <3>3, <3>4
    <3>6. Keeps(j)
      BY <3>5 DEF a, c
    <3> QED BY <1>1, <3>6
  <2> QED BY <1>1, <2>1, <2>2
<1>4. G \in SUBSET (0..k) /\ \A j \in G : n <= j => Keeps(j)
  OBVIOUS
<1> HIDE DEF G, Keeps
<1>5. G = 0..k
  BY <1>1, <1>2, <1>3, <1>4, Upwards
<1>6. Keeps(k)
  BY <1>1, <1>4, <1>5
<1> QED BY <1>6 DEF Keeps

(* The reader never goes back.                                              *)
LEMMA Offsets ==
  ASSUME NEW k \in Nat, NEW O,
         \A n \in 0..k : O[n] \in Nat,
         \A n \in 1..k : O[n - 1] <= O[n],
         NEW n \in 0..k
  PROVE  O[n] <= O[k]
<1> DEFINE G == {j \in 0..k : n <= j => O[n] <= O[j]}
<1>1. 0 \in G
  OBVIOUS
<1>2. ASSUME NEW j \in 1..k, j - 1 \in G PROVE j \in G
  <2>1. CASE j <= n
    BY <2>1
  <2>2. CASE j > n
    BY <1>2, <2>2
  <2> QED BY <2>1, <2>2
<1>3. G \in SUBSET (0..k) /\ \A j \in G : n <= j => O[n] <= O[j]
  OBVIOUS
<1> HIDE DEF G
<1>4. G = 0..k
  BY <1>1, <1>2, <1>3, Upwards
<1> QED BY <1>3, <1>4

(* Message m holds what a reader takes from the bytes.                      *)
Reads(m, fields, bytes) ==
  \A n \in 1..Len(fields) :
    m[fields[n].name] = ReadField(fields[n], bytes, OffsetsAfter(fields, bytes)[n - 1])

(* What is written is read.                                                 *)
LEMMA AllArrive ==
  ASSUME NEW fields, IsFieldList(fields), NEW m, CarriesAll(fields, m),
         NEW P, P = BytesAfter(fields, m)[Len(fields)]
  PROVE  /\ P \in Seq(Byte) /\ OffsetsAfter(fields, P)[Len(fields)] = Len(P)
         /\ Reads(m, fields, P)
<1> DEFINE k == Len(fields)
           F == [n \in 1..k |-> FieldBytes(fields[n], m[fields[n].name])]
           B == BytesAfter(fields, m)
           O == OffsetsAfter(fields, P)
<1>1. k \in Nat /\ \A n \in 1..k : IsField(fields[n])
  BY DEF IsFieldList
<1>2. \A n \in 1..k : F[n] \in Seq(Byte)
  BY <1>1, FieldWritten DEF CarriesAll
<1>3. B[0] = <<>> /\ Grows(k, B, F)
  <2>1. /\ B[0] = <<>>
        /\ \A n \in 1..k : B[n] = B[n - 1] \o F[n]
        /\ \A n \in 0..k : B[n] \in Seq(Byte)
    BY <1>2, BytesAfterIs
  <2> HIDE DEF B, F
  <2> QED BY <1>1, <1>2, <2>1 DEF Grows
<1>4. P \in Seq(Byte) /\ P = B[k]
  BY <1>1, <1>3 DEF Grows
<1>5. /\ O[0] = 0
      /\ \A n \in 1..k : O[n] = O[n - 1] + Extent(fields[n], P, O[n - 1])
      /\ \A n \in 0..k : O[n] \in Nat
  BY <1>4, OffsetsAfterIs
<1> HIDE DEF B, O
<1> DEFINE G == {n \in 0..k : O[n] = Len(B[n])}
<1>6. ASSUME NEW n \in 1..k, n - 1 \in G
      PROVE  /\ O[n] = Len(B[n])
             /\ ReadField(fields[n], P, O[n - 1]) = m[fields[n].name]
  <2> DEFINE f == fields[n]
             v == m[f.name]
             o == O[n - 1]
  <2>1. IsField(f) /\ Carries(f, v) /\ F[n] = FieldBytes(f, v)
    BY <1>1 DEF CarriesAll
  <2>2. n \in 0..k /\ n - 1 \in 0..k
    BY <1>1
  <2>3. o \in Nat /\ o = Len(B[n - 1])
    BY <1>5, <1>6, <2>2
  <2> DEFINE a == B[n - 1]
             b == B[n]
             g == F[n]
  <2>4. a \in Seq(Byte) /\ g \in Seq(Byte) /\ b = a \o g
    BY <1>3, <2>2, Zenon DEF Grows
  <2>5. Len(b) <= Len(P) /\ \A i \in 1..Len(b) : P[i] = b[i]
    BY <1>3, <1>4, <2>2, Prefixes
  <2>6. g = FieldBytes(f, v) /\ o = Len(a)
    BY <2>1, <2>3
  <2> HIDE DEF f, v, o, a, b, g
  <2>7. /\ Len(g) \in Nat /\ Len(b) = o + Len(g)
        /\ \A i \in 1..Len(g) : b[o + i] = g[i]
    BY <2>4, <2>6, Appended
  <2>8. Len(P) \in Nat /\ o + Len(g) <= Len(P)
    BY <1>4, <2>5, <2>7, LenProperties
  <2>9. ASSUME NEW i \in 1..Len(g) PROVE P[o + i] = g[i]
    <3>1. o + i \in 1..Len(b)
      BY <2>3, <2>7
    <3> QED BY <2>5, <2>7, <3>1
  <2>10. Extent(f, P, o) = Len(g) /\ ReadField(f, P, o) = v
    BY <1>4, <2>1, <2>3, <2>6, <2>8, <2>9, FieldArrives
  <2>11. O[n] = o + Extent(f, P, o)
    BY <1>5 DEF f, o
  <2>12. O[n] = Len(b)
    BY <2>7, <2>10, <2>11
  <2> QED BY <2>10, <2>12 DEF f, v, o, b
<1>7. 0 \in G
  BY <1>1, <1>3, <1>5, EmptySeq
<1>8. \A n \in 1..k : n - 1 \in G => n \in G
  BY <1>1, <1>6
<1>9. G \in SUBSET (0..k) /\ \A n \in G : O[n] = Len(B[n])
  OBVIOUS
<1> HIDE DEF G
<1>10. G = 0..k
  BY <1>1, <1>7, <1>8, <1>9, Upwards
<1>11. \A n \in 1..k : n - 1 \in G
  BY <1>1, <1>10
<1>12. \A n \in 1..k : m[fields[n].name] = ReadField(fields[n], P, O[n - 1])
  BY <1>6, <1>11
<1>13. O[k] = Len(P)
  BY <1>1, <1>4, <1>9, <1>10
<1> QED BY <1>4, <1>12, <1>13 DEF O, Reads

(* What is read would be written again.                                     *)
LEMMA AllRead ==
  ASSUME NEW fields, IsFieldList(fields), NEW P \in Seq(Byte), NEW m,
         OffsetsAfter(fields, P)[Len(fields)] = Len(P), Reads(m, fields, P)
  PROVE  CarriesAll(fields, m) /\ BytesAfter(fields, m)[Len(fields)] = P
<1> DEFINE k == Len(fields)
           F == [n \in 1..k |-> FieldBytes(fields[n], m[fields[n].name])]
           B == BytesAfter(fields, m)
           O == OffsetsAfter(fields, P)
<1>1. k \in Nat /\ (\A n \in 1..k : IsField(fields[n])) /\ Len(P) \in Nat
  BY LenProperties DEF IsFieldList
<1>2. /\ O[0] = 0
      /\ \A n \in 1..k : O[n] = O[n - 1] + Extent(fields[n], P, O[n - 1])
      /\ \A n \in 0..k : O[n] \in Nat
  BY OffsetsAfterIs
<1>3. O[k] = Len(P)
  OBVIOUS
<1>4. \A n \in 1..k : m[fields[n].name] = ReadField(fields[n], P, O[n - 1])
  BY DEF Reads
<1> HIDE DEF O
<1>5. \A n \in 1..k : /\ O[n - 1] \in Nat /\ Extent(fields[n], P, O[n - 1]) \in Nat
                      /\ O[n - 1] <= O[n]
  <2> TAKE n \in 1..k
  <2>1. n - 1 \in 0..k /\ O[n - 1] \in Nat
    BY <1>1, <1>2
  <2>2. Extent(fields[n], P, O[n - 1]) \in Nat
    BY <1>1, <2>1, ExtentType
  <2> QED BY <1>2, <2>1, <2>2
<1>6. \A n \in 0..k : O[n] <= Len(P)
  BY <1>1, <1>2, <1>3, <1>5, Offsets
<1>7. ASSUME NEW n \in 1..k
      PROVE  /\ Carries(fields[n], m[fields[n].name])
             /\ F[n] = SubSeq(P, O[n - 1] + 1, O[n])
  <2> DEFINE f == fields[n]
             o == O[n - 1]
             l == Extent(f, P, o)
             v == ReadField(f, P, o)
  <2>1. IsField(f) /\ o \in Nat /\ l \in Nat /\ O[n] = o + l /\ n \in 0..k
    BY <1>1, <1>2, <1>5
  <2>2. O[n] <= Len(P)
    BY <1>6, <2>1
  <2>3. m[fields[n].name] = v /\ F[n] = FieldBytes(f, v)
    BY <1>4
  <2> HIDE DEF f, o
  <2>4. Carries(f, v) /\ FieldBytes(f, v) = SubSeq(P, o + 1, o + l)
    BY <2>1, <2>2, FieldRead
  <2> HIDE DEF l, v, F
  <2> QED BY <2>1, <2>3, <2>4 DEF f, o
<1>8. CarriesAll(fields, m)
  BY <1>7 DEF CarriesAll
<1>9. \A n \in 1..k : F[n] \in Seq(Byte)
  BY <1>1, <1>8, FieldWritten DEF CarriesAll
<1>10. B[0] = <<>> /\ Grows(k, B, F)
  <2>1. /\ B[0] = <<>>
        /\ \A n \in 1..k : B[n] = B[n - 1] \o F[n]
        /\ \A n \in 0..k : B[n] \in Seq(Byte)
    BY <1>9, BytesAfterIs
  <2> HIDE DEF B, F
  <2> QED BY <1>1, <1>9, <2>1 DEF Grows
<1> DEFINE G == {n \in 0..k : B[n] = SubSeq(P, 1, O[n])}
<1> HIDE DEF B, F
<1>11. 0 \in G
  <2>1. SubSeq(P, 1, 0) = <<>>
    BY SubSeqEmpty
  <2>2. B[0] = <<>> /\ O[0] = 0 /\ 0 \in 0..k
    BY <1>1, <1>2, <1>10
  <2> QED BY <2>1, <2>2, Zenon
<1>12. ASSUME NEW n \in 1..k, n - 1 \in G PROVE n \in G
  <2> DEFINE a == B[n - 1]
             b == B[n]
             g == F[n]
             o == O[n - 1]
             l == Extent(fields[n], P, o)
             t == SubSeq(P, 0 + 1, 0 + (o + l))
  <2>1. n \in 0..k /\ n - 1 \in 0..k
    BY <1>1
  <2>2. a \in Seq(Byte) /\ g \in Seq(Byte) /\ b = a \o g
    BY <1>10, <2>1, Zenon DEF Grows
  <2>3. o \in Nat /\ l \in Nat /\ O[n] = o + l /\ o + l <= Len(P)
    BY <1>2, <1>5, <1>6, <2>1
  <2>4. a = SubSeq(P, 1, o) /\ g = SubSeq(P, o + 1, o + l)
    BY <1>7, <1>12, <2>3
  <2> HIDE DEF a, b, g, o, l
  <2>5. 0 + 1 = 1 /\ 0 + o = o /\ 0 + (o + l) = o + l /\ o <= Len(P) /\ o + l \in Nat
    BY <1>1, <2>3
  <2>6. /\ t \in Seq(Byte) /\ Len(t) = o + l
        /\ \A i \in 1..(o + l) : t[i] = P[0 + i]
    BY <2>3, <2>5, Part
  <2>7. Len(a) = o /\ \A i \in 1..o : a[i] = P[0 + i]
    <3>1. a = SubSeq(P, 0 + 1, 0 + o)
      BY <2>4, <2>5
    <3> QED BY <2>3, <2>5, <3>1, Part
  <2>8. Len(g) = l /\ \A i \in 1..l : g[i] = P[o + i]
    BY <2>3, <2>4, Part
  <2> HIDE DEF t
  <2>9. \A i \in 1..Len(a) : t[i] = a[i]
    BY <2>3, <2>6, <2>7
  <2>10. ASSUME NEW i \in 1..Len(g) PROVE t[Len(a) + i] = g[i]
    <3>1. o + i \in 1..(o + l) /\ 0 + (o + i) = o + i /\ i \in 1..l
      BY <2>3, <2>8
    <3> QED BY <2>6, <2>7, <2>8, <3>1
  <2>11. a \o g = t
    <3>1. a \in Seq(Byte) /\ g \in Seq(Byte) /\ t \in Seq(Byte) /\ Len(t) = Len(a) + Len(g)
      BY <2>2, <2>6, <2>7, <2>8
    <3> QED BY <2>9, <2>10, <3>1, IsConcatenation
  <2>12. b = SubSeq(P, 1, O[n])
    BY <2>2, <2>3, <2>5, <2>11 DEF t
  <2> QED BY <2>1, <2>12 DEF b
<1>13. G \in SUBSET (0..k) /\ \A n \in G : B[n] = SubSeq(P, 1, O[n])
  OBVIOUS
<1> HIDE DEF G
<1>14. G = 0..k
  BY <1>1, <1>11, <1>12, <1>13, Upwards
<1>15. B[k] = SubSeq(P, 1, Len(P))
  BY <1>1, <1>3, <1>13, <1>14
<1>16. SubSeq(P, 1, Len(P)) = P
  BY SubSeqFull
<1> QED BY <1>8, <1>15, <1>16 DEF B

(* A decoded message has each field under its name.                         *)
LEMMA MessageFromIs ==
  ASSUME NEW type, NEW fields, IsFieldList(fields), NEW bytes
  PROVE  /\ MessageFrom(type, fields, bytes).type = type
         /\ DOMAIN MessageFrom(type, fields, bytes) = {"type"} \cup NamesOf(fields)
         /\ Reads(MessageFrom(type, fields, bytes), fields, bytes)
<1> DEFINE Place(name) == CHOOSE n \in DOMAIN fields : fields[n].name = name
           O == OffsetsAfter(fields, bytes)
           M == [name \in {"type"} \cup NamesOf(fields) |->
                   IF name = "type" THEN type
                   ELSE ReadField(fields[Place(name)], bytes, O[Place(name) - 1])]
<1>1. MessageFrom(type, fields, bytes) = M
  BY DEF MessageFrom
<1>2. ASSUME NEW n \in 1..Len(fields)
      PROVE  /\ fields[n].name \in NamesOf(fields) /\ fields[n].name # "type"
             /\ Place(fields[n].name) = n
  BY DEF IsFieldList, IsField, NamesOf
<1> HIDE DEF Place, O
<1>3. \A n \in 1..Len(fields) : M[fields[n].name] = ReadField(fields[n], bytes, O[n - 1])
  BY <1>2
<1> QED BY <1>1, <1>3 DEF O, Reads

-----------------------------------------------------------------------------
(* What the programs may send.                                              *)

(* Texts occur in asset descriptions only.                                  *)
LEMMA TextFields ==
  ASSUME NEW n \in 1..10, NEW j \in 1..Len(Written[MessageTypes[n]]),
         Written[MessageTypes[n]][j].kind = "Text"
  PROVE  /\ MessageTypes[n] = "ManifestAsset"
         /\ Written[MessageTypes[n]][j] \in {Text("name", MaximumNameLength),
                                             Text("url", MaximumUrlLength)}
<1> DEFINE IntsOnly(fields) == \A i \in 1..Len(fields) : fields[i].kind = "Int"
<1>1. IntsOnly(Written.Hello)
  BY HelloFields DEF U16, U32
<1>2. IntsOnly(Written.Welcome)
  BY WelcomeFields DEF U16, U32
<1>3. IntsOnly(Written.Reject) /\ IntsOnly(Written.Ping) /\ IntsOnly(Written.Pong)
  BY DEF Written, U16, U64
<1>4. IntsOnly(Written.ManifestBegin) /\ IntsOnly(Written.ManifestEnd)
  BY DEF Written, Boundary, U32, U64
<1>5. IntsOnly(Written.AssetReady) /\ IntsOnly(Written.AssetError)
  BY DEF Written, U16, U32, U64
<1>6. \A i \in 1..Len(Written.ManifestAsset) :
        \/ Written.ManifestAsset[i].kind # "Text"
        \/ Written.ManifestAsset[i] \in {Text("name", MaximumNameLength),
                                         Text("url", MaximumUrlLength)}
  BY AssetFields DEF U16, U32, U64, Raw, Text
<1>7. MessageTypes[n] \in {"Hello", "Welcome", "Reject", "Ping", "Pong", "ManifestBegin",
                           "ManifestAsset", "ManifestEnd", "AssetReady", "AssetError"}
  BY DEF MessageTypes
<1> QED BY <1>1, <1>2, <1>3, <1>4, <1>5, <1>6, <1>7

(* A valid message has values that arrive.                                  *)
LEMMA ValidCarries ==
  ASSUME NEW m, IsMessage(m), AreFieldsValid(m)
  PROVE  \E n \in 1..10 : m.type = MessageTypes[n] /\ CarriesAll(Written[MessageTypes[n]], m)
<1>1. PICK n \in 1..10 : m.type = MessageTypes[n]
  <2>1. DOMAIN MessageTypes = 1..10
    BY DEF MessageTypes
  <2> QED BY <2>1 DEF IsMessage
<1> DEFINE fields == Written[MessageTypes[n]]
<1>2. IsFieldList(fields)
  BY FieldLists
<1>3. ASSUME NEW j \in 1..Len(fields) PROVE Carries(fields[j], m[fields[j].name])
  <2> DEFINE f == fields[j]
             v == m[f.name]
  <2>1. IsField(f) /\ Fits(f, v)
    <3>1. j \in DOMAIN fields
      BY <1>2, <1>3 DEF IsFieldList
    <3>2. IsField(f)
      BY <1>2, <1>3 DEF IsFieldList
    <3>3. Fits(f, v)
      BY <1>1, <3>1, Zenon DEF IsMessage
    <3> QED BY <3>2, <3>3
  <2>2. f.kind = "Text" => /\ MessageTypes[n] = "ManifestAsset"
                           /\ f \in {Text("name", MaximumNameLength),
                                     Text("url", MaximumUrlLength)}
    BY TextFields
  <2> HIDE DEF f
  <2>3. CASE f.kind = "Int"
    <3>1. f.size \in {2, 4, 8}
      BY <2>1, <2>3 DEF IsField
    <3>2. v \in 0..(CASE f.size = 2 -> Word - 1 [] f.size = 4 -> Long - 1
                      [] f.size = 8 -> Long * Long - 1)
      BY <2>1, <2>3 DEF Fits
    <3> HIDE DEF v
    <3>3. v \in 0..(Limit(f.size) - 1)
      BY <3>1, <3>2 DEF Limit
    <3> QED BY <2>3, <3>3 DEF Carries, f, v
  <2>4. CASE f.kind = "Raw"
    <3>1. v \in [1..f.size -> Byte]
      BY <2>1, <2>4 DEF Fits
    <3> HIDE DEF v
    <3> QED BY <2>4, <3>1 DEF Carries, f, v
  <2>5. CASE f.kind = "Text"
    <3>1. v \in Seq(Byte)
      BY <2>1, <2>5 DEF Fits
    <3>2. Len(m.name) <= MaximumNameLength /\ Len(m.url) <= MaximumUrlLength
      <4>1. m.type = "ManifestAsset"
        BY <1>1, <2>2, <2>5
      <4>2. IsDescriptionValid(m)
        BY <4>1 DEF AreFieldsValid
      <4>3. Len(m.name) \in 1..MaximumNameLength /\ Len(m.url) \in 1..MaximumUrlLength
        BY <4>2 DEF IsDescriptionValid, IsTextValid
      <4> QED BY <4>3, WireAssumption
    <3>3. Len(v) <= f.size
      BY <2>2, <2>5, <3>2 DEF Text
    <3> HIDE DEF v
    <3> QED BY <2>5, <3>1, <3>3 DEF Carries, f, v
  <2> QED BY <2>1, <2>3, <2>4, <2>5 DEF IsField
<1> QED BY <1>1, <1>3 DEF CarriesAll

(* The bytes a field may take.                                              *)
Most(f) == IF f.kind = "Text" THEN 2 + f.size ELSE f.size

LEMMA LengthsGrow ==
  ASSUME NEW fields, IsFieldList(fields), NEW m, CarriesAll(fields, m)
  PROVE  \E L \in [0..Len(fields) -> Nat] :
           /\ L[0] = 0
           /\ L[Len(fields)] = Len(BytesAfter(fields, m)[Len(fields)])
           /\ \A n \in 1..Len(fields) : L[n] <= L[n - 1] + Most(fields[n])
<1> DEFINE k == Len(fields)
           B == BytesAfter(fields, m)
           L == [n \in 0..k |-> Len(B[n])]
<1>1. k \in Nat /\ \A n \in 1..k : IsField(fields[n])
  BY DEF IsFieldList
<1>2. \A n \in 1..k : /\ FieldBytes(fields[n], m[fields[n].name]) \in Seq(Byte)
                      /\ Len(FieldBytes(fields[n], m[fields[n].name])) <= Most(fields[n])
  <2> TAKE n \in 1..k
  <2> DEFINE f == fields[n]
             v == m[f.name]
  <2>1. IsField(f) /\ Carries(f, v)
    BY <1>1 DEF CarriesAll
  <2> HIDE DEF f, v
  <2>2. /\ FieldBytes(f, v) \in Seq(Byte)
        /\ Len(FieldBytes(f, v)) = IF f.kind = "Text" THEN 2 + Len(v) ELSE f.size
    BY <2>1, FieldWritten
  <2>3. f.size \in Nat
    BY <2>1 DEF IsField
  <2>4. f.kind = "Text" => Len(v) \in Nat /\ Len(v) <= f.size
    BY <2>1, LenProperties DEF IsField, Carries
  <2>5. Len(FieldBytes(f, v)) <= Most(f)
    BY <2>2, <2>3, <2>4 DEF Most
  <2> QED BY <2>2, <2>5 DEF f, v
<1>3. /\ B[0] = <<>>
      /\ \A n \in 1..k : B[n] = B[n - 1] \o FieldBytes(fields[n], m[fields[n].name])
      /\ \A n \in 0..k : B[n] \in Seq(Byte)
  BY <1>2, BytesAfterIs
<1> HIDE DEF B
<1>4. L \in [0..k -> Nat]
  BY <1>3, LenProperties
<1>5. L[0] = 0
  BY <1>1, <1>3, EmptySeq
<1>6. ASSUME NEW n \in 1..k PROVE L[n] <= L[n - 1] + Most(fields[n])
  <2> DEFINE a == B[n - 1]
             b == B[n]
             g == FieldBytes(fields[n], m[fields[n].name])
  <2>1. n \in 0..k /\ n - 1 \in 0..k
    BY <1>1
  <2>2. a \in Seq(Byte) /\ g \in Seq(Byte) /\ b = a \o g
    BY <1>2, <1>3, <2>1, Zenon
  <2>3. Len(g) <= Most(fields[n])
    BY <1>2
  <2> HIDE DEF a, b, g
  <2>4. Len(a) \in Nat /\ Len(g) \in Nat /\ Len(b) = Len(a) + Len(g)
    BY <2>2, Appended
  <2>5. Most(fields[n]) \in Nat
    BY <1>1 DEF Most, IsField
  <2>6. L[n] = Len(b) /\ L[n - 1] = Len(a)
    BY <2>1 DEF a, b
  <2> HIDE DEF L
  <2> QED BY <2>3, <2>4, <2>5, <2>6
<1>7. L[k] = Len(B[k])
  BY <1>1
<1> QED BY <1>4, <1>5, <1>6, <1>7 DEF B

(* Few short fields make a short message.                                   *)
LEMMA ShortFields ==
  ASSUME NEW fields, IsFieldList(fields), NEW m, CarriesAll(fields, m),
         NEW c \in Nat, \A n \in 1..Len(fields) : Most(fields[n]) <= c
  PROVE  Len(BytesAfter(fields, m)[Len(fields)]) <= c * Len(fields)
<1> DEFINE k == Len(fields)
<1>1. k \in Nat /\ \A n \in 1..k : Most(fields[n]) \in Nat
  BY DEF IsFieldList, IsField, Most
<1>2. PICK L \in [0..k -> Nat] :
        /\ L[0] = 0
        /\ L[k] = Len(BytesAfter(fields, m)[k])
        /\ \A n \in 1..k : L[n] <= L[n - 1] + Most(fields[n])
  BY LengthsGrow
<1> DEFINE G == {n \in 0..k : L[n] <= c * n}
<1> HIDE DEF k
<1>3. 0 \in G
  BY <1>1, <1>2
<1>4. ASSUME NEW n \in 1..k, n - 1 \in G PROVE n \in G
  <2>1. n \in 0..k /\ n - 1 \in 0..k /\ L[n] \in Nat /\ L[n - 1] \in Nat
    BY <1>1, <1>2
  <2>2. L[n] <= L[n - 1] + Most(fields[n]) /\ L[n - 1] <= c * (n - 1)
    BY <1>2, <1>4
  <2>3. Most(fields[n]) \in Nat /\ Most(fields[n]) <= c
    BY <1>1 DEF k
  <2>4. c * (n - 1) + c = c * n /\ c * (n - 1) \in Nat
    BY <2>1
  <2> QED BY <2>1, <2>2, <2>3, <2>4
<1>5. G \in SUBSET (0..k) /\ \A n \in G : L[n] <= c * n
  OBVIOUS
<1> HIDE DEF G
<1>6. G = 0..k
  BY <1>1, <1>3, <1>4, <1>5, Upwards
<1> QED BY <1>1, <1>2, <1>5, <1>6 DEF k

(* No message is longer than an asset description with the longest texts.   *)
LEMMA Sizes ==
  ASSUME NEW n \in 1..10, NEW m, CarriesAll(Written[MessageTypes[n]], m)
  PROVE  LET fields == Written[MessageTypes[n]] IN
         Len(BytesAfter(fields, m)[Len(fields)]) <= LongestPayload
<1> DEFINE fields == Written[MessageTypes[n]]
           l == Len(BytesAfter(fields, m)[Len(fields)])
<1>1. IsFieldList(fields)
  BY FieldLists
<1>2. MaximumNameLength \in Nat /\ MaximumUrlLength \in Nat /\ DigestSize \in Nat
  BY WireAssumption
<1>3. l \in Nat
  <2>1. PICK L \in [0..Len(fields) -> Nat] : L[Len(fields)] = l
    BY <1>1, LengthsGrow
  <2> QED BY <1>1, <2>1 DEF IsFieldList
<1>4. ASSUME NEW c \in Nat, \A j \in 1..Len(fields) : Most(fields[j]) <= c
      PROVE  l <= c * Len(fields)
  BY <1>1, <1>4, ShortFields
<1> SUFFICES l <= LongestPayload
  OBVIOUS
<1> HIDE DEF l
<1>5. CASE MessageTypes[n] = "Hello"
  <2>1. Len(fields) = 6 /\ \A j \in 1..6 : Most(fields[j]) <= 4
    BY <1>5, HelloFields DEF Most, U16, U32
  <2>2. l <= 4 * 6
    BY <1>4, <2>1
  <2> QED BY <1>2, <1>3, <2>2 DEF LongestPayload
<1>12. CASE MessageTypes[n] = "Welcome"
  <2>1. Len(fields) = 6 /\ \A j \in 1..6 : Most(fields[j]) <= 4
    BY <1>12, WelcomeFields DEF Most, U16, U32
  <2>2. l <= 4 * 6
    BY <1>4, <2>1
  <2> QED BY <1>2, <1>3, <2>2 DEF LongestPayload
<1>6. CASE MessageTypes[n] \in {"Reject", "Ping", "Pong"}
  <2>1. Len(fields) = 1
    BY <1>6 DEF Written
  <2>2. Most(fields[1]) <= 8
    BY <1>6 DEF Written, Most, U16, U64
  <2> HIDE DEF fields
  <2>3. l <= 8 * 1
    BY <1>4, <2>1, <2>2
  <2> QED BY <1>2, <1>3, <2>3 DEF LongestPayload
<1>7. CASE MessageTypes[n] \in {"ManifestBegin", "ManifestEnd"}
  <2>1. fields = Boundary
    BY <1>7 DEF Written
  <2> HIDE DEF fields
  <2>2. Len(fields) = 3 /\ \A j \in 1..3 : Most(fields[j]) <= 8
    BY <2>1 DEF Boundary, Most, U32, U64
  <2>3. l <= 8 * 3
    BY <1>4, <2>2
  <2> QED BY <1>2, <1>3, <2>3 DEF LongestPayload
<1>8. CASE MessageTypes[n] = "AssetReady"
  <2>1. Len(fields) = 2 /\ \A j \in 1..Len(fields) : Most(fields[j]) <= 8
    BY <1>8 DEF Written, Most, U32, U64
  <2> QED BY <1>2, <1>3, <1>4, <2>1 DEF LongestPayload, l
<1>9. CASE MessageTypes[n] = "AssetError"
  <2>1. Len(fields) = 3 /\ \A j \in 1..Len(fields) : Most(fields[j]) <= 8
    BY <1>9 DEF Written, Most, U16, U32, U64
  <2> QED BY <1>2, <1>3, <1>4, <2>1 DEF LongestPayload, l
<1>10. CASE MessageTypes[n] = "ManifestAsset"
  <2>1. /\ Len(fields) = 8
        /\ Most(fields[1]) = 8 /\ Most(fields[2]) = 4 /\ Most(fields[3]) = 4
        /\ Most(fields[4]) = 2 /\ Most(fields[5]) = 2 + MaximumNameLength
        /\ Most(fields[6]) = 2 + MaximumUrlLength /\ Most(fields[7]) = 8
        /\ Most(fields[8]) = DigestSize
    BY <1>10, AssetFields DEF Most, U16, U32, U64, Text, Raw
  <2>2. PICK L \in [0..8 -> Nat] :
          /\ L[0] = 0
          /\ L[8] = l
          /\ \A j \in 1..8 : L[j] <= L[j - 1] + Most(fields[j])
    BY <1>1, <2>1, LengthsGrow DEF l
  <2>3. /\ L[1] <= L[0] + 8 /\ L[2] <= L[1] + 4 /\ L[3] <= L[2] + 4 /\ L[4] <= L[3] + 2
        /\ L[5] <= L[4] + (2 + MaximumNameLength) /\ L[6] <= L[5] + (2 + MaximumUrlLength)
        /\ L[7] <= L[6] + 8 /\ L[8] <= L[7] + DigestSize
    BY <2>1, <2>2
  <2>4. /\ L[0] \in Nat /\ L[1] \in Nat /\ L[2] \in Nat /\ L[3] \in Nat /\ L[4] \in Nat
        /\ L[5] \in Nat /\ L[6] \in Nat /\ L[7] \in Nat /\ L[8] \in Nat
    BY <2>2
  <2>5. L[0] = 0 /\ L[8] = l
    BY <2>2
  <2>6. L[4] <= 18 /\ L[6] <= L[4] + 4 + MaximumNameLength + MaximumUrlLength
    BY <1>2, <2>3, <2>4, <2>5
  <2>7. L[8] <= LongestPayload
    BY <1>2, <2>3, <2>4, <2>6 DEF LongestPayload
  <2> QED BY <2>5, <2>7
<1>11. MessageTypes[n] \in {"Hello", "Welcome", "Reject", "Ping", "Pong", "ManifestBegin",
                            "ManifestAsset", "ManifestEnd", "AssetReady", "AssetError"}
  BY DEF MessageTypes
<1> QED BY <1>5, <1>12, <1>6, <1>7, <1>8, <1>9, <1>10, <1>11

-----------------------------------------------------------------------------
(* Packets.                                                                  *)

(* The packet of version 1 with message type n around payload P.            *)
PacketBytes(n, P) ==
  MagicBytes \o Bytes16(kProtocolVersion) \o Bytes16(n) \o Bytes32(Len(P)) \o P

(* The header's numbers fit their fields.                                    *)
LEMMA HeaderNumbers ==
  /\ Word \in Nat /\ Long \in Nat
  /\ kProtocolVersion \in 0..(Word - 1)
  /\ \A n \in 1..10 : n \in 0..(Word - 1)
<1>1. Len(MessageTypes) = 10
  BY DEF MessageTypes
<1>2. Word \in Nat /\ 10 < Word
  BY <1>1, WireAssumption, BaseIsPositive DEF Word
<1> HIDE DEF Word
<1>3. Long \in Nat
  BY <1>2 DEF Long
<1> QED BY <1>2, <1>3 DEF kProtocolVersion

(* What stands where in a packet.                                            *)
LEMMA PacketIs ==
  ASSUME NEW n \in 0..(Word - 1), NEW P \in Seq(Byte), Len(P) < Long
  PROVE  /\ PacketBytes(n, P) \in Seq(Byte)
         /\ Len(PacketBytes(n, P)) = 12 + Len(P)
         /\ \A i \in 1..4 : PacketBytes(n, P)[i] = MagicBytes[i]
         /\ \A i \in 1..2 : PacketBytes(n, P)[4 + i] = Bytes16(kProtocolVersion)[i]
         /\ \A i \in 1..2 : PacketBytes(n, P)[6 + i] = Bytes16(n)[i]
         /\ \A i \in 1..4 : PacketBytes(n, P)[8 + i] = Bytes32(Len(P))[i]
         /\ \A i \in 1..Len(P) : PacketBytes(n, P)[12 + i] = P[i]
<1> DEFINE a == MagicBytes
           v == Bytes16(kProtocolVersion)
           t == Bytes16(n)
           l == Bytes32(Len(P))
           b == a \o v
           c == b \o t
           d == c \o l
           Q == d \o P
<1>1. PacketBytes(n, P) = Q
  BY DEF PacketBytes
<1>2. a \in Seq(Byte) /\ Len(a) = 4
  BY WireAssumption, BytesAreSequence
<1>3. v \in Seq(Byte) /\ Len(v) = 2
  BY HeaderNumbers, Bytes16IsSequence
<1>4. t \in Seq(Byte) /\ Len(t) = 2
  BY Bytes16IsSequence
<1>5. l \in Seq(Byte) /\ Len(l) = 4
  <2>1. Len(P) \in 0..(Long - 1)
    BY HeaderNumbers, LenProperties
  <2>2. l \in [1..4 -> Byte]
    BY <2>1, Write32
  <2> QED BY <2>2, BytesAreSequence
<1> HIDE DEF a, v, t, l
<1>6. b \in Seq(Byte) /\ c \in Seq(Byte) /\ d \in Seq(Byte) /\ Q \in Seq(Byte)
  <2>1. b \in Seq(Byte)
    BY <1>2, <1>3, Joined
  <2> HIDE DEF b
  <2>2. c \in Seq(Byte)
    BY <1>4, <2>1, Joined
  <2> HIDE DEF c
  <2>3. d \in Seq(Byte)
    BY <1>5, <2>2, Joined
  <2> HIDE DEF d
  <2>4. Q \in Seq(Byte)
    BY <2>3, Joined
  <2> QED BY <2>1, <2>2, <2>3, <2>4
<1>7. b = a \o v /\ c = b \o t /\ d = c \o l /\ Q = d \o P
  OBVIOUS
<1> HIDE DEF b, c, d, Q
<1>8. /\ Len(b) = 6
      /\ \A i \in 1..4 : b[i] = a[i]
      /\ \A i \in 1..2 : b[4 + i] = v[i]
  <2>1. a \in Seq(Byte) /\ v \in Seq(Byte) /\ b = a \o v
    BY <1>2, <1>3, <1>7
  <2>2. /\ Len(b) = Len(a) + Len(v)
        /\ \A i \in 1..Len(a) : b[i] = a[i]
        /\ \A i \in 1..Len(v) : b[Len(a) + i] = v[i]
    BY <2>1, Appended
  <2> QED BY <2>2, <1>2, <1>3
<1>9. /\ Len(c) = 8
      /\ \A i \in 1..6 : c[i] = b[i]
      /\ \A i \in 1..2 : c[6 + i] = t[i]
  <2>1. b \in Seq(Byte) /\ t \in Seq(Byte) /\ c = b \o t
    BY <1>4, <1>6, <1>7
  <2>2. /\ Len(c) = Len(b) + Len(t)
        /\ \A i \in 1..Len(b) : c[i] = b[i]
        /\ \A i \in 1..Len(t) : c[Len(b) + i] = t[i]
    BY <2>1, Appended
  <2> QED BY <2>2, <1>4, <1>8
<1>10. /\ Len(d) = 12
       /\ \A i \in 1..8 : d[i] = c[i]
       /\ \A i \in 1..4 : d[8 + i] = l[i]
  <2>1. c \in Seq(Byte) /\ l \in Seq(Byte) /\ d = c \o l
    BY <1>5, <1>6, <1>7
  <2>2. /\ Len(d) = Len(c) + Len(l)
        /\ \A i \in 1..Len(c) : d[i] = c[i]
        /\ \A i \in 1..Len(l) : d[Len(c) + i] = l[i]
    BY <2>1, Appended
  <2> QED BY <2>2, <1>5, <1>9
<1>11. /\ Len(Q) = 12 + Len(P)
       /\ \A i \in 1..12 : Q[i] = d[i]
       /\ \A i \in 1..Len(P) : Q[12 + i] = P[i]
  <2>1. d \in Seq(Byte) /\ P \in Seq(Byte) /\ Q = d \o P
    BY <1>6, <1>7
  <2>2. /\ Len(Q) = Len(d) + Len(P)
        /\ \A i \in 1..Len(d) : Q[i] = d[i]
        /\ \A i \in 1..Len(P) : Q[Len(d) + i] = P[i]
    BY <2>1, Appended
  <2> QED BY <2>2, <1>10
<1>12. \A i \in 1..4 : Q[i] = a[i]
  BY <1>8, <1>9, <1>10, <1>11
<1>13. \A i \in 1..2 : Q[4 + i] = v[i]
  <2> TAKE i \in 1..2
  <2>1. 4 + i \in 1..6
    OBVIOUS
  <2> QED BY <2>1, <1>8, <1>9, <1>10, <1>11
<1>14. \A i \in 1..2 : Q[6 + i] = t[i]
  <2> TAKE i \in 1..2
  <2>1. 6 + i \in 1..8
    OBVIOUS
  <2> QED BY <2>1, <1>9, <1>10, <1>11
<1>15. \A i \in 1..4 : Q[8 + i] = l[i]
  <2> TAKE i \in 1..4
  <2>1. 8 + i \in 1..12
    OBVIOUS
  <2> QED BY <2>1, <1>10, <1>11
<1> QED BY <1>1, <1>6, <1>11, <1>12, <1>13, <1>14, <1>15 DEF a, v, t, l

(* A receiver finds in a packet's header what was written there.             *)
LEMMA HeaderIs ==
  ASSUME NEW n \in 0..(Word - 1), NEW P \in Seq(Byte), Len(P) < Long,
         NEW Q, Q = PacketBytes(n, P)
  PROVE  /\ Q \in Seq(Byte) /\ Len(Q) = 12 + Len(P)
         /\ SubSeq(Q, 1, 4) = MagicBytes
         /\ Value16(Q, 4) = kProtocolVersion
         /\ Value16(Q, 6) = n
         /\ Value32(Q, 8) = Len(P)
         /\ SubSeq(Q, kHeaderSize + 1, Len(Q)) = P
<1>1. /\ Q \in Seq(Byte) /\ Len(Q) = 12 + Len(P)
      /\ \A i \in 1..4 : Q[i] = MagicBytes[i]
      /\ \A i \in 1..2 : Q[4 + i] = Bytes16(kProtocolVersion)[i]
      /\ \A i \in 1..2 : Q[6 + i] = Bytes16(n)[i]
      /\ \A i \in 1..4 : Q[8 + i] = Bytes32(Len(P))[i]
      /\ \A i \in 1..Len(P) : Q[12 + i] = P[i]
  BY PacketIs
<1>2. Len(P) \in Nat
  BY LenProperties
<1>3. SubSeq(Q, 1, 4) = MagicBytes
  <2> DEFINE t == MagicBytes
  <2>1. t \in Seq(Byte) /\ Len(t) = 4
    BY WireAssumption, BytesAreSequence
  <2>2. 0 + Len(t) <= Len(Q) /\ \A i \in 1..Len(t) : Q[0 + i] = t[i]
    BY <1>1, <1>2, <2>1
  <2> HIDE DEF t
  <2>3. SubSeq(Q, 0 + 1, 0 + Len(t)) = t
    BY <1>1, <2>1, <2>2, IsPart
  <2> QED BY <2>1, <2>3 DEF t
<1>4. Value16(Q, 4) = kProtocolVersion
  <2>1. \A o \in Nat : (\A i \in 1..2 : Q[o + i] = Bytes16(kProtocolVersion)[i])
                          => Value16(Q, o) = kProtocolVersion
    BY HeaderNumbers, Write16
  <2> QED BY <1>1, <2>1
<1>5. Value16(Q, 6) = n
  <2>1. \A o \in Nat : (\A i \in 1..2 : Q[o + i] = Bytes16(n)[i]) => Value16(Q, o) = n
    BY Write16
  <2> QED BY <1>1, <2>1
<1>6. Value32(Q, 8) = Len(P)
  <2>1. Len(P) \in 0..(Long - 1)
    BY <1>2, HeaderNumbers
  <2>2. \A o \in Nat : (\A i \in 1..4 : Q[o + i] = Bytes32(Len(P))[i])
                          => Value32(Q, o) = Len(P)
    BY <2>1, Write32
  <2> QED BY <1>1, <2>2
<1>7. SubSeq(Q, kHeaderSize + 1, Len(Q)) = P
  <2>1. 12 + Len(P) <= Len(Q)
    BY <1>1, <1>2
  <2>2. SubSeq(Q, 12 + 1, 12 + Len(P)) = P
    BY <1>1, <2>1, IsPart
  <2> QED BY <1>1, <2>2 DEF kHeaderSize
<1> QED BY <1>1, <1>3, <1>4, <1>5, <1>6, <1>7

(* Bytes whose header names their length and the version are a packet.       *)
LEMMA HeaderRead ==
  ASSUME NEW Q \in Seq(Byte), kHeaderSize <= Len(Q),
         SubSeq(Q, 1, 4) = MagicBytes,
         Value16(Q, 4) = kProtocolVersion,
         NEW P, P = SubSeq(Q, kHeaderSize + 1, Len(Q)),
         Value32(Q, 8) = Len(P)
  PROVE  /\ Value16(Q, 6) \in 0..(Word - 1)
         /\ P \in Seq(Byte) /\ Len(P) < Long
         /\ Len(Q) = 12 + Len(P)
         /\ PacketBytes(Value16(Q, 6), P) = Q
<1> DEFINE n == Value16(Q, 6)
           l == Len(Q) - 12
<1>1. Len(Q) \in Nat /\ 12 <= Len(Q) /\ \A i \in 1..Len(Q) : Q[i] \in Byte
  BY LenProperties, ElementOfSeq DEF kHeaderSize
<1>2. l \in Nat /\ 12 + l <= Len(Q) /\ Len(Q) = 12 + l
  BY <1>1
<1>3. /\ P \in Seq(Byte) /\ Len(P) = l
      /\ \A i \in 1..l : P[i] = Q[12 + i]
  <2>1. P = SubSeq(Q, 12 + 1, 12 + l)
    BY <1>2 DEF kHeaderSize
  <2> HIDE DEF l
  <2>2. /\ SubSeq(Q, 12 + 1, 12 + l) \in Seq(Byte)
        /\ Len(SubSeq(Q, 12 + 1, 12 + l)) = l
        /\ \A i \in 1..l : SubSeq(Q, 12 + 1, 12 + l)[i] = Q[12 + i]
    BY <1>2, Part
  <2> QED BY <2>1, <2>2
<1> HIDE DEF l
<1>4. /\ n \in 0..(Word - 1)
      /\ \A i \in 1..2 : Bytes16(n)[i] = Q[6 + i]
  <2>1. \A i \in 1..2 : Q[6 + i] \in Byte
    BY <1>1
  <2> QED BY <2>1, Read16
<1>5. \A i \in 1..2 : Bytes16(kProtocolVersion)[i] = Q[4 + i]
  <2>1. \A i \in 1..2 : Q[4 + i] \in Byte
    BY <1>1
  <2> QED BY <2>1, Read16
<1>6. /\ Len(P) \in 0..(Long - 1)
      /\ \A i \in 1..4 : Bytes32(Len(P))[i] = Q[8 + i]
  <2>1. \A i \in 1..4 : Q[8 + i] \in Byte
    BY <1>1
  <2>2. /\ Value32(Q, 8) \in 0..(Long - 1)
        /\ Bytes32(Value32(Q, 8)) = [i \in 1..4 |-> Q[8 + i]]
    BY <2>1, Read32
  <2> QED BY <2>2
<1>7. \A i \in 1..4 : MagicBytes[i] = Q[i]
  <2>1. \A i \in 1..4 : SubSeq(Q, 0 + 1, 0 + 4)[i] = Q[0 + i]
    BY <1>1, Part
  <2> QED BY <2>1
<1> DEFINE R == PacketBytes(n, P)
<1> HIDE DEF n
<1>8. Len(P) < Long
  <2>1. Len(P) \in 0..(Long - 1) /\ Long \in Nat
    BY <1>6, HeaderNumbers
  <2>2. \A x \in Nat : \A k \in 0..(x - 1) : k < x
    OBVIOUS
  <2> QED BY <2>1, <2>2, Zenon
<1>9. /\ R \in Seq(Byte) /\ Len(R) = 12 + Len(P)
      /\ \A i \in 1..4 : R[i] = MagicBytes[i]
      /\ \A i \in 1..2 : R[4 + i] = Bytes16(kProtocolVersion)[i]
      /\ \A i \in 1..2 : R[6 + i] = Bytes16(n)[i]
      /\ \A i \in 1..4 : R[8 + i] = Bytes32(Len(P))[i]
      /\ \A i \in 1..Len(P) : R[12 + i] = P[i]
  BY <1>3, <1>4, <1>8, PacketIs
<1> HIDE DEF R
<1>10. \A i \in 1..Len(Q) : R[i] = Q[i]
  <2> TAKE i \in 1..Len(Q)
  <2>1. CASE i \in 1..4
    BY <2>1, <1>7, <1>9
  <2>2. CASE i \in 5..6
    <3>1. i - 4 \in 1..2 /\ i = 4 + (i - 4)
      BY <2>2
    <3>2. PICK j \in 1..2 : i = 4 + j
      BY <3>1
    <3> QED BY <3>2, <1>5, <1>9
  <2>3. CASE i \in 7..8
    <3>1. i - 6 \in 1..2 /\ i = 6 + (i - 6)
      BY <2>3
    <3>2. PICK j \in 1..2 : i = 6 + j
      BY <3>1
    <3> QED BY <3>2, <1>4, <1>9
  <2>4. CASE i \in 9..12
    <3>1. i - 8 \in 1..4 /\ i = 8 + (i - 8)
      BY <2>4
    <3>2. PICK j \in 1..4 : i = 8 + j
      BY <3>1
    <3> QED BY <3>2, <1>6, <1>9
  <2>5. CASE i > 12
    <3>1. i - 12 \in 1..l /\ 12 + (i - 12) = i
      BY <2>5, <1>1, <1>2
    <3>2. PICK j \in 1..l : i = 12 + j
      BY <3>1
    <3>3. P[j] = Q[12 + j]
      BY <1>3
    <3>4. R[12 + j] = P[j]
      BY <1>3, <1>9
    <3> QED BY <3>2, <3>3, <3>4
  <2>6. i \in Nat /\ i >= 1
    BY <1>1
  <2> QED BY <2>1, <2>2, <2>3, <2>4, <2>5, <2>6
<1>11. Len(R) = Len(Q)
  BY <1>2, <1>3, <1>9
<1>12. R = Q
  BY <1>9, <1>10, <1>11, SeqEqual
<1> QED BY <1>2, <1>3, <1>4, <1>8, <1>12 DEF n, R

-----------------------------------------------------------------------------
(* The encoder.                                                              *)

(* A payload is shorter than a packet, and a packet is a number of 32 bits.  *)
LEMMA PayloadFits ==
  ASSUME NEW l \in Nat, l <= LongestPayload
  PROVE  /\ kMaximumPacketSize \in Nat /\ kMaximumPayloadSize = kMaximumPacketSize - 12
         /\ l <= kMaximumPayloadSize /\ l + 12 <= kMaximumPacketSize
         /\ ~(l > kMaximumPacketSize) /\ ~(l > kMaximumPayloadSize)
         /\ l < Long
<1>1. LongestPayload \in Nat
  BY WireAssumption DEF LongestPayload
<1>2. /\ kMaximumPacketSize \in Nat /\ LongestPayload <= kMaximumPayloadSize
      /\ kMaximumPacketSize < Long /\ Long \in Nat
  BY WireAssumption, HeaderNumbers
<1>3. kMaximumPayloadSize = kMaximumPacketSize - 12
  BY DEF kMaximumPayloadSize, kHeaderSize
<1> QED BY <1>1, <1>2, <1>3

(* Every valid message is encoded, to the packet of its fields.              *)
LEMMA EncodeIs ==
  ASSUME NEW n \in 1..10, NEW m, m.type = MessageTypes[n],
         CarriesAll(Written[MessageTypes[n]], m), AreFieldsValid(m),
         NEW fields, fields = Written[MessageTypes[n]],
         NEW P, P = BytesAfter(fields, m)[Len(fields)]
  PROVE  /\ P \in Seq(Byte) /\ Len(P) <= LongestPayload
         /\ EncodePacket(m, kProtocolVersion) = [error |-> "None", bytes |-> PacketBytes(n, P)]
<1>1. IsFieldList(fields)
  BY FieldLists
<1>2. P \in Seq(Byte) /\ Len(P) \in Nat
  <2>1. P \in Seq(Byte)
    BY <1>1, AllArrive
  <2> QED BY <2>1, LenProperties
<1>3. Len(P) <= LongestPayload
  BY Sizes
<1>4. ~(Len(P) > kMaximumPacketSize) /\ ~(Len(P) > kMaximumPayloadSize)
  BY <1>2, <1>3, PayloadFits
<1>5. ~(\E j \in DOMAIN fields : fields[j].kind = "Text" /\ Len(m[fields[j].name]) >= Word)
  <2> SUFFICES ASSUME NEW j \in DOMAIN fields, fields[j].kind = "Text"
               PROVE  ~(Len(m[fields[j].name]) >= Word)
    OBVIOUS
  <2> DEFINE f == fields[j]
             v == m[f.name]
  <2>1. IsField(f) /\ Carries(f, v)
    BY <1>1 DEF IsFieldList, CarriesAll
  <2>2. f.kind = "Text"
    OBVIOUS
  <2> HIDE DEF f, v
  <2>3. /\ f.size \in Nat /\ f.size < Word
        /\ v \in Seq(Byte) /\ Len(v) <= f.size
    BY <2>1, <2>2 DEF IsField, Carries
  <2>4. Word \in Nat /\ Len(v) \in Nat
    BY <2>3, HeaderNumbers, LenProperties
  <2>5. ~(Len(v) >= Word)
    BY <2>3, <2>4
  <2> QED BY <2>5 DEF f, v
<1>6. EncodePayload(m) = [error |-> "None", bytes |-> P]
  <2>1. Written[m.type] = fields /\ BytesAfter(fields, m)[Len(fields)] = P
    OBVIOUS
  <2> QED BY <2>1, <1>4, <1>5, Zenon DEF EncodePayload
<1>7. TypeOf(m) = n
  BY TypeOfMessage
<1>8. EncodePacket(m, kProtocolVersion) = [error |-> "None", bytes |-> PacketBytes(n, P)]
  <2> DEFINE payload == EncodePayload(m)
  <2>1. payload.error = "None" /\ payload.bytes = P
    BY <1>6
  <2>2. EncodePacket(m, kProtocolVersion)
          = [error |-> "None",
             bytes |-> MagicBytes \o Bytes16(kProtocolVersion) \o Bytes16(TypeOf(m))
                         \o Bytes32(Len(payload.bytes)) \o payload.bytes]
    <3> HIDE DEF payload
    <3>1. ~(Len(payload.bytes) > kMaximumPayloadSize)
      BY <1>4, <2>1
    <3> QED BY <2>1, <3>1, Zenon DEF EncodePacket, payload
  <2> HIDE DEF payload
  <2> QED BY <1>7, <2>1, <2>2, Zenon DEF PacketBytes
<1> QED BY <1>2, <1>3, <1>8

-----------------------------------------------------------------------------
(* The decoder.                                                              *)

(* The decoder's tests of a packet, in its order.                            *)
LEMMA PacketTests ==
  ASSUME NEW Q, NEW P, P = SubSeq(Q, kHeaderSize + 1, Len(Q)),
         ~(Len(Q) < kHeaderSize), SubSeq(Q, 1, 4) = MagicBytes
  PROVE  /\ Value16(Q, 4) # kProtocolVersion =>
              DecodePacket(Q) = Failure("UnsupportedProtocolVersion")
         /\ Value16(Q, 4) = kProtocolVersion =>
              \/ /\ Value32(Q, 8) > kMaximumPayloadSize
                 /\ DecodePacket(Q) = Failure("OversizedPayload")
              \/ /\ ~(Value32(Q, 8) > kMaximumPayloadSize)
                 /\ Value32(Q, 8) > Len(P)
                 /\ DecodePacket(Q) = Failure("TruncatedPayload")
              \/ /\ ~(Value32(Q, 8) > kMaximumPayloadSize)
                 /\ ~(Value32(Q, 8) > Len(P))
                 /\ Value32(Q, 8) # Len(P)
                 /\ DecodePacket(Q) = Failure("PayloadLengthMismatch")
              \/ /\ Value32(Q, 8) = Len(P)
                 /\ ~(Value16(Q, 6) \in 1..10)
                 /\ DecodePacket(Q) = Failure("UnknownMessageType")
              \/ /\ Value32(Q, 8) = Len(P)
                 /\ ~(Value32(Q, 8) > kMaximumPayloadSize)
                 /\ ~(Value32(Q, 8) > Len(P))
                 /\ Value16(Q, 6) \in 1..10
                 /\ DecodePacket(Q) = DecodePayload(MessageTypes[Value16(Q, 6)], P)
<1>1. \A n : IsKnownMessageType(n) <=> n \in 1..10
  BY TypeOfMessage DEF IsKnownMessageType
<1>2. /\ Value16(Q, 4) # kProtocolVersion =>
           DecodePacket(Q) = Failure("UnsupportedProtocolVersion")
  BY DEF DecodePacket
<1>3. ASSUME Value16(Q, 4) = kProtocolVersion
      PROVE  DecodePacket(Q) =
               IF Value32(Q, 8) > kMaximumPayloadSize THEN Failure("OversizedPayload")
               ELSE IF Value32(Q, 8) > Len(P) THEN Failure("TruncatedPayload")
               ELSE IF Value32(Q, 8) # Len(P) THEN Failure("PayloadLengthMismatch")
               ELSE IF ~IsKnownMessageType(Value16(Q, 6)) THEN Failure("UnknownMessageType")
               ELSE DecodePayload(MessageTypes[Value16(Q, 6)], P)
  BY <1>3, Zenon DEF DecodePacket
<1> QED BY <1>1, <1>2, <1>3, Zenon

(* And of its payload.                                                       *)
LEMMA PayloadTests ==
  ASSUME NEW n \in 1..10, NEW P,
         NEW fields, fields = Written[MessageTypes[n]],
         NEW m, m = MessageFrom(MessageTypes[n], fields, P),
         NEW read, read = OffsetsAfter(fields, P)[Len(fields)]
  PROVE  \/ read > Len(P) /\ DecodePayload(MessageTypes[n], P) = Failure("TruncatedPayload")
         \/ ~AreFieldsValid(m) /\ DecodePayload(MessageTypes[n], P) = Failure("InvalidField")
         \/ /\ read # Len(P)
            /\ DecodePayload(MessageTypes[n], P) = Failure("PayloadLengthMismatch")
         \/ /\ read = Len(P) /\ AreFieldsValid(m)
            /\ DecodePayload(MessageTypes[n], P) = [error |-> "None", message |-> m]
<1>1. Expected[MessageTypes[n]] = fields
  BY FieldLists
<1> QED BY <1>1, Zenon DEF DecodePayload

(* What the decoder says of a payload.                                       *)
LEMMA PayloadErrors ==
  ASSUME NEW n \in 1..10, NEW P
  PROVE  DecodePayload(MessageTypes[n], P).error
           \in {"None", "TruncatedPayload", "InvalidField", "PayloadLengthMismatch"}
<1> DEFINE fields == Written[MessageTypes[n]]
           m == MessageFrom(MessageTypes[n], fields, P)
           read == OffsetsAfter(fields, P)[Len(fields)]
           d == DecodePayload(MessageTypes[n], P)
<1>1. \/ d = Failure("TruncatedPayload") \/ d = Failure("InvalidField")
      \/ d = Failure("PayloadLengthMismatch") \/ d = [error |-> "None", message |-> m]
  BY PayloadTests, Zenon
<1> HIDE DEF d, m
<1>2. d.error \in {"None", "TruncatedPayload", "InvalidField", "PayloadLengthMismatch"}
  BY <1>1 DEF Failure
<1> QED BY <1>2 DEF d

(* The payload of message m of type n.                                       *)
PayloadOf(n, m) ==
  LET fields == Written[MessageTypes[n]] IN BytesAfter(fields, m)[Len(fields)]

(* The bytes of a message are read back as that message.                     *)
LEMMA MessageReturns ==
  ASSUME NEW n \in 1..10, NEW m, IsMessage(m), m.type = MessageTypes[n],
         CarriesAll(Written[MessageTypes[n]], m)
  PROVE  MessageFrom(MessageTypes[n], Written[MessageTypes[n]], PayloadOf(n, m)) = m
<1> DEFINE fields == Written[MessageTypes[n]]
           P == PayloadOf(n, m)
           D == {"type"} \cup NamesOf(fields)
           w == MessageFrom(MessageTypes[n], fields, P)
<1>1. IsFieldList(fields)
  BY FieldLists
<1>2. m = [name \in D |-> m[name]]
  BY Zenon DEF IsMessage
<1>3. w = [name \in D |-> w[name]]
  BY DEF MessageFrom
<1>4. w.type = MessageTypes[n] /\ Reads(w, fields, P)
  BY <1>1, MessageFromIs
<1>5. Reads(m, fields, P)
  <2>1. P = BytesAfter(fields, m)[Len(fields)] /\ CarriesAll(fields, m)
    BY DEF PayloadOf
  <2> HIDE DEF fields, P
  <2> QED BY <1>1, <2>1, AllArrive
<1> HIDE DEF w
<1>6. \A name \in D : w[name] = m[name]
  <2> SUFFICES ASSUME NEW name \in D PROVE w[name] = m[name]
    OBVIOUS
  <2>1. CASE name = "type"
    BY <2>1, <1>4
  <2>2. CASE name \in NamesOf(fields)
    <3>1. PICK j \in 1..Len(fields) : name = fields[j].name
      BY <2>2, <1>1 DEF NamesOf, IsFieldList
    <3> QED BY <3>1, <1>4, <1>5 DEF Reads
  <2> QED BY <2>1, <2>2
<1> HIDE DEF D
<1>7. w = m
  BY <1>2, <1>3, <1>6
<1> QED BY <1>7 DEF w

(* A valid message is encoded to its packet.                                 *)
LEMMA Encoded ==
  ASSUME NEW n \in 1..10, NEW m, m.type = MessageTypes[n],
         CarriesAll(Written[MessageTypes[n]], m), AreFieldsValid(m)
  PROVE  /\ PayloadOf(n, m) \in Seq(Byte)
         /\ Len(PayloadOf(n, m)) \in Nat /\ Len(PayloadOf(n, m)) <= LongestPayload
         /\ EncodePacket(m, kProtocolVersion)
              = [error |-> "None", bytes |-> PacketBytes(n, PayloadOf(n, m))]
<1>1. /\ PayloadOf(n, m) \in Seq(Byte) /\ Len(PayloadOf(n, m)) <= LongestPayload
      /\ EncodePacket(m, kProtocolVersion)
           = [error |-> "None", bytes |-> PacketBytes(n, PayloadOf(n, m))]
  BY EncodeIs, Zenon DEF PayloadOf
<1>2. Len(PayloadOf(n, m)) \in Nat
  BY <1>1, LenProperties
<1> QED BY <1>1, <1>2

(* A valid message's payload is decoded to that message.                     *)
LEMMA PayloadReturns ==
  ASSUME NEW n \in 1..10, NEW m, IsMessage(m), m.type = MessageTypes[n],
         CarriesAll(Written[MessageTypes[n]], m), AreFieldsValid(m)
  PROVE  DecodePayload(MessageTypes[n], PayloadOf(n, m)) = [error |-> "None", message |-> m]
<1> DEFINE fields == Written[MessageTypes[n]]
           P == PayloadOf(n, m)
           w == MessageFrom(MessageTypes[n], fields, P)
           read == OffsetsAfter(fields, P)[Len(fields)]
           d == DecodePayload(MessageTypes[n], P)
<1>1. w = m
  BY MessageReturns
<1>2. read = Len(P) /\ P \in Seq(Byte)
  <2>1. IsFieldList(fields)
    BY FieldLists
  <2>2. P = BytesAfter(fields, m)[Len(fields)]
    BY DEF PayloadOf
  <2> HIDE DEF fields, P
  <2> QED BY <2>1, <2>2, AllArrive DEF fields
<1>3. \/ read > Len(P) /\ d = Failure("TruncatedPayload")
      \/ ~AreFieldsValid(w) /\ d = Failure("InvalidField")
      \/ read # Len(P) /\ d = Failure("PayloadLengthMismatch")
      \/ read = Len(P) /\ AreFieldsValid(w) /\ d = [error |-> "None", message |-> w]
  BY PayloadTests, Zenon
<1>4. ~(Len(P) > Len(P))
  BY <1>2, LenProperties
<1> HIDE DEF fields, P, w, read, d
<1>5. d = [error |-> "None", message |-> m]
  BY <1>1, <1>2, <1>3, <1>4, Zenon
<1> QED BY <1>5 DEF d, P

(* The packet of a valid message is decoded to that message.                 *)
LEMMA DecodeIs ==
  ASSUME NEW n \in 1..10, NEW m, IsMessage(m), m.type = MessageTypes[n],
         CarriesAll(Written[MessageTypes[n]], m), AreFieldsValid(m)
  PROVE  DecodePacket(PacketBytes(n, PayloadOf(n, m))) = [error |-> "None", message |-> m]
<1> DEFINE P == PayloadOf(n, m)
           Q == PacketBytes(n, P)
<1>1. P \in Seq(Byte) /\ Len(P) \in Nat /\ Len(P) <= LongestPayload
  BY Encoded
<1>2. DecodePayload(MessageTypes[n], P) = [error |-> "None", message |-> m]
  BY PayloadReturns
<1>3. Q = PacketBytes(n, P)
  OBVIOUS
<1> HIDE DEF P, Q
<1>4. Len(P) < Long /\ ~(Len(P) > kMaximumPayloadSize)
  BY <1>1, PayloadFits
<1>5. n \in 0..(Word - 1)
  BY HeaderNumbers
<1>6. /\ Q \in Seq(Byte) /\ Len(Q) = 12 + Len(P)
      /\ SubSeq(Q, 1, 4) = MagicBytes
      /\ Value16(Q, 4) = kProtocolVersion
      /\ Value16(Q, 6) = n
      /\ Value32(Q, 8) = Len(P)
      /\ SubSeq(Q, kHeaderSize + 1, Len(Q)) = P
  BY <1>1, <1>3, <1>4, <1>5, HeaderIs
<1>7. ~(Len(Q) < kHeaderSize) /\ ~(Len(P) > Len(P))
  BY <1>1, <1>6 DEF kHeaderSize
<1>8. DecodePacket(Q) = DecodePayload(MessageTypes[n], P)
  BY <1>4, <1>6, <1>7, PacketTests, Zenon
<1> QED BY <1>2, <1>8 DEF P, Q

(* What the decoder takes is what the encoder makes of the decoded message.  *)
LEMMA DecodedIsEncoded ==
  ASSUME NEW Q \in Seq(Byte), Len(Q) >= 4, SubSeq(Q, 1, 4) = MagicBytes,
         DecodePacket(Q).error = "None"
  PROVE  EncodePacket(DecodePacket(Q).message, kProtocolVersion)
           = [error |-> "None", bytes |-> Q]
<1> DEFINE P == SubSeq(Q, kHeaderSize + 1, Len(Q))
           n == Value16(Q, 6)
           d == DecodePacket(Q)
<1>1. \A error : error # "None" => d # Failure(error)
  BY DEF Failure
<1>2. Len(Q) \in Nat
  BY LenProperties
<1>3. ~(Len(Q) < kHeaderSize)
  <2>1. Len(Q) < kHeaderSize => d = Failure("TruncatedHeader")
    BY Zenon DEF DecodePacket
  <2> QED BY <2>1, <1>1
<1>4. /\ Value16(Q, 4) = kProtocolVersion
      /\ Value32(Q, 8) = Len(P)
      /\ n \in 1..10
      /\ d = DecodePayload(MessageTypes[n], P)
  <2> HIDE DEF P, d
  <2>1. P = SubSeq(Q, kHeaderSize + 1, Len(Q)) /\ d = DecodePacket(Q)
    BY DEF P, d
  <2> QED BY <2>1, <1>1, <1>3, PacketTests
<1>5. kHeaderSize <= Len(Q)
  BY <1>2, <1>3 DEF kHeaderSize
<1>6. /\ P \in Seq(Byte) /\ Len(P) < Long
      /\ PacketBytes(n, P) = Q
  BY <1>4, <1>5, HeaderRead
<1> DEFINE fields == Written[MessageTypes[n]]
           m == MessageFrom(MessageTypes[n], fields, P)
           read == OffsetsAfter(fields, P)[Len(fields)]
<1> HIDE DEF P, n, d
<1>7. read = Len(P) /\ AreFieldsValid(m) /\ d = [error |-> "None", message |-> m]
  <2> DEFINE x == DecodePayload(MessageTypes[n], P)
  <2>1. n \in 1..10 /\ d = x
    BY <1>4
  <2>2. \/ read > Len(P) /\ x = Failure("TruncatedPayload")
        \/ ~AreFieldsValid(m) /\ x = Failure("InvalidField")
        \/ read # Len(P) /\ x = Failure("PayloadLengthMismatch")
        \/ read = Len(P) /\ AreFieldsValid(m) /\ x = [error |-> "None", message |-> m]
    BY <2>1, PayloadTests, Zenon
  <2> HIDE DEF read, m, fields, x
  <2> QED BY <1>1, <2>1, <2>2
<1>8. IsFieldList(fields)
  BY <1>4, FieldLists
<1>9. m.type = MessageTypes[n] /\ Reads(m, fields, P)
  <2> HIDE DEF fields
  <2> QED BY <1>8, MessageFromIs
<1>10. CarriesAll(fields, m) /\ BytesAfter(fields, m)[Len(fields)] = P
  <2> HIDE DEF fields, m
  <2> QED BY <1>6, <1>7, <1>8, <1>9, AllRead DEF read
<1>11. EncodePacket(m, kProtocolVersion) = [error |-> "None", bytes |-> PacketBytes(n, P)]
  <2>1. /\ n \in 1..10 /\ m.type = MessageTypes[n] /\ AreFieldsValid(m)
        /\ CarriesAll(fields, m) /\ P = BytesAfter(fields, m)[Len(fields)]
    BY <1>4, <1>7, <1>9, <1>10
  <2>2. fields = Written[MessageTypes[n]]
    OBVIOUS
  <2> HIDE DEF m, fields
  <2>3. CarriesAll(Written[MessageTypes[n]], m)
    BY <2>1, <2>2
  <2> QED BY <2>1, <2>2, <2>3, EncodeIs
<1> HIDE DEF m, fields
<1>12. d.message = m
  BY <1>7
<1> QED BY <1>6, <1>11, <1>12 DEF d

-----------------------------------------------------------------------------
(* The carrier.                                                              *)

(* The frame of the packet of type n around payload P.                       *)
FrameOf(n, P) == <<kRakNetPacketId>> \o PacketBytes(n, P)

(* Bytes begin with the magic, or not.                                       *)
LEMMA MagicIs ==
  ASSUME NEW T \in Seq(Byte), Len(T) >= 4
  PROVE  SubSeq(T, 1, 4) = MagicBytes <=> \A i \in 1..4 : T[i] = MagicBytes[i]
<1> DEFINE t == MagicBytes
<1>1. t \in Seq(Byte) /\ Len(t) = 4 /\ Len(T) \in Nat
  BY WireAssumption, BytesAreSequence, LenProperties
<1>2. \A i \in 1..4 : SubSeq(T, 0 + 1, 0 + 4)[i] = T[0 + i]
  <2>1. 0 + 4 <= Len(T)
    BY <1>1
  <2> QED BY <2>1, Part
<1> HIDE DEF t
<1>3. SubSeq(T, 1, 4) = t => \A i \in 1..4 : T[i] = t[i]
  BY <1>2
<1>4. ASSUME \A i \in 1..4 : T[i] = t[i] PROVE SubSeq(T, 1, 4) = t
  <2>1. 0 + Len(t) <= Len(T) /\ \A i \in 1..Len(t) : T[0 + i] = t[i]
    BY <1>1, <1>4
  <2>2. SubSeq(T, 0 + 1, 0 + Len(t)) = t
    BY <1>1, <2>1, IsPart
  <2> QED BY <1>1, <2>2
<1> QED BY <1>3, <1>4 DEF t

(* What follows the packet id.                                               *)
LEMMA TailIs ==
  ASSUME NEW f \in Seq(Byte), Len(f) >= 1
  PROVE  /\ Tail(f) \in Seq(Byte) /\ Len(Tail(f)) = Len(f) - 1
         /\ \A i \in 1..(Len(f) - 1) : Tail(f)[i] = f[1 + i]
<1>1. f # <<>> /\ Len(f) \in Nat
  BY EmptySeq, LenProperties
<1>2. /\ Tail(f) \in Seq(Byte) /\ Len(Tail(f)) = Len(f) - 1
      /\ \A i \in 1..Len(Tail(f)) : Tail(f)[i] = f[i + 1]
  BY <1>1, HeadTailProperties
<1> QED BY <1>1, <1>2

(* A frame that is claimed, and one that is not.                             *)
LEMMA ClaimedIs ==
  ASSUME NEW f \in Seq(Byte)
  PROVE  IsClaimed(f) <=>
           Len(f) >= 5 /\ f[1] = kRakNetPacketId /\ \A i \in 1..4 : f[1 + i] = MagicBytes[i]
<1>1. Len(f) \in Nat
  BY LenProperties
<1>2. CASE Len(f) < 5
  <2>1. CASE Len(f) < 1
    BY <2>1, <1>1 DEF IsClaimed
  <2>2. CASE Len(f) >= 1
    <3>1. Len(Tail(f)) = Len(f) - 1
      BY <2>2, TailIs
    <3>2. ~HasProtocolMagic(Tail(f))
      BY <1>1, <1>2, <3>1 DEF HasProtocolMagic
    <3> QED BY <1>1, <1>2, <3>2 DEF IsClaimed
  <2> QED BY <1>1, <2>1, <2>2
<1>3. CASE Len(f) >= 5
  <2> DEFINE T == Tail(f)
  <2>1. /\ T \in Seq(Byte) /\ Len(T) = Len(f) - 1
        /\ \A i \in 1..(Len(f) - 1) : T[i] = f[1 + i]
    BY <1>1, <1>3, TailIs
  <2> HIDE DEF T
  <2>2. Len(T) >= 4 /\ Len(f) > 1 /\ \A i \in 1..4 : T[i] = f[1 + i]
    BY <1>1, <1>3, <2>1
  <2>3. SubSeq(T, 1, 4) = MagicBytes <=> \A i \in 1..4 : T[i] = MagicBytes[i]
    BY <2>1, <2>2, MagicIs
  <2>4. (\A i \in 1..4 : T[i] = MagicBytes[i]) <=> \A i \in 1..4 : f[1 + i] = MagicBytes[i]
    BY <2>2
  <2>5. IsClaimed(f) <=> f[1] = kRakNetPacketId /\ SubSeq(T, 1, 4) = MagicBytes
    BY <2>2 DEF IsClaimed, HasProtocolMagic, T
  <2> QED BY <1>3, <2>3, <2>4, <2>5, Zenon
<1> QED BY <1>1, <1>2, <1>3

(* What stands where in a frame on its way.                                  *)
LEMMA FrameIs ==
  ASSUME NEW n \in 1..10, NEW P \in Seq(Byte), Len(P) <= LongestPayload
  PROVE  LET Q == PacketBytes(n, P)
             O == FrameOf(n, P) IN
         /\ Len(P) \in Nat
         /\ Q \in Seq(Byte) /\ Len(Q) = 12 + Len(P)
         /\ O \in Seq(Byte) /\ Len(O) = 13 + Len(P)
         /\ O[1] = kRakNetPacketId
         /\ \A i \in 1..(12 + Len(P)) : O[1 + i] = Q[i]
         /\ \A i \in 1..4 : O[1 + i] = MagicBytes[i]
         /\ SubSeq(Q, 1, 4) = MagicBytes
         /\ Value16(Q, 4) = kProtocolVersion
         /\ Value16(Q, 6) = n
         /\ Value32(Q, 8) = Len(P)
<1> DEFINE Q == PacketBytes(n, P)
           O == FrameOf(n, P)
           e == <<kRakNetPacketId>>
<1>1. Len(P) \in Nat
  BY LenProperties
<1>2. Len(P) < Long /\ n \in 0..(Word - 1)
  BY <1>1, PayloadFits, HeaderNumbers
<1>3. Q = PacketBytes(n, P) /\ O = e \o Q
  BY DEF FrameOf
<1>4. e \in Seq(Byte) /\ Len(e) = 1 /\ e[1] = kRakNetPacketId
  BY WireAssumption
<1> HIDE DEF Q, O, e
<1>5. /\ Q \in Seq(Byte) /\ Len(Q) = 12 + Len(P)
      /\ SubSeq(Q, 1, 4) = MagicBytes
      /\ Value16(Q, 4) = kProtocolVersion
      /\ Value16(Q, 6) = n
      /\ Value32(Q, 8) = Len(P)
  BY <1>2, <1>3, HeaderIs
<1>6. \A i \in 1..4 : Q[i] = MagicBytes[i]
  <2>1. Len(Q) >= 4
    BY <1>1, <1>5
  <2> QED BY <1>5, <2>1, MagicIs
<1>7. O \in Seq(Byte)
  <2>1. e \in Seq(Byte) /\ Q \in Seq(Byte)
    BY <1>4, <1>5
  <2>2. e \o Q \in Seq(Byte)
    BY <2>1, Joined
  <2> QED BY <1>3, <2>2
<1>8. /\ Len(O) = 13 + Len(P)
      /\ O[1] = kRakNetPacketId
      /\ \A i \in 1..(12 + Len(P)) : O[1 + i] = Q[i]
  <2>1. e \in Seq(Byte) /\ Q \in Seq(Byte) /\ O = e \o Q
    BY <1>3, <1>4, <1>5
  <2>2. /\ Len(O) = Len(e) + Len(Q)
        /\ \A i \in 1..Len(e) : O[i] = e[i]
        /\ \A i \in 1..Len(Q) : O[Len(e) + i] = Q[i]
    BY <2>1, Appended
  <2> QED BY <1>1, <1>4, <1>5, <2>2
<1>9. \A i \in 1..4 : O[1 + i] = MagicBytes[i]
  BY <1>1, <1>6, <1>8
<1> QED BY <1>1, <1>5, <1>7, <1>8, <1>9 DEF Q, O

(* The untouched frame carries the packet.                                   *)
LEMMA WholeFrame ==
  ASSUME NEW n \in 1..10, NEW P \in Seq(Byte), Len(P) <= LongestPayload
  PROVE  /\ EncodeFrame(PacketBytes(n, P)) = FrameOf(n, P)
         /\ FrameOf(n, P) # <<>>
         /\ IsClaimed(FrameOf(n, P))
         /\ Tail(FrameOf(n, P)) = PacketBytes(n, P)
<1> DEFINE Q == PacketBytes(n, P)
           O == FrameOf(n, P)
<1>1. /\ Len(P) \in Nat
      /\ Q \in Seq(Byte) /\ Len(Q) = 12 + Len(P)
      /\ O \in Seq(Byte) /\ Len(O) = 13 + Len(P)
      /\ O[1] = kRakNetPacketId
      /\ \A i \in 1..(12 + Len(P)) : O[1 + i] = Q[i]
      /\ \A i \in 1..4 : O[1 + i] = MagicBytes[i]
      /\ SubSeq(Q, 1, 4) = MagicBytes
  BY FrameIs
<1>2. Len(Q) >= 4 /\ Len(O) >= 5 /\ Len(O) - 1 = 12 + Len(P)
  BY <1>1
<1>3. Len(Q) <= kMaximumPacketSize
  BY <1>1, PayloadFits
<1>4. EncodeFrame(Q) = O
  <2>1. HasProtocolMagic(Q)
    BY <1>1, <1>2 DEF HasProtocolMagic
  <2> QED BY <1>3, <2>1 DEF EncodeFrame, FrameOf
<1> HIDE DEF Q, O
<1>5. O # <<>>
  BY <1>2, EmptySeq
<1>6. IsClaimed(O)
  BY <1>1, <1>2, ClaimedIs
<1>7. Tail(O) = Q
  <2> DEFINE T == Tail(O)
  <2>1. /\ T \in Seq(Byte) /\ Len(T) = Len(O) - 1
        /\ \A i \in 1..(Len(O) - 1) : T[i] = O[1 + i]
    <3>1. Len(O) >= 1
      BY <1>1, <1>2
    <3> QED BY <1>1, <3>1, TailIs
  <2> HIDE DEF T
  <2>2. Len(T) = Len(Q) /\ \A i \in 1..Len(T) : T[i] = Q[i]
    BY <1>1, <1>2, <2>1
  <2>3. T = Q
    BY <1>1, <2>1, <2>2, SeqEqual
  <2> QED BY <2>3 DEF T
<1> QED BY <1>4, <1>5, <1>6, <1>7 DEF Q, O

-----------------------------------------------------------------------------
(* Damage.                                                                   *)

(* The bytes of f at the places S are those of the packet's frame.           *)
Same(f, n, P, S) == \A i \in S : f[i] = FrameOf(n, P)[i]

(* A payload no longer than the longest one makes a frame that is not too    *)
(* long.                                                                     *)
LEMMA FrameFits ==
  ASSUME NEW P \in Seq(Byte), Len(P) <= LongestPayload
  PROVE  /\ Len(P) \in Nat /\ 13 + Len(P) <= kMaximumFrameSize
         /\ kMaximumFrameSize \in Nat
<1>1. Len(P) \in Nat
  BY LenProperties
<1>2. kMaximumPacketSize \in Nat /\ LongestPayload <= kMaximumPacketSize - 12
  BY WireAssumption DEF kMaximumPayloadSize, kHeaderSize
<1>3. LongestPayload \in Nat
  BY WireAssumption DEF LongestPayload
<1> QED BY <1>1, <1>2, <1>3 DEF kMaximumFrameSize

(* A frame whose first five bytes are untouched is claimed; if it is not too *)
(* long, it reaches the decoder.                                             *)
LEMMA Claims ==
  ASSUME NEW n \in 1..10, NEW P \in Seq(Byte), Len(P) <= LongestPayload,
         NEW f \in Seq(Byte), Len(f) >= 5,
         Same(f, n, P, 1..5)
  PROVE  /\ Received(f) = IF Len(f) > kMaximumFrameSize THEN Failure("OversizedFrame")
                          ELSE DecodePacket(Tail(f))
         /\ Tail(f) \in Seq(Byte) /\ Len(Tail(f)) = Len(f) - 1
         /\ SubSeq(Tail(f), 1, 4) = MagicBytes
         /\ \A i \in 1..(Len(f) - 1) : Tail(f)[i] = f[1 + i]
<1> DEFINE O == FrameOf(n, P)
           T == Tail(f)
<1>1. O[1] = kRakNetPacketId /\ \A i \in 1..4 : O[1 + i] = MagicBytes[i]
  BY FrameIs
<1>2. f[1] = kRakNetPacketId /\ \A i \in 1..4 : f[1 + i] = MagicBytes[i]
  BY <1>1 DEF Same
<1>3. Len(f) \in Nat
  BY LenProperties
<1>4. IsClaimed(f)
  BY <1>2, ClaimedIs
<1>5. /\ T \in Seq(Byte) /\ Len(T) = Len(f) - 1
      /\ \A i \in 1..(Len(f) - 1) : T[i] = f[1 + i]
  BY <1>3, TailIs
<1> HIDE DEF T
<1>6. SubSeq(T, 1, 4) = MagicBytes
  <2>1. Len(T) >= 4 /\ \A i \in 1..4 : T[i] = MagicBytes[i]
    BY <1>2, <1>3, <1>5
  <2> QED BY <1>5, <2>1, MagicIs
<1> QED BY <1>4, <1>5, <1>6 DEF Received, T

(* The part of a packet behind its header.                                   *)
LEMMA RestIs ==
  ASSUME NEW T \in Seq(Byte), Len(T) >= 12
  PROVE  /\ Len(T) \in Nat /\ ~(Len(T) < kHeaderSize)
         /\ Len(SubSeq(T, kHeaderSize + 1, Len(T))) = Len(T) - 12
<1> DEFINE l == Len(T) - 12
<1>1. Len(T) \in Nat
  BY LenProperties
<1>2. l \in Nat /\ 12 + l = Len(T) /\ 12 + l <= Len(T)
  BY <1>1
<1> HIDE DEF l
<1>3. Len(SubSeq(T, 12 + 1, 12 + l)) = l
  BY <1>2, Part
<1> QED BY <1>1, <1>2, <1>3 DEF kHeaderSize, l

(* A frame that is long enough for a header: what the decoder finds there.   *)
LEMMA HeaderArrives ==
  ASSUME NEW n \in 1..10, NEW P \in Seq(Byte), Len(P) <= LongestPayload,
         NEW f \in Seq(Byte), Len(f) >= 13, Len(f) <= kMaximumFrameSize,
         Same(f, n, P, 1..5)
  PROVE  LET T == Tail(f)
             R == SubSeq(T, kHeaderSize + 1, Len(T)) IN
         /\ Received(f) = DecodePacket(T)
         /\ ~(Len(T) < kHeaderSize) /\ SubSeq(T, 1, 4) = MagicBytes
         /\ Len(R) = Len(f) - 13
         /\ Value16(T, 4) = kProtocolVersion <=> Same(f, n, P, 6..7)
         /\ Same(f, n, P, 8..9) => Value16(T, 6) = n
         /\ Value32(T, 8) = Len(P) <=> Same(f, n, P, 10..13)
<1> DEFINE O == FrameOf(n, P)
           Q == PacketBytes(n, P)
           T == Tail(f)
           R == SubSeq(T, kHeaderSize + 1, Len(T))
<1>1. /\ Len(P) \in Nat
      /\ Q \in Seq(Byte) /\ Len(Q) = 12 + Len(P)
      /\ \A i \in 1..(12 + Len(P)) : O[1 + i] = Q[i]
      /\ Value16(Q, 4) = kProtocolVersion
      /\ Value16(Q, 6) = n
      /\ Value32(Q, 8) = Len(P)
  BY FrameIs
<1>2. Len(f) \in Nat /\ Len(f) >= 5
  BY LenProperties
<1>3. /\ Received(f) = DecodePacket(T)
      /\ T \in Seq(Byte) /\ Len(T) = Len(f) - 1
      /\ SubSeq(T, 1, 4) = MagicBytes
      /\ \A i \in 1..(Len(f) - 1) : T[i] = f[1 + i]
  <2>1. ~(Len(f) > kMaximumFrameSize)
    BY <1>2, FrameFits
  <2> QED BY <1>2, <2>1, Claims
<1> HIDE DEF O, Q, T
<1>4. ~(Len(T) < kHeaderSize) /\ Len(R) = Len(f) - 13
  <2>1. Len(T) >= 12
    BY <1>2, <1>3
  <2>2. ~(Len(T) < kHeaderSize) /\ Len(R) = Len(T) - 12
    BY <1>3, <2>1, RestIs
  <2> HIDE DEF R
  <2> QED BY <1>2, <1>3, <2>2
<1>5. \A i \in 1..12 : T[i] = f[1 + i] /\ Q[i] = O[1 + i]
  <2>1. 1..12 \subseteq 1..(12 + Len(P)) /\ 1..12 \subseteq 1..(Len(f) - 1)
    BY <1>1, <1>2
  <2>2. \A i \in 1..12 : T[i] = f[1 + i]
    BY <1>3, <2>1
  <2>3. \A i \in 1..12 : Q[i] = O[1 + i]
    BY <1>1, <2>1
  <2> QED BY <2>2, <2>3
<1>6. /\ (\A i \in 6..7 : f[i] = O[i]) <=> T[5] = Q[5] /\ T[6] = Q[6]
      /\ (\A i \in 8..9 : f[i] = O[i]) <=> T[7] = Q[7] /\ T[8] = Q[8]
      /\ (\A i \in 10..13 : f[i] = O[i])
           <=> T[9] = Q[9] /\ T[10] = Q[10] /\ T[11] = Q[11] /\ T[12] = Q[12]
  <2>1. /\ T[5] = f[6] /\ T[6] = f[7] /\ T[7] = f[8] /\ T[8] = f[9]
        /\ T[9] = f[10] /\ T[10] = f[11] /\ T[11] = f[12] /\ T[12] = f[13]
    BY <1>5
  <2>2. /\ Q[5] = O[6] /\ Q[6] = O[7] /\ Q[7] = O[8] /\ Q[8] = O[9]
        /\ Q[9] = O[10] /\ Q[10] = O[11] /\ Q[11] = O[12] /\ Q[12] = O[13]
    BY <1>5
  <2>3. 6..7 = {6, 7} /\ 8..9 = {8, 9} /\ 10..13 = {10, 11, 12, 13}
    OBVIOUS
  <2> QED BY <2>1, <2>2, <2>3
<1>7. \A i \in 1..12 : T[i] \in Byte /\ Q[i] \in Byte
  <2>1. Len(T) \in Nat /\ Len(T) >= 12 /\ Len(Q) \in Nat /\ Len(Q) >= 12
    BY <1>1, <1>2, <1>3
  <2>2. 1..12 \subseteq 1..Len(T) /\ 1..12 \subseteq 1..Len(Q)
    BY <2>1
  <2> QED BY <1>1, <1>3, <2>2, ElementOfSeq
<1>8. Value16(T, 4) = kProtocolVersion <=> \A i \in 6..7 : f[i] = O[i]
  <2>1. ASSUME T[5] = Q[5], T[6] = Q[6] PROVE Value16(T, 4) = Value16(Q, 4)
    BY <2>1 DEF Value16
  <2>2. ASSUME Value16(T, 4) = Value16(Q, 4) PROVE T[5] = Q[5] /\ T[6] = Q[6]
    <3>1. \A i \in 1..2 : T[4 + i] \in Byte /\ Q[4 + i] \in Byte
      BY <1>7
    <3>2. /\ Bytes16(Value16(T, 4)) = [i \in 1..2 |-> T[4 + i]]
          /\ Bytes16(Value16(Q, 4)) = [i \in 1..2 |-> Q[4 + i]]
      BY <3>1, Read16
    <3>3. \A i \in 1..2 : T[4 + i] = Q[4 + i]
      BY <2>2, <3>2
    <3> QED BY <3>3
  <2> QED BY <1>1, <1>6, <2>1, <2>2
<1>9. (\A i \in 8..9 : f[i] = O[i]) => Value16(T, 6) = n
  BY <1>1, <1>6 DEF Value16
<1>10. Value32(T, 8) = Len(P) <=> \A i \in 10..13 : f[i] = O[i]
  <2>1. ASSUME T[9] = Q[9], T[10] = Q[10], T[11] = Q[11], T[12] = Q[12]
        PROVE  Value32(T, 8) = Value32(Q, 8)
    BY <2>1 DEF Value32, Value16
  <2>2. ASSUME Value32(T, 8) = Value32(Q, 8)
        PROVE  T[9] = Q[9] /\ T[10] = Q[10] /\ T[11] = Q[11] /\ T[12] = Q[12]
    <3>1. \A i \in 1..4 : T[8 + i] \in Byte /\ Q[8 + i] \in Byte
      BY <1>7
    <3>2. /\ Bytes32(Value32(T, 8)) = [i \in 1..4 |-> T[8 + i]]
          /\ Bytes32(Value32(Q, 8)) = [i \in 1..4 |-> Q[8 + i]]
      BY <3>1, Read32
    <3>3. \A i \in 1..4 : T[8 + i] = Q[8 + i]
      BY <2>2, <3>2
    <3> QED BY <3>3
  <2> QED BY <1>1, <1>6, <2>1, <2>2
<1> HIDE DEF R
<1>11. /\ Received(f) = DecodePacket(T)
       /\ ~(Len(T) < kHeaderSize) /\ SubSeq(T, 1, 4) = MagicBytes
       /\ Len(R) = Len(f) - 13
  BY <1>3, <1>4
<1> QED BY <1>8, <1>9, <1>10, <1>11 DEF O, T, R, Same

(* A packet whose length is not the one its header names.                    *)
LEMMA WrongLength ==
  ASSUME NEW n \in 1..10, NEW P \in Seq(Byte), Len(P) <= LongestPayload,
         NEW f \in Seq(Byte), Len(f) >= 13, Len(f) <= kMaximumFrameSize,
         Same(f, n, P, 1..13)
  PROVE  /\ Len(f) < 13 + Len(P) => Received(f) = Failure("TruncatedPayload")
         /\ Len(f) > 13 + Len(P) => Received(f) = Failure("PayloadLengthMismatch")
<1> DEFINE T == Tail(f)
           R == SubSeq(T, kHeaderSize + 1, Len(T))
<1>1. Len(P) \in Nat /\ Len(f) \in Nat
  BY LenProperties
<1>2. /\ Received(f) = DecodePacket(T)
      /\ ~(Len(T) < kHeaderSize) /\ SubSeq(T, 1, 4) = MagicBytes
      /\ Len(R) = Len(f) - 13
      /\ Value16(T, 4) = kProtocolVersion
      /\ Value32(T, 8) = Len(P)
  <2>1. Same(f, n, P, 1..5) /\ Same(f, n, P, 6..7) /\ Same(f, n, P, 10..13)
    BY DEF Same
  <2>2. /\ Received(f) = DecodePacket(T)
        /\ ~(Len(T) < kHeaderSize) /\ SubSeq(T, 1, 4) = MagicBytes
        /\ Len(R) = Len(f) - 13
        /\ Value16(T, 4) = kProtocolVersion <=> Same(f, n, P, 6..7)
        /\ Value32(T, 8) = Len(P) <=> Same(f, n, P, 10..13)
    BY <2>1, HeaderArrives, ZenonT(40)
  <2> HIDE DEF T, R
  <2> QED BY <2>1, <2>2
<1>3. R = SubSeq(T, kHeaderSize + 1, Len(T))
  OBVIOUS
<1> HIDE DEF T, R
<1>4. ~(Value32(T, 8) > kMaximumPayloadSize)
  BY <1>1, <1>2, PayloadFits
<1>5. Len(f) < 13 + Len(P) => Value32(T, 8) > Len(R) /\ Value32(T, 8) # Len(R)
  BY <1>1, <1>2
<1>6. Len(f) > 13 + Len(P) => ~(Value32(T, 8) > Len(R)) /\ Value32(T, 8) # Len(R)
  BY <1>1, <1>2
<1> QED BY <1>2, <1>3, <1>4, <1>5, <1>6, PacketTests

(* A cut frame.                                                              *)
LEMMA CutFrame ==
  ASSUME NEW n \in 1..10, NEW P \in Seq(Byte), Len(P) <= LongestPayload,
         NEW at \in 1..Len(FrameOf(n, P))
  PROVE  Received(SubSeq(FrameOf(n, P), 1, at - 1)).error
           = IF at <= 5 THEN "Unrelated"
             ELSE IF at <= 13 THEN "TruncatedHeader" ELSE "TruncatedPayload"
<1> DEFINE O == FrameOf(n, P)
           Q == PacketBytes(n, P)
           f == SubSeq(O, 1, at - 1)
<1>1. /\ Len(P) \in Nat
      /\ O \in Seq(Byte) /\ Len(O) = 13 + Len(P)
      /\ \A i \in 1..(12 + Len(P)) : O[1 + i] = Q[i]
      /\ Value16(Q, 4) = kProtocolVersion
      /\ Value32(Q, 8) = Len(P)
  BY FrameIs
<1>2. at \in Nat /\ at >= 1 /\ at <= 13 + Len(P)
  BY <1>1
<1>3. \A i \in 1..13 : O[i] = FrameOf(n, P)[i]
  OBVIOUS
<1> HIDE DEF O, Q
<1>4. f \in Seq(Byte) /\ Len(f) = at - 1 /\ \A i \in 1..(at - 1) : f[i] = O[i]
  <2> DEFINE l == at - 1
  <2>1. l \in Nat /\ 0 + l <= Len(O)
    BY <1>1, <1>2
  <2> HIDE DEF l
  <2>2. /\ SubSeq(O, 0 + 1, 0 + l) \in Seq(Byte)
        /\ Len(SubSeq(O, 0 + 1, 0 + l)) = l
        /\ \A i \in 1..l : SubSeq(O, 0 + 1, 0 + l)[i] = O[0 + i]
    BY <1>1, <2>1, Part
  <2>3. 0 + l = at - 1 /\ \A i \in 1..l : 0 + i = i
    BY <2>1 DEF l
  <2> QED BY <2>2, <2>3 DEF l
<1> HIDE DEF f
<1>5. CASE at <= 5
  <2>1. ~IsClaimed(f)
    BY <1>2, <1>4, <1>5, ClaimedIs
  <2>2. Received(f).error = "Unrelated"
    BY <2>1 DEF Received, Unrelated, Failure
  <2> QED BY <1>5, <2>2 DEF f, O
<1>6. CASE at > 5 /\ at <= 13
  <2> DEFINE T == Tail(f)
  <2>1. Len(f) >= 5 /\ Same(f, n, P, 1..5)
    BY <1>2, <1>3, <1>4, <1>6 DEF Same
  <2>2. Received(f) = DecodePacket(T) /\ Len(T) = Len(f) - 1
    <3>1. ~(Len(f) > kMaximumFrameSize)
      BY <1>2, <1>4, FrameFits
    <3> QED BY <1>4, <2>1, <3>1, Claims
  <2> HIDE DEF T
  <2>3. Len(T) < kHeaderSize
    BY <1>2, <1>4, <1>6, <2>2 DEF kHeaderSize
  <2>4. Received(f).error = "TruncatedHeader"
    BY <2>2, <2>3 DEF DecodePacket, Failure
  <2> QED BY <1>2, <1>6, <2>4 DEF f, O
<1>7. CASE at > 13
  <2>1. Len(f) >= 13 /\ Len(f) < 13 + Len(P)
    BY <1>1, <1>2, <1>4, <1>7
  <2>2. Same(f, n, P, 1..13)
    <3>1. \A i \in 1..13 : i \in 1..(at - 1)
      BY <1>2, <1>7
    <3> QED BY <1>3, <1>4, <3>1 DEF Same
  <2>3. Received(f) = Failure("TruncatedPayload")
    <3>1. Len(f) <= kMaximumFrameSize
      BY <1>2, <1>4, FrameFits
    <3> QED BY <1>4, <2>1, <2>2, <3>1, WrongLength
  <2>4. Received(f).error = "TruncatedPayload"
    BY <2>3 DEF Failure
  <2> QED BY <1>2, <1>7, <2>4 DEF f, O
<1> QED BY <1>2, <1>5, <1>6, <1>7

(* A frame with one byte more.                                               *)
LEMMA GrownFrame ==
  ASSUME NEW n \in 1..10, NEW P \in Seq(Byte), Len(P) <= LongestPayload, NEW byte \in Byte
  PROVE  Received(Append(FrameOf(n, P), byte)).error
           = IF Len(FrameOf(n, P)) + 1 > kMaximumFrameSize THEN "OversizedFrame"
             ELSE "PayloadLengthMismatch"
<1> DEFINE O == FrameOf(n, P)
           f == Append(O, byte)
<1>1. Len(P) \in Nat /\ O \in Seq(Byte) /\ Len(O) = 13 + Len(P)
  BY FrameIs
<1>2. /\ f \in Seq(Byte) /\ Len(f) = Len(O) + 1
      /\ \A i \in 1..Len(O) : f[i] = O[i]
  <2> HIDE DEF O
  <2> QED BY <1>1, AppendProperties
<1> HIDE DEF f
<1>3. /\ Len(f) > 13 + Len(P) /\ Len(f) >= 13 /\ Len(f) >= 5
      /\ \A i \in 1..13 : i \in 1..Len(O)
  BY <1>1, <1>2
<1>4. Same(f, n, P, 1..13) /\ Same(f, n, P, 1..5)
  <2>1. \A i \in 1..13 : f[i] = O[i]
    BY <1>2, <1>3
  <2>2. \A i \in 1..5 : i \in 1..13
    OBVIOUS
  <2> QED BY <2>1, <2>2, Zenon DEF Same
<1>5. CASE Len(f) > kMaximumFrameSize
  <2>1. Received(f) = Failure("OversizedFrame")
    BY <1>2, <1>3, <1>4, <1>5, Claims
  <2> QED BY <1>2, <1>5, <2>1 DEF f, Failure
<1>6. CASE ~(Len(f) > kMaximumFrameSize)
  <2>1. Len(f) <= kMaximumFrameSize
    BY <1>1, <1>2, <1>6, FrameFits
  <2>2. Received(f) = Failure("PayloadLengthMismatch")
    BY <1>2, <1>3, <1>4, <2>1, WrongLength
  <2> QED BY <1>2, <1>6, <2>2 DEF f, Failure
<1> QED BY <1>5, <1>6

(* A frame of the right length, whose header is untouched up to its type.    *)
LEMMA BodyErrors ==
  ASSUME NEW n \in 1..10, NEW P \in Seq(Byte), Len(P) <= LongestPayload,
         NEW f \in Seq(Byte), Len(f) = 13 + Len(P), Same(f, n, P, 1..7), Same(f, n, P, 10..13)
  PROVE  Received(f).error \in {"None", "UnknownMessageType", "InvalidField",
                                "TruncatedPayload", "PayloadLengthMismatch"}
<1> DEFINE T == Tail(f)
           R == SubSeq(T, kHeaderSize + 1, Len(T))
<1>1. Len(P) \in Nat /\ Len(f) >= 13 /\ Len(f) <= kMaximumFrameSize
  BY FrameFits
<1>2. /\ Received(f) = DecodePacket(T)
      /\ ~(Len(T) < kHeaderSize) /\ SubSeq(T, 1, 4) = MagicBytes
      /\ Len(R) = Len(f) - 13
      /\ Value16(T, 4) = kProtocolVersion
      /\ Value32(T, 8) = Len(P)
  <2>1. Same(f, n, P, 1..5) /\ Same(f, n, P, 6..7)
    BY DEF Same
  <2> QED BY <1>1, <2>1, HeaderArrives
<1>3. R = SubSeq(T, kHeaderSize + 1, Len(T))
  OBVIOUS
<1> HIDE DEF T, R
<1>4. ~(Value32(T, 8) > kMaximumPayloadSize)
  BY <1>1, <1>2, PayloadFits
<1>5. Len(R) = Len(P) /\ ~(Value32(T, 8) > Len(R)) /\ ~(Value32(T, 8) # Len(R))
  BY <1>1, <1>2
<1>6. \/ DecodePacket(T) = Failure("UnknownMessageType")
      \/ Value16(T, 6) \in 1..10 /\ DecodePacket(T) = DecodePayload(MessageTypes[Value16(T, 6)], R)
  BY <1>2, <1>3, <1>4, <1>5, PacketTests
<1>7. CASE DecodePacket(T) = Failure("UnknownMessageType")
  BY <1>2, <1>7 DEF Failure
<1>8. CASE /\ Value16(T, 6) \in 1..10
           /\ DecodePacket(T) = DecodePayload(MessageTypes[Value16(T, 6)], R)
  <2> DEFINE k == Value16(T, 6)
  <2>1. k \in 1..10 /\ Received(f) = DecodePayload(MessageTypes[k], R)
    BY <1>2, <1>8
  <2> HIDE DEF k
  <2>2. DecodePayload(MessageTypes[k], R).error
          \in {"None", "TruncatedPayload", "InvalidField", "PayloadLengthMismatch"}
    BY <2>1, PayloadErrors
  <2> QED BY <2>1, <2>2
<1> QED BY <1>6, <1>7, <1>8

(* A frame one byte of which is another.                                     *)
LEMMA ChangedFrame ==
  ASSUME NEW n \in 1..10, NEW P \in Seq(Byte), Len(P) <= LongestPayload,
         NEW at \in 1..Len(FrameOf(n, P)), NEW byte \in Byte, byte # FrameOf(n, P)[at]
  PROVE  LET f == [FrameOf(n, P) EXCEPT ![at] = byte] IN
         /\ f \in Seq(Byte)
         /\ Received(f).error \in
              IF at <= 5 THEN {"Unrelated"}
              ELSE IF at <= 7 THEN {"UnsupportedProtocolVersion"}
              ELSE IF at \in 10..13
                   THEN {"OversizedPayload", "TruncatedPayload", "PayloadLengthMismatch"}
              ELSE {"None", "UnknownMessageType", "InvalidField", "TruncatedPayload",
                    "PayloadLengthMismatch"}
<1> DEFINE O == FrameOf(n, P)
           f == [O EXCEPT ![at] = byte]
<1>1. /\ Len(P) \in Nat
      /\ O \in Seq(Byte) /\ Len(O) = 13 + Len(P)
      /\ O[1] = kRakNetPacketId
      /\ \A i \in 1..4 : O[1 + i] = MagicBytes[i]
  BY FrameIs
<1>2. at \in Nat /\ at >= 1 /\ at <= 13 + Len(P) /\ byte # O[at]
  BY <1>1
<1>3. \A S : (\A i \in S : f[i] = O[i]) => Same(f, n, P, S)
  BY DEF Same
<1>4. \A S : Same(f, n, P, S) => \A i \in S : f[i] = O[i]
  BY DEF Same
<1> HIDE DEF O
<1>5. /\ f \in Seq(Byte) /\ Len(f) = 13 + Len(P)
      /\ f[at] = byte
      /\ \A i \in 1..(13 + Len(P)) : i # at => f[i] = O[i]
  <2>1. O \in [1..(13 + Len(P)) -> Byte]
    <3>1. O \in [1..Len(O) -> Byte]
      BY <1>1, LenProperties
    <3> QED BY <1>1, <3>1
  <2>2. f \in [1..(13 + Len(P)) -> Byte]
    BY <2>1
  <2>3. f \in Seq(Byte) /\ Len(f) = 13 + Len(P)
    <3> HIDE DEF f
    <3>1. 13 + Len(P) \in Nat
      BY <1>1
    <3> QED BY <2>2, <3>1, BytesAreSequence
  <2>4. at \in 1..(13 + Len(P))
    BY <1>2
  <2> QED BY <2>1, <2>3, <2>4
<1> HIDE DEF f
<1>6. /\ Len(f) >= 13 /\ Len(f) <= kMaximumFrameSize
      /\ \A i \in 1..13 : i # at => f[i] = O[i]
  <2>1. Len(f) >= 13 /\ Len(f) <= kMaximumFrameSize /\ 1..13 \subseteq 1..(13 + Len(P))
    BY <1>1, <1>5, FrameFits
  <2> QED BY <1>5, <2>1
<1>7. CASE at <= 5
  <2>1. ~IsClaimed(f)
    <3>1. CASE at = 1
      BY <1>1, <1>2, <1>5, <3>1, ClaimedIs
    <3>2. CASE at # 1
      <4>1. at - 1 \in 1..4 /\ 1 + (at - 1) = at
        BY <1>2, <1>7, <3>2
      <4>2. PICK j \in 1..4 : at = 1 + j
        BY <4>1
      <4>3. f[1 + j] # MagicBytes[j]
        BY <1>1, <1>2, <1>5, <4>2
      <4> QED BY <1>5, <4>3, ClaimedIs
    <3> QED BY <3>1, <3>2
  <2>2. Received(f).error = "Unrelated"
    BY <2>1 DEF Received, Unrelated, Failure
  <2> QED BY <1>5, <1>7, <2>2 DEF f, O
<1>8. CASE at > 5
  <2> DEFINE T == Tail(f)
             R == SubSeq(T, kHeaderSize + 1, Len(T))
  <2>1. Same(f, n, P, 1..5)
    <3>1. \A i \in 1..5 : f[i] = O[i]
      <4>1. \A i \in 1..5 : i \in 1..13 /\ i # at
        BY <1>2, <1>8
      <4> QED BY <1>6, <4>1
    <3> QED BY <1>3, <3>1
  <2>2. /\ Received(f) = DecodePacket(T)
        /\ ~(Len(T) < kHeaderSize) /\ SubSeq(T, 1, 4) = MagicBytes
        /\ Len(R) = Len(f) - 13
        /\ Value16(T, 4) = kProtocolVersion <=> Same(f, n, P, 6..7)
        /\ Value32(T, 8) = Len(P) <=> Same(f, n, P, 10..13)
    BY <1>5, <1>6, <2>1, HeaderArrives
  <2>3. R = SubSeq(T, kHeaderSize + 1, Len(T))
    OBVIOUS
  <2> HIDE DEF T, R
  <2>4. CASE at <= 7
    <3>1. ~Same(f, n, P, 6..7)
      <4>1. at \in 6..7 /\ f[at] # O[at]
        BY <1>2, <1>5, <1>8, <2>4
      <4> QED BY <1>4, <4>1
    <3>2. DecodePacket(T) = Failure("UnsupportedProtocolVersion")
      BY <2>2, <3>1, PacketTests
    <3>3. Received(f).error = "UnsupportedProtocolVersion"
      BY <2>2, <3>2 DEF Failure
    <3> QED BY <1>2, <1>5, <1>8, <2>4, <3>3 DEF f, O
  <2>5. CASE at \in 10..13
    <3>1. Value32(T, 8) # Len(P)
      <4>1. f[at] # O[at]
        BY <1>2, <1>5
      <4> QED BY <1>4, <2>2, <2>5, <4>1
    <3>2. Value16(T, 4) = kProtocolVersion
      <4>1. Same(f, n, P, 6..7)
        <5>1. \A i \in 6..7 : f[i] = O[i]
          <6>1. \A i \in 6..7 : i \in 1..13 /\ i # at
            BY <1>2, <2>5
          <6> QED BY <1>6, <6>1
        <5> QED BY <1>3, <5>1
      <4> QED BY <2>2, <4>1
    <3>3. Len(R) = Len(P)
      BY <1>1, <1>5, <2>2
    <3>4. \/ DecodePacket(T) = Failure("OversizedPayload")
          \/ DecodePacket(T) = Failure("TruncatedPayload")
          \/ DecodePacket(T) = Failure("PayloadLengthMismatch")
      BY <2>2, <2>3, <3>1, <3>2, <3>3, PacketTests
    <3>5. Received(f).error
            \in {"OversizedPayload", "TruncatedPayload", "PayloadLengthMismatch"}
      BY <2>2, <3>4 DEF Failure
    <3>6. ~(at <= 5) /\ ~(at <= 7)
      BY <2>5
    <3> QED BY <1>5, <2>5, <3>5, <3>6 DEF f, O
  <2>6. CASE ~(at <= 7) /\ ~(at \in 10..13)
    <3>1. Same(f, n, P, 1..7) /\ Same(f, n, P, 10..13)
      <4>1. \A i \in 1..7 : f[i] = O[i]
        <5>1. \A i \in 1..7 : i \in 1..13 /\ i # at
          BY <1>2, <2>6
        <5> QED BY <1>6, <5>1
      <4>2. \A i \in 10..13 : f[i] = O[i]
        <5>1. \A i \in 10..13 : i \in 1..13 /\ i # at
          BY <1>2, <2>6
        <5> QED BY <1>6, <5>1
      <4> QED BY <1>3, <4>1, <4>2
    <3>2. Received(f).error \in {"None", "UnknownMessageType", "InvalidField",
                                 "TruncatedPayload", "PayloadLengthMismatch"}
      BY <1>5, <3>1, BodyErrors
    <3>3. ~(at <= 5)
      BY <1>2, <1>8
    <3> QED BY <1>5, <2>6, <3>2, <3>3 DEF f, O
  <2> QED BY <2>4, <2>5, <2>6
<1> QED BY <1>2, <1>7, <1>8

-----------------------------------------------------------------------------
(* The inductive invariant.                                                  *)

(* The frame of message m as it leaves its sender.                           *)
Original(m) == FrameOf(TypeOf(m), PayloadOf(TypeOf(m), m))

(* What the damage says of the frame.                                        *)
Damaged ==
  \/ damage = Unharmed /\ frame = Original(sent)
  \/ /\ damage.kind = "Cut" /\ damage.at \in 1..Len(Original(sent))
     /\ frame = SubSeq(Original(sent), 1, damage.at - 1)
  \/ /\ damage.kind = "Grown" /\ damage.at = Len(Original(sent)) + 1
     /\ \E byte \in Byte : frame = Append(Original(sent), byte)
  \/ /\ damage.kind = "Changed" /\ damage.at \in 1..Len(Original(sent))
     /\ \E byte \in Byte : /\ byte # Original(sent)[damage.at]
                           /\ frame = [Original(sent) EXCEPT ![damage.at] = byte]
  \/ damage.kind = "Several"

(* Before Send nothing has happened; what is on its way is a valid message's *)
(* frame, damaged as it is said; and what was received is what the receiver  *)
(* makes of the frame, unless the encoder had refused the message.           *)
WireInv ==
  /\ sent \in Outgoing
  /\ frame \in Seq(Byte)
  /\ stage \in {"Idle", "Flight", "Done"}
  /\ stage = "Idle" => damage = Unharmed /\ outcome = Ignored
  /\ stage = "Flight" => AreFieldsValid(sent) /\ Damaged
  /\ stage = "Done" =>
       \/ ~AreFieldsValid(sent) /\ damage = Unharmed /\ outcome = Ignored
       \/ AreFieldsValid(sent) /\ Damaged /\ outcome = Received(frame)

(* What the codec makes of a valid message.                                  *)
LEMMA SentIs ==
  ASSUME NEW m, IsMessage(m), AreFieldsValid(m)
  PROVE  LET n == TypeOf(m)
             P == PayloadOf(n, m) IN
         /\ n \in 1..10 /\ P \in Seq(Byte) /\ Len(P) <= LongestPayload
         /\ EncodePacket(m, kProtocolVersion)
              = [error |-> "None", bytes |-> PacketBytes(n, P)]
         /\ DecodePacket(PacketBytes(n, P)) = [error |-> "None", message |-> m]
<1>1. PICK n \in 1..10 : m.type = MessageTypes[n] /\ CarriesAll(Written[MessageTypes[n]], m)
  BY ValidCarries
<1>2. TypeOf(m) = n
  BY <1>1, TypeOfMessage
<1>3. /\ PayloadOf(n, m) \in Seq(Byte) /\ Len(PayloadOf(n, m)) <= LongestPayload
      /\ EncodePacket(m, kProtocolVersion)
           = [error |-> "None", bytes |-> PacketBytes(n, PayloadOf(n, m))]
  BY <1>1, Encoded
<1>4. DecodePacket(PacketBytes(n, PayloadOf(n, m))) = [error |-> "None", message |-> m]
  BY <1>1, DecodeIs
<1> QED BY <1>2, <1>3, <1>4

(* The frame of a valid message.                                             *)
LEMMA OriginalIs ==
  ASSUME NEW m, IsMessage(m), AreFieldsValid(m)
  PROVE  /\ Original(m) \in Seq(Byte) /\ Original(m) # <<>>
         /\ EncodePacket(m, kProtocolVersion).error = "None"
         /\ EncodeFrame(EncodePacket(m, kProtocolVersion).bytes) = Original(m)
         /\ Received(Original(m)) = [error |-> "None", message |-> m]
<1> DEFINE n == TypeOf(m)
           P == PayloadOf(n, m)
<1>1. /\ n \in 1..10 /\ P \in Seq(Byte) /\ Len(P) <= LongestPayload
      /\ EncodePacket(m, kProtocolVersion) = [error |-> "None", bytes |-> PacketBytes(n, P)]
      /\ DecodePacket(PacketBytes(n, P)) = [error |-> "None", message |-> m]
  BY SentIs
<1>2. Original(m) = FrameOf(n, P)
  BY DEF Original
<1> HIDE DEF n, P
<1>3. FrameOf(n, P) \in Seq(Byte)
  BY <1>1, FrameIs
<1>4. /\ EncodeFrame(PacketBytes(n, P)) = FrameOf(n, P)
      /\ FrameOf(n, P) # <<>>
      /\ IsClaimed(FrameOf(n, P))
      /\ Tail(FrameOf(n, P)) = PacketBytes(n, P)
  BY <1>1, WholeFrame
<1>5. Received(FrameOf(n, P)) = [error |-> "None", message |-> m]
  <2>1. ~(Len(FrameOf(n, P)) > kMaximumFrameSize)
    <3>1. Len(FrameOf(n, P)) = 13 + Len(P)
      BY <1>1, FrameIs
    <3>2. /\ Len(P) \in Nat /\ 13 + Len(P) <= kMaximumFrameSize
          /\ kMaximumFrameSize \in Nat
      BY <1>1, FrameFits
    <3> QED BY <3>1, <3>2
  <2> QED BY <1>1, <1>4, <2>1 DEF Received
<1>6. /\ EncodePacket(m, kProtocolVersion).error = "None"
      /\ EncodePacket(m, kProtocolVersion).bytes = PacketBytes(n, P)
  BY <1>1
<1> QED BY <1>2, <1>3, <1>4, <1>5, <1>6

(* It holds before anything happens.                                         *)
LEMMA WireInvStarts == Init => WireInv
BY EmptySeq DEF Init, WireInv

(* A frame that is cut, grown or changed is still a sequence of bytes.       *)
LEMMA DamagedIsBytes ==
  ASSUME NEW f \in Seq(Byte)
  PROVE  /\ \A at \in 1..Len(f) : SubSeq(f, 1, at - 1) \in Seq(Byte)
         /\ \A byte \in Byte : Append(f, byte) \in Seq(Byte)
         /\ \A at \in DOMAIN f, byte \in Byte : [f EXCEPT ![at] = byte] \in Seq(Byte)
<1>1. Len(f) \in Nat
  BY LenProperties
<1>2. ASSUME NEW at \in 1..Len(f) PROVE SubSeq(f, 1, at - 1) \in Seq(Byte)
  <2> DEFINE l == at - 1
  <2>1. l \in Nat /\ 0 + l <= Len(f)
    BY <1>1
  <2> HIDE DEF l
  <2>2. SubSeq(f, 0 + 1, 0 + l) \in Seq(Byte)
    BY <2>1, Part
  <2>3. 0 + 1 = 1 /\ 0 + l = l
    BY <2>1
  <2> QED BY <2>2, <2>3 DEF l
<1>3. ASSUME NEW byte \in Byte PROVE Append(f, byte) \in Seq(Byte)
  BY AppendProperties
<1>4. ASSUME NEW at \in DOMAIN f, NEW byte \in Byte
      PROVE  [f EXCEPT ![at] = byte] \in Seq(Byte)
  <2> DEFINE g == [f EXCEPT ![at] = byte]
  <2>1. f \in [1..Len(f) -> Byte]
    BY LenProperties
  <2>2. g \in [1..Len(f) -> Byte]
    BY <2>1
  <2> HIDE DEF g
  <2>3. g \in Seq(Byte)
    BY <1>1, <2>2, BytesAreSequence
  <2> QED BY <2>3 DEF g
<1> QED BY <1>2, <1>3, <1>4

(* A damaged frame's relation to the frame that was sent, by damage.         *)
LEMMA DamageKeepsTrack ==
  ASSUME WireInv, NEW kind \in {"Cut", "Grown", "Changed"}, NEW at, NEW damaged,
         Damage(kind, at, damaged), damaged \in Seq(Byte),
         damage = Unharmed /\ frame = Original(sent) =>
           \/ /\ kind = "Cut" /\ at \in 1..Len(frame)
              /\ damaged = SubSeq(frame, 1, at - 1)
           \/ /\ kind = "Grown" /\ at = Len(frame) + 1
              /\ \E byte \in Byte : damaged = Append(frame, byte)
           \/ /\ kind = "Changed" /\ at \in 1..Len(frame)
              /\ \E byte \in Byte : /\ byte # frame[at]
                                    /\ damaged = [frame EXCEPT ![at] = byte]
  PROVE  WireInv'
<1>1. /\ stage = "Flight" /\ damage.kind # "Several"
      /\ damage' = IF damage = Unharmed THEN [kind |-> kind, at |-> at]
                   ELSE [kind |-> "Several", at |-> 0]
      /\ frame' = damaged
      /\ UNCHANGED <<stage, sent, outcome>>
  BY DEF Damage
<1>2. sent \in Outgoing /\ AreFieldsValid(sent) /\ Damaged
  BY <1>1 DEF WireInv
<1>3. Damaged'
  <2>1. Original(sent)' = Original(sent)
    BY <1>1
  <2>2. CASE damage = Unharmed
    <3>1. frame = Original(sent)
      BY <1>2, <2>2 DEF Damaged, Unharmed
    <3>2. damage'.kind = kind /\ damage'.at = at
      BY <1>1, <2>2
    <3> QED BY <1>1, <2>1, <2>2, <3>1, <3>2 DEF Damaged
  <2>3. CASE damage # Unharmed
    BY <1>1, <2>3 DEF Damaged
  <2> QED BY <2>2, <2>3
<1> QED BY <1>1, <1>2, <1>3 DEF WireInv

(* Every step keeps the invariant.                                           *)
LEMMA WireInvStays == WireInv /\ [Next]_vars => WireInv'
<1> SUFFICES ASSUME WireInv, [Next]_vars PROVE WireInv'
  OBVIOUS
<1>1. sent \in Outgoing /\ frame \in Seq(Byte) /\ IsMessage(sent)
  BY OutgoingAssumption DEF WireInv
<1>2. CASE Send
  <2> DEFINE encoded == EncodePacket(sent, kProtocolVersion)
             framed == EncodeFrame(encoded.bytes)
  <2>1. /\ stage = "Idle"
        /\ IF encoded.error = "None" /\ framed # <<>>
           THEN stage' = "Flight" /\ frame' = framed
           ELSE stage' = "Done" /\ frame' = <<>>
        /\ UNCHANGED <<sent, damage, outcome>>
    BY <1>2 DEF Send
  <2>2. damage = Unharmed /\ outcome = Ignored
    BY <2>1 DEF WireInv
  <2>3. CASE AreFieldsValid(sent)
    <3>1. /\ Original(sent) \in Seq(Byte) /\ Original(sent) # <<>>
          /\ encoded.error = "None" /\ framed = Original(sent)
      BY <1>1, <2>3, OriginalIs
    <3> HIDE DEF encoded, framed
    <3>2. stage' = "Flight" /\ frame' = Original(sent)
      BY <2>1, <3>1
    <3>3. Damaged'
      BY <2>1, <2>2, <3>2 DEF Damaged
    <3> QED BY <1>1, <2>1, <2>2, <2>3, <3>1, <3>2, <3>3 DEF WireInv
  <2>4. CASE ~AreFieldsValid(sent)
    <3>1. encoded.error # "None"
      <4>1. EncodePayload(sent) = Refused("InvalidField")
        BY <2>4 DEF EncodePayload
      <4>2. encoded = Refused("InvalidField")
        BY <4>1 DEF EncodePacket, Refused
      <4> QED BY <4>2 DEF Refused
    <3> HIDE DEF encoded, framed
    <3>2. stage' = "Done" /\ frame' = <<>>
      BY <2>1, <3>1
    <3> QED BY <1>1, <2>1, <2>2, <2>4, <3>2, EmptySeq DEF WireInv
  <2> QED BY <2>3, <2>4
<1>3. CASE Cut
  <2>1. PICK n \in 1..Len(frame) : Damage("Cut", n, SubSeq(frame, 1, n - 1))
    BY <1>3 DEF Cut
  <2>2. SubSeq(frame, 1, n - 1) \in Seq(Byte)
    BY <1>1, DamagedIsBytes
  <2> DEFINE f == SubSeq(frame, 1, n - 1)
  <2>3. Damage("Cut", n, f) /\ f \in Seq(Byte) /\ f = SubSeq(frame, 1, n - 1)
    BY <2>1, <2>2
  <2> HIDE DEF f
  <2> QED BY <2>3, DamageKeepsTrack
<1>4. CASE Grow
  <2>1. PICK byte \in Byte : Damage("Grown", Len(frame) + 1, Append(frame, byte))
    BY <1>4 DEF Grow
  <2>2. Append(frame, byte) \in Seq(Byte)
    BY <1>1, DamagedIsBytes
  <2> DEFINE f == Append(frame, byte)
             at == Len(frame) + 1
  <2>3. /\ Damage("Grown", at, f) /\ at = Len(frame) + 1
        /\ f \in Seq(Byte) /\ f = Append(frame, byte)
    BY <2>1, <2>2
  <2> HIDE DEF f, at
  <2> QED BY <2>3, DamageKeepsTrack
<1>5. CASE Change
  <2>1. PICK n \in DOMAIN frame, byte \in Byte :
          byte # frame[n] /\ Damage("Changed", n, [frame EXCEPT ![n] = byte])
    BY <1>5 DEF Change
  <2>2. n \in 1..Len(frame)
    BY <1>1, LenProperties
  <2>3. [frame EXCEPT ![n] = byte] \in Seq(Byte)
    BY <1>1, DamagedIsBytes
  <2> DEFINE f == [frame EXCEPT ![n] = byte]
  <2>4. Damage("Changed", n, f) /\ f \in Seq(Byte) /\ f = [frame EXCEPT ![n] = byte]
    BY <2>1, <2>3
  <2> HIDE DEF f
  <2> QED BY <2>1, <2>2, <2>4, DamageKeepsTrack
<1>6. CASE Receive
  <2>1. /\ stage = "Flight" /\ stage' = "Done"
        /\ outcome' = Received(frame)
        /\ UNCHANGED <<sent, frame, damage>>
    BY <1>6 DEF Receive
  <2>2. AreFieldsValid(sent) /\ Damaged
    BY <2>1 DEF WireInv
  <2>3. Damaged' /\ outcome' = Received(frame')
    BY <2>1, <2>2 DEF Damaged
  <2> QED BY <1>1, <2>1, <2>2, <2>3 DEF WireInv
<1>7. CASE UNCHANGED vars
  BY <1>7 DEF vars, WireInv, Damaged
<1> QED BY <1>2, <1>3, <1>4, <1>5, <1>6, <1>7 DEF Next

(* The invariant holds in every reachable state.                             *)
THEOREM WireInvHolds == Spec => []WireInv
BY WireInvStarts, WireInvStays, PTL DEF Spec

-----------------------------------------------------------------------------
(* The properties.                                                           *)

(* Every message of the programs, whatever its fields hold, is either        *)
(* refused by EncodePayload for an invalid field, or encoded, framed,        *)
(* claimed and decoded by the other end to itself.                           *)
THEOREM RoundTripHolds == Spec => []RoundTrip
<1>1. WireInv => RoundTrip
  <2> SUFFICES ASSUME WireInv, stage = "Done", damage = Unharmed
               PROVE  outcome = IF AreFieldsValid(sent)
                                THEN [error |-> "None", message |-> sent] ELSE Ignored
    BY DEF RoundTrip
  <2>1. IsMessage(sent)
    BY OutgoingAssumption DEF WireInv
  <2>2. CASE ~AreFieldsValid(sent)
    BY <2>2 DEF WireInv
  <2>3. CASE AreFieldsValid(sent)
    <3>1. Damaged /\ outcome = Received(frame)
      BY <2>3 DEF WireInv
    <3>2. frame = Original(sent)
      BY <3>1 DEF Damaged, Unharmed
    <3>3. Received(Original(sent)) = [error |-> "None", message |-> sent]
      BY <2>1, <2>3, OriginalIs
    <3> QED BY <2>3, <3>1, <3>2, <3>3
  <2> QED BY <2>2, <2>3
<1> QED BY <1>1, WireInvHolds, PTL

(* DecodePacket takes a packet only if EncodePacket makes the same bytes of  *)
(* the decoded message, however the frame was damaged.                       *)
THEOREM CanonicalHolds == Spec => []Canonical
<1>1. WireInv => Canonical
  <2> SUFFICES ASSUME WireInv, stage = "Done", outcome.error = "None"
               PROVE  EncodePacket(outcome.message, kProtocolVersion)
                        = [error |-> "None", bytes |-> Tail(frame)]
    BY DEF Canonical
  <2>1. outcome = Received(frame)
    BY DEF WireInv, Ignored, Failure
  <2> DEFINE T == Tail(frame)
  <2>2. IsClaimed(frame) /\ outcome = DecodePacket(T)
    BY <2>1 DEF Received, Unrelated, Failure
  <2>4. frame \in Seq(Byte)
    BY DEF WireInv
  <2>5. Len(frame) >= 5 /\ Len(frame) \in Nat
    BY <2>2, <2>4, ClaimedIs, LenProperties
  <2>6. T \in Seq(Byte) /\ Len(T) = Len(frame) - 1
    BY <2>4, <2>5, TailIs
  <2>7. SubSeq(T, 1, 4) = MagicBytes
    BY <2>2 DEF IsClaimed, HasProtocolMagic
  <2> HIDE DEF T
  <2>8. Len(T) >= 4
    BY <2>5, <2>6
  <2>9. EncodePacket(outcome.message, kProtocolVersion) = [error |-> "None", bytes |-> T]
    BY <2>2, <2>6, <2>7, <2>8, DecodedIsEncoded
  <2> QED BY <2>9 DEF T
<1> QED BY <1>1, WireInvHolds, PTL

(* DecodePacket names the damage of a damaged packet: no cut or grown packet *)
(* is ever taken, and a frame without the packet id and the magic is left    *)
(* to SA-MP.                                                                 *)
THEOREM RefusalNamesDamageHolds == Spec => []RefusalNamesDamage
<1>1. WireInv => RefusalNamesDamage
  <2> SUFFICES ASSUME WireInv, stage = "Done" PROVE RefusalNamesDamage
    BY DEF RefusalNamesDamage
  <2>1. CASE damage.kind \notin {"Cut", "Grown", "Changed"}
    BY <2>1 DEF RefusalNamesDamage
  <2>2. CASE damage.kind \in {"Cut", "Grown", "Changed"}
    <3>1. damage # Unharmed
      BY <2>2 DEF Unharmed
    <3>2. AreFieldsValid(sent) /\ Damaged /\ outcome = Received(frame)
      BY <3>1 DEF WireInv
    <3>3. IsMessage(sent)
      BY OutgoingAssumption DEF WireInv
    <3> DEFINE n == TypeOf(sent)
               P == PayloadOf(n, sent)
               O == FrameOf(n, P)
    <3>4. n \in 1..10 /\ P \in Seq(Byte) /\ Len(P) <= LongestPayload
      BY <3>2, <3>3, SentIs
    <3>5. Original(sent) = O
      BY DEF Original
    <3> HIDE DEF n, P
    <3>6. CASE damage.kind = "Cut"
      <4>1. damage.at \in 1..Len(O) /\ frame = SubSeq(O, 1, damage.at - 1)
        BY <3>1, <3>2, <3>5, <3>6 DEF Damaged
      <4>2. outcome.error = IF damage.at <= 5 THEN "Unrelated"
                            ELSE IF damage.at <= 13 THEN "TruncatedHeader"
                            ELSE "TruncatedPayload"
        BY <3>2, <3>4, <4>1, CutFrame
      <4> QED BY <3>6, <4>2 DEF RefusalNamesDamage
    <3>7. CASE damage.kind = "Grown"
      <4>1. damage.at = Len(O) + 1 /\ \E byte \in Byte : frame = Append(O, byte)
        BY <3>1, <3>2, <3>5, <3>7 DEF Damaged
      <4>2. PICK byte \in Byte : frame = Append(O, byte)
        BY <4>1
      <4>3. outcome.error = IF damage.at > kMaximumFrameSize THEN "OversizedFrame"
                            ELSE "PayloadLengthMismatch"
        BY <3>2, <3>4, <4>1, <4>2, GrownFrame
      <4> QED BY <3>7, <4>3 DEF RefusalNamesDamage
    <3>8. CASE damage.kind = "Changed"
      <4>1. /\ damage.at \in 1..Len(O)
            /\ \E byte \in Byte : byte # O[damage.at] /\ frame = [O EXCEPT ![damage.at] = byte]
        BY <3>1, <3>2, <3>5, <3>8 DEF Damaged
      <4>2. PICK byte \in Byte : byte # O[damage.at] /\ frame = [O EXCEPT ![damage.at] = byte]
        BY <4>1
      <4>3. outcome.error \in
              IF damage.at <= 5 THEN {"Unrelated"}
              ELSE IF damage.at <= 7 THEN {"UnsupportedProtocolVersion"}
              ELSE IF damage.at \in 10..13
                   THEN {"OversizedPayload", "TruncatedPayload", "PayloadLengthMismatch"}
              ELSE {"None", "UnknownMessageType", "InvalidField", "TruncatedPayload",
                    "PayloadLengthMismatch"}
        BY <3>2, <3>4, <4>1, <4>2, ChangedFrame
      <4> QED BY <3>8, <4>3 DEF RefusalNamesDamage
    <3> QED BY <2>2, <3>6, <3>7, <3>8
  <2> QED BY <2>1, <2>2
<1> QED BY <1>1, WireInvHolds, PTL
=============================================================================
