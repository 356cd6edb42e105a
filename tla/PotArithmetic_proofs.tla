------------------------ MODULE PotArithmetic_proofs ------------------------
(***************************************************************************)
(* What the integer arithmetic of the driver computes, at any widths: the  *)
(* conversions between C integers, and the decoding of a difference of two *)
(* readings, which is the displacement of the mouse modulo PotRange.       *)
(***************************************************************************)
EXTENDS PotArithmetic, TLAPS

Multiple(a, n) == \E k \in Int : a = n * k

-----------------------------------------------------------------------------
(* Division with remainder. *)
LEMMA Euclid ==
  ASSUME NEW n \in Nat \ {0}, NEW a \in Int
  PROVE  /\ a % n \in 0 .. n - 1
         /\ a \div n \in Int
         /\ a = (n * (a \div n)) + (a % n)
  OBVIOUS

LEMMA RemainderUnique ==
  ASSUME NEW n \in Nat \ {0}, NEW r \in 0 .. n - 1, NEW k \in Int
  PROVE  ((n * k) + r) % n = r
  OBVIOUS

LEMMA MultipleIntro ==
  ASSUME NEW n \in Int, NEW k \in Int, NEW a, a = n * k
  PROVE  Multiple(a, n)
<1> SUFFICES \E j \in Int : a = n * j
  BY DEF Multiple
<1> WITNESS k \in Int
<1> QED
  OBVIOUS

LEMMA MultipleIsZero ==
  ASSUME NEW n \in Nat \ {0}, NEW a \in Int
  PROVE  Multiple(a, n) <=> a % n = 0
<1>1. a % n = 0 => Multiple(a, n)
  <2>1. a \div n \in Int /\ (a % n = 0 => a = n * (a \div n))
    BY Euclid
  <2> QED
    BY <2>1, n \in Int, MultipleIntro, Zenon
<1>2. Multiple(a, n) => a % n = 0
  BY RemainderUnique, 0 \in 0 .. n - 1 DEF Multiple
<1> QED
  BY <1>1, <1>2

LEMMA MultipleSum ==
  ASSUME NEW n \in Int, NEW a \in Int, NEW b \in Int, Multiple(a, n), Multiple(b, n)
  PROVE  Multiple(a + b, n) /\ Multiple(a - b, n) /\ Multiple(-a, n)
<1>1. PICK k \in Int : a = n * k
  BY DEF Multiple
<1>2. PICK j \in Int : b = n * j
  BY DEF Multiple
<1>3. a + b = n * (k + j) /\ a - b = n * (k - j) /\ -a = n * (-k)
  BY <1>1, <1>2
<1>4. k + j \in Int /\ k - j \in Int /\ -k \in Int
  BY <1>1, <1>2
<1> QED
  BY <1>3, <1>4, MultipleIntro, Zenon

LEMMA MultipleOfMultiple ==
  ASSUME NEW n \in Int, NEW m \in Int, NEW a \in Int, Multiple(m, n), Multiple(a, m)
  PROVE  Multiple(a, n)
<1>1. PICK k \in Int : m = n * k
  BY DEF Multiple
<1>2. PICK j \in Int : a = m * j
  BY DEF Multiple
<1>3. a = n * (k * j) /\ k * j \in Int
  BY <1>1, <1>2
<1> QED
  BY <1>1, <1>2, <1>3, MultipleIntro, Zenon

(* A multiple smaller than the modulus is 0. *)
LEMMA SmallMultiple ==
  ASSUME NEW n \in Nat \ {0}, NEW a \in Int, Multiple(a, n), -n < a, a < n
  PROVE  a = 0
<1>1. PICK k \in Int : a = n * k
  BY DEF Multiple
<1>2. k >= 1 => n * k >= n
  OBVIOUS
<1>3. k <= -1 => n * k <= -n
  OBVIOUS
<1> QED
  BY <1>1, <1>2, <1>3

-----------------------------------------------------------------------------
(* Every modulus of the program is a power of two, hence even. *)
LEMMA Halves ==
  /\ PotRange = 2 * Half /\ Half \in Nat \ {0}
  /\ WordSize = 2 * (WordSize \div 2) /\ WordSize \div 2 \in Nat \ {0}
  /\ ByteSize = 2 * (ByteSize \div 2) /\ ByteSize \div 2 \in Nat \ {0}
  /\ Multiple(WordSize, PotRange)
<1>1. PICK h \in 1 .. PotRange : PotRange = 2 * h
  BY WidthAssumption
<1>2. PICK b \in 1 .. ByteSize : ByteSize = 2 * b
  BY WidthAssumption
<1>3. PICK k \in 1 .. WordSize : WordSize = k * PotRange
  BY WidthAssumption
<1> USE WidthAssumption
<1>4. PotRange = 2 * Half /\ Half \in Nat \ {0}
  BY <1>1 DEF Half
<1>5. ByteSize = 2 * (ByteSize \div 2) /\ ByteSize \div 2 \in Nat \ {0}
  BY <1>2
<1>6. WordSize = 2 * (k * h)
  BY <1>1, <1>3
<1>7. k * h \in Nat \ {0}
  BY <1>1, <1>3
<1>8. WordSize = 2 * (WordSize \div 2) /\ WordSize \div 2 \in Nat \ {0}
  BY <1>6, <1>7
<1>9. Multiple(WordSize, PotRange)
  BY <1>3, WordSize = PotRange * k, PotRange \in Int, k \in Int, MultipleIntro, Zenon
<1> QED
  BY <1>4, <1>5, <1>8, <1>9

(* A conversion to a signed type of n values keeps x modulo n, and keeps x *)
(* itself if the type has it.                                              *)
LEMMA SignedConversion ==
  ASSUME NEW n \in Nat \ {0}, n = 2 * (n \div 2), NEW x \in Int
  PROVE  /\ ToSigned(x, n) \in -(n \div 2) .. (n \div 2) - 1
         /\ Multiple(x - ToSigned(x, n), n)
<1> DEFINE h == n \div 2
<1>1. h \in Nat /\ n = 2 * h
  OBVIOUS
<1>2. x % n \in 0 .. n - 1 /\ x = (n * (x \div n)) + (x % n) /\ x \div n \in Int
  BY Euclid
<1>3. CASE x % n < h
  <2>1. ToSigned(x, n) = x % n
    BY <1>3 DEF ToSigned
  <2>2. x - ToSigned(x, n) = n * (x \div n)
    BY <1>2, <2>1
  <2>3. Multiple(x - ToSigned(x, n), n)
    BY <1>2, <2>2, n \in Int, MultipleIntro, Zenon
  <2> QED
    BY <1>1, <1>2, <1>3, <2>1, <2>3
<1>4. CASE ~(x % n < h)
  <2>1. ToSigned(x, n) = (x % n) - n
    BY <1>4 DEF ToSigned
  <2>2. x - ToSigned(x, n) = n * ((x \div n) + 1)
    BY <1>2, <2>1
  <2>3. Multiple(x - ToSigned(x, n), n)
    BY <1>2, <2>2, n \in Int, (x \div n) + 1 \in Int, MultipleIntro, Zenon
  <2> QED
    BY <1>1, <1>2, <1>4, <2>1, <2>3
<1> QED
  BY <1>3, <1>4

LEMMA SignedUnique ==
  ASSUME NEW n \in Nat \ {0}, n = 2 * (n \div 2), NEW x \in Int,
         NEW y \in -(n \div 2) .. (n \div 2) - 1, Multiple(x - y, n)
  PROVE  ToSigned(x, n) = y
<1> DEFINE z == ToSigned(x, n)
<1>1. z \in -(n \div 2) .. (n \div 2) - 1 /\ Multiple(x - z, n)
  BY SignedConversion
<1> HIDE DEF z
<1>2. n \div 2 \in Nat
  OBVIOUS
<1>3. Multiple((x - y) - (x - z), n)
  BY <1>1, <1>2, MultipleSum
<1>4. (x - y) - (x - z) = z - y /\ -n < z - y /\ z - y < n
  BY <1>1, <1>2
<1>5. z - y = 0
  BY <1>1, <1>2, <1>3, <1>4, SmallMultiple
<1> QED
  BY <1>1, <1>2, <1>5 DEF z

(* Adding in the wider type and narrowing once, or narrowing at each step, *)
(* is the same.                                                            *)
LEMMA SignedSum ==
  ASSUME NEW n \in Nat \ {0}, n = 2 * (n \div 2), NEW a \in Int, NEW b \in Int
  PROVE  ToSigned(ToSigned(a, n) + b, n) = ToSigned(a + b, n)
<1> DEFINE s == ToSigned(a, n)
           t == ToSigned(s + b, n)
<1>1. s \in -(n \div 2) .. (n \div 2) - 1 /\ Multiple(a - s, n)
  BY SignedConversion
<1> HIDE DEF s
<1>2. s \in Int /\ n \div 2 \in Nat
  BY <1>1
<1>3. t \in -(n \div 2) .. (n \div 2) - 1 /\ Multiple((s + b) - t, n)
  BY <1>2, SignedConversion
<1> HIDE DEF t
<1>4. Multiple((a - s) + ((s + b) - t), n)
  BY <1>1, <1>2, <1>3, MultipleSum
<1>5. (a - s) + ((s + b) - t) = (a + b) - t
  BY <1>2, <1>3
<1>6. ToSigned(a + b, n) = t
  BY <1>2, <1>3, <1>4, <1>5, SignedUnique
<1> QED
  BY <1>6 DEF s, t

LEMMA SmallSigned ==
  ASSUME NEW n \in Nat \ {0}, n = 2 * (n \div 2),
         NEW x \in -(n \div 2) .. (n \div 2) - 1
  PROVE  ToSigned(x, n) = x
<1>1. x \in Int /\ n \in Int /\ n \div 2 \in Int
  OBVIOUS
<1>2. x - x = n * 0
  BY <1>1
<1>3. Multiple(x - x, n)
  BY <1>1, <1>2, 0 \in Int, x - x \in Int, MultipleIntro, Zenon
<1> QED
  BY <1>1, <1>3, SignedUnique

-----------------------------------------------------------------------------
(* Two displacements between the same readings are equal, because both are *)
(* less than the range apart.                                              *)
LEMMA DisplacementUnique ==
  ASSUME NEW v \in Int, NEW w \in Int, NEW old \in Int, NEW new \in Int,
         IsDisplacement(v, old, new), IsDisplacement(w, old, new)
  PROVE  v = w
<1> USE WidthAssumption, Halves
<1> DEFINE d == (new - old - v) - (new - old - w)
<1>0. new - old - v \in Int /\ new - old - w \in Int /\ PotRange \in Int
  OBVIOUS
<1>1. Multiple(new - old - v, PotRange) /\ Multiple(new - old - w, PotRange)
  BY <1>0, MultipleIsZero, Zenon DEF IsDisplacement
<1>2. Multiple(d, PotRange)
  BY <1>0, <1>1, MultipleSum, Zenon
<1>3. d = w - v /\ -PotRange < d /\ d < PotRange
  BY DEF IsDisplacement
<1>4. d = 0
  BY <1>2, <1>3, SmallMultiple
<1> QED
  BY <1>3, <1>4

(* What potValueToVelocity computes, for any two readings: the displacement*)
(* between them.  The narrowing to an int16_t loses nothing.               *)
THEOREM VelocityIsDisplacement ==
  ASSUME NEW old \in Int, NEW new \in Int
  PROVE  /\ PotValueToVelocity(old, new) \in Int
         /\ IsDisplacement(PotValueToVelocity(old, new), old, new)
<1> USE WidthAssumption, Halves
<1> DEFINE diff == (new - old) % PotRange
           velocity == IF diff < Half THEN diff ELSE diff - PotRange
<1>1. diff \in 0 .. PotRange - 1 /\ Multiple(new - old - diff, PotRange)
  <2>1. /\ diff \in 0 .. PotRange - 1
        /\ (new - old) \div PotRange \in Int
        /\ new - old = (PotRange * ((new - old) \div PotRange)) + diff
    BY new - old \in Int, Euclid
  <2>2. new - old - diff = PotRange * ((new - old) \div PotRange)
    BY <2>1
  <2> QED
    BY <2>1, <2>2, PotRange \in Int, new - old - diff \in Int, MultipleIntro, Zenon
<1> HIDE DEF diff
<1>2. PotRange <= WordSize
  <2>1. PICK k \in Int : WordSize = PotRange * k
    BY DEF Multiple
  <2>2. k >= 1
    BY <2>1
  <2> QED
    BY <2>1, <2>2
<1>3. velocity \in -Half .. Half - 1
  BY <1>1
<1>4. velocity \in -(WordSize \div 2) .. (WordSize \div 2) - 1
  BY <1>2, <1>3
<1>5. PotValueToVelocity(old, new) = velocity
  <2>1. CASE diff < Half
    BY <1>1, <1>4, <2>1, SmallSigned DEF PotValueToVelocity, diff
  <2>2. CASE ~(diff < Half)
    <3>1. (diff + (WordSize - PotRange)) - velocity = WordSize * 1
      BY <1>1, <2>2
    <3>2. Multiple((diff + (WordSize - PotRange)) - velocity, WordSize)
      BY <3>1, <1>1, WordSize \in Int, 1 \in Int,
         (diff + (WordSize - PotRange)) - velocity \in Int, MultipleIntro, Zenon
    <3>3. ToSigned(diff + (WordSize - PotRange), WordSize) = velocity
      BY <1>1, <1>4, <3>2, SignedUnique
    <3> QED
      BY <2>2, <3>3 DEF PotValueToVelocity, diff
  <2> QED
    BY <2>1, <2>2
<1>6. Multiple(new - old - velocity, PotRange)
  <2>1. CASE diff < Half
    BY <1>1, <2>1
  <2>2. CASE ~(diff < Half)
    <3>1. Multiple(PotRange, PotRange)
      BY PotRange \in Int, PotRange = PotRange * 1, 1 \in Int, MultipleIntro, Zenon
    <3>2. new - old - velocity = (new - old - diff) + PotRange
      BY <1>1, <2>2
    <3>3. Multiple((new - old - diff) + PotRange, PotRange)
      BY <1>1, <3>1, new - old - diff \in Int, PotRange \in Int, MultipleSum, Zenon
    <3> QED
      BY <3>2, <3>3
  <2> QED
    BY <2>1, <2>2
<1>7. (new - old - velocity) % PotRange = 0
  <2>1. new - old - velocity \in Int
    BY <1>3
  <2> QED
    BY <1>6, <2>1, PotRange \in Nat \ {0}, MultipleIsZero, Zenon
<1>8. velocity \in Int /\ -Half <= velocity /\ velocity < Half
  BY <1>3
<1> HIDE DEF velocity
<1> QED
  BY <1>5, <1>7, <1>8 DEF IsDisplacement

-----------------------------------------------------------------------------
LEMMA MultipleOfSelf ==
  ASSUME NEW a \in Int, NEW n \in Nat \ {0}
  PROVE  Multiple(a - (a % n), n)
<1>1. a \div n \in Int /\ a - (a % n) = n * (a \div n) /\ a - (a % n) \in Int
  BY Euclid
<1> QED
  BY <1>1, n \in Int, MultipleIntro, Zenon

LEMMA MultipleTrans ==
  ASSUME NEW n \in Int, NEW a \in Int, NEW b \in Int, NEW c \in Int,
         Multiple(a - b, n), Multiple(b - c, n)
  PROVE  Multiple(a - c, n)
<1>1. a - b \in Int /\ b - c \in Int /\ (a - b) + (b - c) = a - c
  OBVIOUS
<1>2. Multiple((a - b) + (b - c), n)
  BY <1>1, MultipleSum, Zenon
<1> QED
  BY <1>1, <1>2

(* A timestamp is a reading in 16 bits, and keeps what it is modulo the    *)
(* range: the range divides the width.                                     *)
LEMMA ReadingOfTimestamp ==
  ASSUME NEW t \in Int
  PROVE  /\ PotValueOf(t) \in Word
         /\ Multiple((t - TimestampAdjust) - PotValueOf(t), PotRange)
<1> USE WidthAssumption
<1> DEFINE x == t - TimestampAdjust
<1>1. x \in Int /\ x % WordSize \in 0 .. WordSize - 1 /\ x - (x % WordSize) \in Int
  <2>1. x \in Int
    OBVIOUS
  <2> HIDE DEF x
  <2>2. x % WordSize \in 0 .. WordSize - 1
    BY <2>1, WordSize \in Nat \ {0}, Euclid, Zenon
  <2> QED
    BY <2>1, <2>2
<1>2. Multiple(x - (x % WordSize), WordSize)
  BY <1>1, WordSize \in Nat \ {0}, MultipleOfSelf, Zenon
<1>3. Multiple(x - (x % WordSize), PotRange)
  BY <1>1, <1>2, Halves, WordSize \in Int, PotRange \in Int,
     MultipleOfMultiple, Zenon
<1> QED
  BY <1>1, <1>3 DEF PotValueOf, ToUnsigned, Word

(* The readings of two places differ by as much as the places do.          *)
LEMMA ReadingsOfPlaces ==
  ASSUME NEW c \in Int, NEW p \in Int, NEW q \in Int
  PROVE  Multiple((PotValueOf(c + (q % PotRange)) - PotValueOf(c + (p % PotRange)))
                    - (q - p), PotRange)
<1> USE WidthAssumption
<1> DEFINE P == PotValueOf(c + (p % PotRange))
           Q == PotValueOf(c + (q % PotRange))
           a == c - TimestampAdjust
<1>1. /\ p % PotRange \in Int /\ q % PotRange \in Int /\ a \in Int
      /\ c + (p % PotRange) \in Int /\ c + (q % PotRange) \in Int
  BY Euclid
<1>2. P \in Int /\ Q \in Int
  BY <1>1, ReadingOfTimestamp DEF Word
<1>3. Multiple((a + (p % PotRange)) - P, PotRange)
  <2>1. Multiple(((c + (p % PotRange)) - TimestampAdjust) - P, PotRange)
    BY <1>1, ReadingOfTimestamp, Zenon
  <2> QED
    BY <1>1, <1>2, <2>1
<1>4. Multiple((a + (q % PotRange)) - Q, PotRange)
  <2>1. Multiple(((c + (q % PotRange)) - TimestampAdjust) - Q, PotRange)
    BY <1>1, ReadingOfTimestamp, Zenon
  <2> QED
    BY <1>1, <1>2, <2>1
<1> HIDE DEF P, Q, a
<1>5. Multiple(p - (p % PotRange), PotRange) /\ Multiple(q - (q % PotRange), PotRange)
  BY PotRange \in Nat \ {0}, MultipleOfSelf, Zenon
<1> DEFINE u == p - (p % PotRange)
           v == q - (q % PotRange)
           x == (a + (p % PotRange)) - P
           y == (a + (q % PotRange)) - Q
<1>6. u \in Int /\ v \in Int /\ x \in Int /\ y \in Int /\ PotRange \in Int
  BY <1>1, <1>2
<1>7. (Q - P) - (q - p) = (x - y) + (u - v)
  BY <1>1, <1>2
<1>8. Multiple(u, PotRange) /\ Multiple(v, PotRange)
        /\ Multiple(x, PotRange) /\ Multiple(y, PotRange)
  BY <1>3, <1>4, <1>5
<1> HIDE DEF u, v, x, y
<1>9. Multiple(x - y, PotRange) /\ Multiple(u - v, PotRange)
  BY <1>6, <1>8, MultipleSum, Zenon
<1>10. x - y \in Int /\ u - v \in Int
  BY <1>6
<1>11. Multiple((x - y) + (u - v), PotRange)
  BY <1>6, <1>9, <1>10, MultipleSum, Zenon
<1> QED
  BY <1>7, <1>11 DEF P, Q

(* Between the readings of two places the driver decodes the motion, up to *)
(* whole ranges, and exactly if it is less than half a range.              *)
THEOREM MotionDecoded ==
  ASSUME NEW c \in Int, NEW p \in Int, NEW q \in Int
  PROVE  LET v == PotValueToVelocity(PotValueOf(c + (p % PotRange)),
                                     PotValueOf(c + (q % PotRange)))
         IN  /\ v \in Int
             /\ ((q - p) - v) % PotRange = 0
             /\ -Half <= q - p /\ q - p < Half => v = q - p
<1> USE WidthAssumption, Halves
<1> DEFINE P == PotValueOf(c + (p % PotRange))
           Q == PotValueOf(c + (q % PotRange))
           v == PotValueToVelocity(P, Q)
<1>1. P \in Int /\ Q \in Int
  <2>1. c + (p % PotRange) \in Int /\ c + (q % PotRange) \in Int
    BY Euclid
  <2> QED
    BY <2>1, ReadingOfTimestamp DEF Word
<1>2. Multiple((Q - P) - (q - p), PotRange)
  BY ReadingsOfPlaces, Zenon
<1> HIDE DEF P, Q
<1>3. v \in Int /\ IsDisplacement(v, P, Q)
  BY <1>1, VelocityIsDisplacement, Zenon
<1> HIDE DEF v
<1>4. /\ Q - P \in Int /\ q - p \in Int /\ (Q - P) - v \in Int /\ PotRange \in Int
      /\ (Q - P) - (q - p) \in Int /\ (q - p) - v \in Int
      /\ ((Q - P) - v) - ((Q - P) - (q - p)) = (q - p) - v
  BY <1>1, <1>3
<1>5. Multiple((Q - P) - v, PotRange)
  BY <1>3, <1>4, PotRange \in Nat \ {0}, MultipleIsZero, Zenon DEF IsDisplacement
<1>6. Multiple(((Q - P) - v) - ((Q - P) - (q - p)), PotRange)
  BY <1>2, <1>4, <1>5, MultipleSum, Zenon
<1>7. ((q - p) - v) % PotRange = 0
  <2>1. Multiple((q - p) - v, PotRange)
    BY <1>4, <1>6
  <2> QED
    BY <1>4, <2>1, PotRange \in Nat \ {0}, MultipleIsZero, Zenon
<1>8. ASSUME -Half <= q - p, q - p < Half
      PROVE  v = q - p
  <2>1. ((Q - P) - (q - p)) % PotRange = 0
    BY <1>2, <1>4, PotRange \in Nat \ {0}, MultipleIsZero, Zenon
  <2>2. IsDisplacement(q - p, P, Q)
    BY <1>8, <2>1 DEF IsDisplacement
  <2> QED
    BY <1>1, <1>3, <1>4, <2>2, DisplacementUnique, Zenon
<1> QED
  BY <1>3, <1>7, <1>8 DEF v, P, Q
=============================================================================
