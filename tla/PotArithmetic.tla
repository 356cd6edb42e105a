---------------------------- MODULE PotArithmetic ----------------------------
(***************************************************************************)
(* The integer arithmetic of the C1351 driver (src/controller.cpp).        *)
(*                                                                         *)
(* The firmware measures where the mouse is as a timer count, and the      *)
(* mouse only tells its position modulo PotRange.  Everything it reports   *)
(* is made from differences of two such counts, in unsigned and signed     *)
(* C integers of 8 and 16 bits.  The widths are constants: the program's   *)
(* are WordSize = 2^16, ByteSize = 2^8, PotRange = 2048 (the mask 0x7ff),  *)
(* TicksPerCount = 16, TimestampAdjust = 4096; the state machines that use *)
(* these operators are checked with smaller ones of the same proportions.  *)
(***************************************************************************)
EXTENDS Integers

CONSTANTS
  WordSize,         \* number of values of uint16_t and of int (avr-gcc)
  ByteSize,         \* number of values of int8_t, the type MouseVelocity
  PotRange,         \* the mouse position is known modulo this many ticks
  TicksPerCount,    \* CPU_TO_US_MULTIPLIER: timer ticks in one mouse count
  TimestampAdjust   \* ticks of the sync phase, taken off every timestamp

(***************************************************************************)
(* A position half range (PotRange \div 2) splits forward from backward    *)
(* motion; masking with PotRange - 1 is a remainder because PotRange       *)
(* divides WordSize.                                                       *)
(***************************************************************************)
ASSUME WidthAssumption ==
  /\ WordSize \in Nat \ {0} /\ ByteSize \in Nat \ {0}
  /\ PotRange \in Nat \ {0} /\ TicksPerCount \in Nat \ {0}
  /\ TimestampAdjust \in Nat
  /\ \E h \in 1 .. PotRange : PotRange = 2 * h
  /\ \E h \in 1 .. ByteSize : ByteSize = 2 * h
  /\ \E k \in 1 .. WordSize : WordSize = k * PotRange

Half == PotRange \div 2

Word    == 0 .. WordSize - 1                            \* uint16_t
Int16   == -(WordSize \div 2) .. (WordSize \div 2) - 1  \* int16_t, int
Int8    == -(ByteSize \div 2) .. (ByteSize \div 2) - 1  \* MouseVelocity

(* Conversions to the unsigned and to the signed type with n values. *)
ToUnsigned(x, n) == x % n
ToSigned(x, n) ==
  IF x % n < n \div 2 THEN x % n ELSE (x % n) - n

(* The / of C: the quotient is truncated towards zero. *)
CDiv(a, b) == IF a >= 0 THEN a \div b ELSE -((-a) \div b)

(* Mutant: the position of a timestamp before the sync phase is negative.  *)
PotValueSigned(timestamp) == timestamp - TimestampAdjust

(***************************************************************************)
(* updatePotValues: a timestamp becomes a PotValue by taking off the sync  *)
(* phase, in 16 bits.                                                      *)
(***************************************************************************)
PotValueOf(timestamp) == ToUnsigned(timestamp - TimestampAdjust, WordSize)

(* Mutants of potValueToVelocity: the half range counts as forward; the    *)
(* sign is extended from the wrong bit.                                    *)
HalfRangeForward(oldVal, newVal) ==
  LET diff == (newVal - oldVal) % PotRange
  IN  IF diff <= Half THEN diff ELSE diff - PotRange

WrongSignBit(oldVal, newVal) ==
  LET diff == (newVal - oldVal) % PotRange
  IN  IF diff < Half THEN diff ELSE ToSigned(diff + (WordSize - Half), WordSize)

(***************************************************************************)
(* potValueToVelocity(oldVal, newVal): the low bits of the difference,     *)
(* sign extended from bit 10 by or-ing the high bits in.                   *)
(***************************************************************************)
PotValueToVelocity(oldVal, newVal) ==
  LET diff       == (newVal - oldVal) % PotRange
      isPositive == diff < Half
  IN  IF isPositive
        THEN ToSigned(diff, WordSize)
        ELSE ToSigned(diff + (WordSize - PotRange), WordSize)

(***************************************************************************)
(* accumulateVelocities: the difference of the Y axis is negated, and the  *)
(* sum is stored in an int16_t.  sign is 1 for X and -1 for Y.             *)
(***************************************************************************)
Accumulated(accum, sign, oldVal, newVal) ==
  ToSigned(accum + sign * PotValueToVelocity(oldVal, newVal), WordSize)

(* Mutant of the conversion in update: it is narrowed before it is divided.*)
VelocityNarrowedFirst(accum) == CDiv(ToSigned(accum, ByteSize), TicksPerCount)

(***************************************************************************)
(* update: the accumulated ticks become mouse counts, stored in an int8_t. *)
(***************************************************************************)
VelocityOf(accum) == ToSigned(CDiv(accum, TicksPerCount), ByteSize)

(***************************************************************************)
(* Reference definition: a velocity v is what a displacement of the mouse  *)
(* looks like through two readings of its position modulo PotRange.        *)
(***************************************************************************)
IsDisplacement(v, oldVal, newVal) ==
  /\ -Half <= v /\ v < Half
  /\ (newVal - oldVal - v) % PotRange = 0
=============================================================================
