------------------------ MODULE MainInterrupt_proofs ------------------------
(***************************************************************************)
(* Proofs about the driver and about the program around it.                *)
(*                                                                         *)
(* First, of C1351Interface: the driver, its timers and the mouse, for all *)
(* widths of the integers, all sets of places and all interleavings of the *)
(* calls, the interrupts and the edges.                                    *)
(*                                                                         *)
(* Then, of MainInterrupt: the read cycle in time, for all durations of    *)
(* the interval, of handleUsb() and of the bus interrupt within the stated *)
(* bounds, all places of the mouse and all interleavings of the handlers.  *)
(***************************************************************************)
EXTENDS MainInterrupt, PotArithmetic_proofs

-----------------------------------------------------------------------------
(* The driver: arithmetic of its types, and what a sync takes.             *)

(* / of C: the remainder is smaller than the divisor. *)
LEMMA Truncation ==
  ASSUME NEW a \in Int, NEW b \in Nat \ {0}
  PROVE  /\ CDiv(a, b) \in Int
         /\ -b < a - (CDiv(a, b) * b) /\ a - (CDiv(a, b) * b) < b
<1>1. CASE a >= 0
  <2>1. a % b \in 0 .. b - 1 /\ a \div b \in Int /\ a = (b * (a \div b)) + (a % b)
    BY Euclid
  <2>2. CDiv(a, b) = a \div b
    BY <1>1 DEF CDiv
  <2> QED
    BY <2>1, <2>2
<1>2. CASE ~(a >= 0)
  <2>1. /\ (-a) % b \in 0 .. b - 1 /\ (-a) \div b \in Int
        /\ -a = (b * ((-a) \div b)) + ((-a) % b)
    BY -a \in Int, Euclid
  <2>2. CDiv(a, b) = -((-a) \div b)
    BY <1>2 DEF CDiv
  <2> QED
    BY <2>1, <2>2
<1> QED
  BY <1>1, <1>2

LEMMA ZeroIsZero == ToSigned(0, WordSize) = 0
<1>1. 0 \in -(WordSize \div 2) .. (WordSize \div 2) - 1
  BY Halves
<1> QED
  BY <1>1, Halves, WidthAssumption, WordSize \in Nat \ {0}, SmallSigned, Zenon

LEMMA TimerNumbers == TIMER_1 \in TimerNumber /\ TIMER_3 \in TimerNumber
  BY DEF TimerNumber

(* What a sync computes from the captured timestamps stays in the types of *)
(* the fields it is stored in.                                             *)
LEMMA SyncTypes ==
  ASSUME TypeOK, NEW n \in TimerNumber
  PROVE  /\ NewPotValue(n) \in Word
         /\ Decoded(n) \in Int
         /\ NewAccum(n) \in Int16
<1> USE WidthAssumption, Halves
<1>1. potValue[n] \in Word /\ timestamp[n] \in Int /\ velocityAccum[n] \in Int16
  BY DEF TypeOK, Timer!TypeOK, Timer!Count
<1>2. PotValueOf(timestamp[n]) \in Word
  BY <1>1, ReadingOfTimestamp
<1> DEFINE v == PotValueToVelocity(potValue[n], PotValueOf(timestamp[n]))
<1>3. v \in Int
  <2>1. potValue[n] \in Int /\ PotValueOf(timestamp[n]) \in Int
    BY <1>1, <1>2 DEF Word
  <2> QED
    BY <2>1, VelocityIsDisplacement, Zenon
<1>4. Sign(n) \in Int
  BY DEF Sign
<1> HIDE DEF v
<1>5. Sign(n) * v \in Int
  BY <1>3, <1>4
<1>6. velocityAccum[n] + (Sign(n) * v) \in Int
  BY <1>1, <1>5 DEF Int16
<1>7. ToSigned(velocityAccum[n] + (Sign(n) * v), WordSize) \in Int16
  BY <1>6, WordSize \in Nat \ {0}, SignedConversion, Zenon DEF Int16
<1> QED
  BY <1>1, <1>2, <1>5, <1>7 DEF NewPotValue, Decoded, NewAccum, Accumulated, v

LEMMA UpdateTypes ==
  ASSUME TypeOK, NEW n \in TimerNumber
  PROVE  VelocityOf(NewAccum(n)) \in Int8
<1> USE WidthAssumption, Halves
<1>1. NewAccum(n) \in Int
  BY SyncTypes DEF Int16
<1>2. CDiv(NewAccum(n), TicksPerCount) \in Int
  BY <1>1, Truncation
<1> QED
  BY <1>2, ByteSize \in Nat \ {0}, SignedConversion, Zenon DEF VelocityOf, Int8

LEMMA EdgeTimes ==
  ASSUME NEW p \in Int
  PROVE  EdgeTime(p) \in 0 .. WordSize - 1
<1> USE WidthAssumption, InterfaceAssumption
<1>1. p % PotRange \in 0 .. PotRange - 1
  BY Euclid
<1> QED
  BY <1>1 DEF EdgeTime

LEMMA PlacesAreInt ==
  ASSUME NEW n \in TimerNumber
  PROVE  Places[n] \subseteq Int
  BY InterfaceAssumption

-----------------------------------------------------------------------------
(* The registers, the fields and the mouse keep their types. *)
LEMMA TypeInit == Init => TypeOK
<1> SUFFICES ASSUME Init PROVE TypeOK
  OBVIOUS
<1> USE WidthAssumption, InterfaceAssumption, Halves
<1>1. Timer!TypeOK
  BY DEF Init, Timer!Init, Timer!TypeOK, Timer!Count
<1>2. AllPlaces \subseteq Int
  BY DEF AllPlaces
<1>3. place \in [TimerNumber -> Int]
  BY <1>2 DEF Init
<1>4. 0 \in Word /\ 0 \in Int16 /\ 0 \in Int8
  BY DEF Word, Int16, Int8
<1>5. /\ running = [n \in TimerNumber |-> FALSE]
      /\ buttonPressed \in [Button -> BOOLEAN] /\ risen \in [TimerNumber -> BOOLEAN]
      /\ latchedOk \in [TimerNumber -> BOOLEAN] /\ stampOk \in [TimerNumber -> BOOLEAN]
      /\ readOk \in [TimerNumber -> BOOLEAN]
      /\ potsOut \in BOOLEAN /\ potsPort \in BOOLEAN
      /\ drivenHigh \in BOOLEAN /\ up \in BOOLEAN
  BY DEF Init, Timer!Init
<1>6. /\ potValue \in [TimerNumber -> Word] /\ potValueOld \in [TimerNumber -> Word]
      /\ velocityAccum \in [TimerNumber -> Int16] /\ velocity \in [TimerNumber -> Int8]
      /\ moved \in [TimerNumber -> Int] /\ flushed \in [TimerNumber -> Int]
  BY <1>4 DEF Init
<1>7. /\ latched = place /\ stampPlace = place /\ readPlace = place
      /\ held \in SUBSET Button /\ jumps \in 0 .. MaxJumps
  BY DEF Init
<1> QED
  BY <1>1, <1>3, <1>5, <1>6, <1>7 DEF TypeOK

LEMMA TypeStep == TypeOK /\ [Next]_vars => TypeOK'
<1> SUFFICES ASSUME TypeOK, [Next]_vars PROVE TypeOK'
  OBVIOUS
<1> USE WidthAssumption, InterfaceAssumption
    DEF timerVars, fieldVars, pinVars, mouseVars, historyVars, Timer!overflowVars
<1>1. ASSUME StartSync PROVE
        /\ Timer!TypeOK'
        /\ potValue' \in [TimerNumber -> Word] /\ potValueOld' \in [TimerNumber -> Word]
        /\ buttonPressed' \in [Button -> BOOLEAN]
        /\ potsOut' \in BOOLEAN /\ potsPort' \in BOOLEAN
        /\ drivenHigh' \in BOOLEAN /\ up' \in BOOLEAN
        /\ place' \in [TimerNumber -> Int] /\ latched' \in [TimerNumber -> Int]
        /\ risen' \in [TimerNumber -> BOOLEAN]
        /\ held' \in SUBSET Button /\ jumps' \in 0 .. MaxJumps
        /\ stampPlace' \in [TimerNumber -> Int] /\ readPlace' \in [TimerNumber -> Int]
        /\ latchedOk' \in [TimerNumber -> BOOLEAN]
        /\ stampOk' \in [TimerNumber -> BOOLEAN] /\ readOk' \in [TimerNumber -> BOOLEAN]
        /\ moved' \in [TimerNumber -> Int]
  <2>1. Timer!TypeOK'
    BY <1>1 DEF StartSync, TypeOK, Timer!TypeOK, Timer!Count,
              Timer!ArmInputCapture, Timer!ResetCaptures, Timer!StartTimers
  <2>2. potValue' \in [TimerNumber -> Word] /\ moved' \in [TimerNumber -> Int]
    BY <1>1, SyncTypes DEF StartSync, TypeOK
  <2>3. buttonPressed' \in [Button -> BOOLEAN]
    <3>1. \A b \in Button : (b \in held) \in BOOLEAN
      OBVIOUS
    <3>2. [b \in Button |-> b \in held] \in [Button -> BOOLEAN]
      BY <3>1, Zenon
    <3> QED
      BY <1>1, <3>2, Zenon DEF StartSync, TypeOK, NewButtons
  <2>4. /\ risen' \in [TimerNumber -> BOOLEAN] /\ latchedOk' \in [TimerNumber -> BOOLEAN]
        /\ stampOk' \in [TimerNumber -> BOOLEAN] /\ readOk' \in [TimerNumber -> BOOLEAN]
        /\ potsOut' \in BOOLEAN /\ potsPort' \in BOOLEAN
        /\ drivenHigh' \in BOOLEAN /\ up' \in BOOLEAN
    BY <1>1 DEF StartSync, TypeOK, SetPotsOutputLow
  <2>5. /\ potValueOld' \in [TimerNumber -> Word] /\ latched' \in [TimerNumber -> Int]
        /\ place' \in [TimerNumber -> Int] /\ stampPlace' \in [TimerNumber -> Int]
        /\ readPlace' \in [TimerNumber -> Int]
        /\ held' \in SUBSET Button /\ jumps' \in 0 .. MaxJumps
    BY <1>1 DEF StartSync, TypeOK
  <2> QED
    BY <2>1, <2>2, <2>3, <2>4, <2>5
<1>2. CASE SetModeSync
  BY <1>1, <1>2, SyncTypes DEF SetModeSync, TypeOK
<1>3. CASE SetModeSyncThenUpdate
  <2>1. 0 \in Int16
    BY Halves DEF Int16
  <2> QED
    BY <1>1, <1>3, <2>1, UpdateTypes DEF SetModeSyncThenUpdate, TypeOK
<1>4. CASE ClearIO \/ SetModeRead
  BY <1>4 DEF ClearIO, SetModeRead, SetPotsInput, TypeOK, Timer!TypeOK
<1>5. CASE InitInterface
  BY <1>5 DEF InitInterface, SetPotsOutputLow, Timer!InitInputCapture, TypeOK,
              Timer!TypeOK
<1>6. ASSUME NEW n \in TimerNumber, CaptIsr(n)
      PROVE  TypeOK'
  BY <1>6 DEF CaptIsr, Timer!CaptIsr, TypeOK, Timer!TypeOK
<1>7. ASSUME NEW n \in TimerNumber, Rise(n)
      PROVE  TypeOK'
  <2>1. EdgeTime(latched[n]) \in Timer!Count
    BY EdgeTimes DEF Timer!Count, TypeOK
  <2> QED
    BY <1>7, <2>1 DEF Rise, Timer!Edge, TypeOK, Timer!TypeOK
<1>8. ASSUME NEW n \in TimerNumber, NEW p \in AllPlaces, Move(n, p) \/ Jump(n, p)
      PROVE  TypeOK'
  <2>1. p \in Int
    BY <1>8, PlacesAreInt DEF Move, Jump
  <2>2. place' = [place EXCEPT ![n] = p] /\ UNCHANGED <<timerVars, fieldVars, pinVars>>
    BY <1>8 DEF Move, Jump
  <2>3. /\ jumps' \in 0 .. MaxJumps /\ held' = held /\ latched' = latched
        /\ risen' = risen /\ stampPlace' = stampPlace /\ readPlace' = readPlace
        /\ moved' = moved /\ flushed' = flushed
    BY <1>8 DEF Move, Jump, TypeOK
  <2>4. /\ latchedOk' \in [TimerNumber -> BOOLEAN] /\ stampOk' \in [TimerNumber -> BOOLEAN]
        /\ readOk' \in [TimerNumber -> BOOLEAN]
    BY <1>8 DEF Move, Jump, TypeOK
  <2> QED
    BY <2>1, <2>2, <2>3, <2>4 DEF TypeOK, Timer!TypeOK
<1>9. ASSUME NEW b \in Button, Click(b)
      PROVE  TypeOK'
  BY <1>9 DEF Click, TypeOK, Timer!TypeOK
<1>10. CASE UNCHANGED vars
  BY <1>10 DEF vars, TypeOK, Timer!TypeOK
<1> QED
  BY <1>2, <1>3, <1>4, <1>5, <1>6, <1>7, <1>8, <1>9, <1>10 DEF Next

(***************************************************************************)
(* A step that changes a reading, the accumulators or the history of the   *)
(* motion is a sync; what it does to them.                                 *)
(***************************************************************************)
LEMMA SyncOrNot ==
  ASSUME [Next]_vars
  PROVE  \/ /\ StartSync
            /\ \/ SetModeSync
               \/ SetModeSyncThenUpdate
         \/ /\ ~SetModeSync /\ ~SetModeSyncThenUpdate
            /\ UNCHANGED <<potValue, velocityAccum, velocity, moved, flushed,
                           readPlace>>
<1> USE DEF timerVars, fieldVars, pinVars, mouseVars, historyVars
<1>1. CASE SetModeSync
  BY <1>1 DEF SetModeSync
<1>2. CASE SetModeSyncThenUpdate
  BY <1>2 DEF SetModeSyncThenUpdate
<1>3. ASSUME ~SetModeSync, ~SetModeSyncThenUpdate
      PROVE  UNCHANGED <<potValue, velocityAccum, velocity, moved, flushed, readPlace>>
  <2>1. CASE ClearIO \/ InitInterface \/ SetModeRead
    BY <2>1 DEF ClearIO, InitInterface, SetModeRead
  <2>2. ASSUME NEW n \in TimerNumber, CaptIsr(n) \/ Rise(n)
        PROVE  UNCHANGED <<potValue, velocityAccum, velocity, moved, flushed, readPlace>>
    BY <2>2 DEF CaptIsr, Rise
  <2>3. ASSUME NEW n \in TimerNumber, NEW p \in AllPlaces, Move(n, p) \/ Jump(n, p)
        PROVE  UNCHANGED <<potValue, velocityAccum, velocity, moved, flushed, readPlace>>
    BY <2>3 DEF Move, Jump
  <2>4. ASSUME NEW b \in Button, Click(b)
        PROVE  UNCHANGED <<potValue, velocityAccum, velocity, moved, flushed, readPlace>>
    BY <2>4 DEF Click
  <2>5. CASE UNCHANGED vars
    BY <2>5 DEF vars
  <2> QED
    BY <1>3, <2>1, <2>2, <2>3, <2>4, <2>5 DEF Next
<1> QED
  BY <1>1, <1>2, <1>3

-----------------------------------------------------------------------------
(* The output latch of the POT pins is clear whenever they drive. *)
LEMMA LowStep == NeverDrivenHigh /\ [Next]_vars => NeverDrivenHigh'
<1> SUFFICES ASSUME NeverDrivenHigh, [Next]_vars PROVE NeverDrivenHigh'
  OBVIOUS
<1> USE DEF NeverDrivenHigh, DrivesHigh, pinVars
<1>1. CASE SetModeSync \/ SetModeSyncThenUpdate
  BY <1>1 DEF SetModeSync, SetModeSyncThenUpdate, StartSync, SetPotsOutputLow
<1>2. CASE ClearIO \/ InitInterface \/ SetModeRead
  <2>1. CASE ClearIO
    BY <2>1 DEF ClearIO
  <2>2. CASE InitInterface
    BY <2>2 DEF InitInterface, SetPotsOutputLow
  <2>3. CASE SetModeRead
    BY <2>3 DEF SetModeRead, SetPotsInput
  <2> QED
    BY <1>2, <2>1, <2>2, <2>3
<1>3. ASSUME NEW n \in TimerNumber, CaptIsr(n) \/ Rise(n)
      PROVE  NeverDrivenHigh'
  BY <1>3 DEF CaptIsr, Rise
<1>4. ASSUME NEW n \in TimerNumber, NEW p \in AllPlaces, Move(n, p) \/ Jump(n, p)
      PROVE  NeverDrivenHigh'
  BY <1>4 DEF Move, Jump
<1>5. ASSUME NEW b \in Button, Click(b)
      PROVE  NeverDrivenHigh'
  BY <1>5 DEF Click
<1>6. CASE UNCHANGED vars
  BY <1>6 DEF vars
<1> QED
  BY <1>1, <1>2, <1>3, <1>4, <1>5, <1>6 DEF Next

-----------------------------------------------------------------------------
(* The readings and the motion decoded from them agree modulo the range:   *)
(* a sync adds to both what was decoded.                                   *)
LEMMA MatchStep ==
  TypeOK /\ MotionMatchesReading /\ [Next]_vars => MotionMatchesReading'
<1> SUFFICES ASSUME TypeOK, MotionMatchesReading, [Next]_vars
             PROVE  MotionMatchesReading'
  OBVIOUS
<1> USE WidthAssumption, Halves, TimerNumbers
<1>1. CASE ~(LastCaptureValid /\ StartSync)
  <2>1. UNCHANGED <<potValue, moved>>
    <3>1. CASE StartSync
      <4>1. /\ ~LastCaptureValid
            /\ \A n \in TimerNumber : Decoded(n) = 0 /\ NewPotValue(n) = potValue[n]
        BY <1>1, <3>1 DEF Decoded, NewPotValue
      <4>2. /\ potValue' = [n \in TimerNumber |-> potValue[n]]
            /\ moved' = [n \in TimerNumber |-> moved[n]]
        BY <3>1, <4>1 DEF StartSync, TypeOK
      <4> QED
        BY <4>2 DEF TypeOK
    <3> QED
      BY <3>1, SyncOrNot
  <2> QED
    BY <2>1 DEF MotionMatchesReading
<1>2. CASE LastCaptureValid /\ StartSync
  <2> DEFINE old(n) == potValue[n]
             new(n) == PotValueOf(timestamp[n])
             v(n) == PotValueToVelocity(old(n), new(n))
  <2>1. ASSUME NEW n \in TimerNumber
        PROVE  /\ old(n) \in Int /\ new(n) \in Int /\ v(n) \in Int /\ moved[n] \in Int
               /\ Multiple(new(n) - old(n) - v(n), PotRange)
    <3>1. potValue[n] \in Int /\ timestamp[n] \in Int /\ moved[n] \in Int
      BY DEF TypeOK, Timer!TypeOK, Timer!Count, Word
    <3>2. new(n) \in Int
      BY <3>1, ReadingOfTimestamp DEF Word
    <3> HIDE DEF old, new
    <3>3. old(n) \in Int
      BY <3>1 DEF old
    <3>4. v(n) \in Int /\ IsDisplacement(v(n), old(n), new(n))
      BY <3>2, <3>3, VelocityIsDisplacement, Zenon
    <3> HIDE DEF v
    <3>5. new(n) - old(n) - v(n) \in Int
      BY <3>2, <3>3, <3>4
    <3>6. Multiple(new(n) - old(n) - v(n), PotRange)
      BY <3>4, <3>5, PotRange \in Nat \ {0}, MultipleIsZero, Zenon DEF IsDisplacement
    <3> QED
      BY <3>1, <3>2, <3>3, <3>4, <3>6
  <2>2. /\ potValue'[TIMER_1] = new(TIMER_1) /\ potValue'[TIMER_3] = new(TIMER_3)
        /\ moved'[TIMER_1] = moved[TIMER_1] + v(TIMER_1)
        /\ moved'[TIMER_3] = moved[TIMER_3] - v(TIMER_3)
    <3>1. Sign(TIMER_1) = 1 /\ Sign(TIMER_3) = -1
      BY InterfaceAssumption DEF Sign
    <3>2. Decoded(TIMER_1) = v(TIMER_1) /\ Decoded(TIMER_3) = -v(TIMER_3)
      BY <1>2, <2>1, <3>1 DEF Decoded
    <3> QED
      BY <1>2, <2>1, <3>2 DEF StartSync, NewPotValue
  <2>3. /\ Multiple(old(TIMER_1) - moved[TIMER_1], PotRange)
        /\ Multiple(old(TIMER_3) + moved[TIMER_3], PotRange)
    <3>1. old(TIMER_1) - moved[TIMER_1] \in Int /\ old(TIMER_3) + moved[TIMER_3] \in Int
      BY <2>1
    <3> QED
      BY <3>1, PotRange \in Nat \ {0}, MultipleIsZero, Zenon DEF MotionMatchesReading
  <2> HIDE DEF old, new, v
  <2>4. ASSUME NEW x \in Int, NEW y \in Int, Multiple(x, PotRange), Multiple(y, PotRange)
        PROVE  (x + y) % PotRange = 0
    <3>1. Multiple(x + y, PotRange)
      BY <2>4, PotRange \in Int, MultipleSum, Zenon
    <3> QED
      BY <3>1, x + y \in Int, PotRange \in Nat \ {0}, MultipleIsZero, Zenon
  <2>5. (new(TIMER_1) - (moved[TIMER_1] + v(TIMER_1))) % PotRange = 0
    <3> DEFINE x == new(TIMER_1) - old(TIMER_1) - v(TIMER_1)
               y == old(TIMER_1) - moved[TIMER_1]
    <3>1. x \in Int /\ y \in Int /\ new(TIMER_1) - (moved[TIMER_1] + v(TIMER_1)) = x + y
      BY <2>1
    <3>2. Multiple(x, PotRange) /\ Multiple(y, PotRange)
      BY <2>1, <2>3
    <3> HIDE DEF x, y
    <3> QED
      BY <2>4, <3>1, <3>2
  <2>6. (new(TIMER_3) + (moved[TIMER_3] - v(TIMER_3))) % PotRange = 0
    <3> DEFINE x == new(TIMER_3) - old(TIMER_3) - v(TIMER_3)
               y == old(TIMER_3) + moved[TIMER_3]
    <3>1. x \in Int /\ y \in Int /\ new(TIMER_3) + (moved[TIMER_3] - v(TIMER_3)) = x + y
      BY <2>1
    <3>2. Multiple(x, PotRange) /\ Multiple(y, PotRange)
      BY <2>1, <2>3
    <3> HIDE DEF x, y
    <3> QED
      BY <2>4, <3>1, <3>2
  <2> QED
    BY <2>2, <2>5, <2>6 DEF MotionMatchesReading
<1> QED
  BY <1>1, <1>2

-----------------------------------------------------------------------------
(* One sync adds to the accumulator, in its width, what it adds to the     *)
(* motion.                                                                 *)
LEMMA AccumulateOnce ==
  ASSUME TypeOK, AccumulatorHoldsMotion, NEW n \in TimerNumber
  PROVE  NewAccum(n) = ToSigned((moved[n] + Decoded(n)) - flushed[n], WordSize)
<1> USE WidthAssumption, Halves
<1> DEFINE a == moved[n] - flushed[n]
           d == Decoded(n)
<1>1. a \in Int /\ d \in Int /\ velocityAccum[n] = ToSigned(a, WordSize)
        /\ (moved[n] + Decoded(n)) - flushed[n] = a + d
  BY SyncTypes DEF TypeOK, AccumulatorHoldsMotion
<1>2. CASE LastCaptureValid
  <2>1. NewAccum(n) = ToSigned(ToSigned(a, WordSize) + d, WordSize)
    BY <1>1, <1>2 DEF NewAccum, Accumulated, Decoded
  <2> HIDE DEF a, d
  <2>2. ToSigned(ToSigned(a, WordSize) + d, WordSize) = ToSigned(a + d, WordSize)
    BY <1>1, WordSize \in Nat \ {0}, SignedSum, Zenon
  <2> QED
    BY <1>1, <2>1, <2>2
<1>3. CASE ~LastCaptureValid
  BY <1>1, <1>3 DEF NewAccum, Decoded
<1> QED
  BY <1>2, <1>3

LEMMA AccumulatorStep ==
  TypeOK /\ AccumulatorHoldsMotion /\ [Next]_vars => AccumulatorHoldsMotion'
<1> SUFFICES ASSUME TypeOK, AccumulatorHoldsMotion, [Next]_vars, NEW n \in TimerNumber
             PROVE  velocityAccum'[n] = ToSigned(moved'[n] - flushed'[n], WordSize)
  BY DEF AccumulatorHoldsMotion
<1>1. CASE SetModeSync
  <2>1. /\ velocityAccum'[n] = NewAccum(n)
        /\ moved'[n] = moved[n] + Decoded(n) /\ flushed'[n] = flushed[n]
    BY <1>1 DEF SetModeSync, StartSync
  <2> QED
    BY <2>1, AccumulateOnce
<1>2. CASE SetModeSyncThenUpdate
  <2>1. velocityAccum'[n] = 0 /\ moved'[n] = moved[n] + Decoded(n) /\ flushed' = moved'
    BY <1>2 DEF SetModeSyncThenUpdate, StartSync
  <2>2. moved'[n] - flushed'[n] = 0
    <3>1. moved[n] \in Int /\ Decoded(n) \in Int
      BY SyncTypes DEF TypeOK
    <3>2. moved'[n] \in Int /\ flushed'[n] = moved'[n]
      BY <2>1, <3>1
    <3> QED
      BY <3>2
  <2> QED
    BY <2>1, <2>2, ZeroIsZero
<1>3. CASE ~SetModeSync /\ ~SetModeSyncThenUpdate
  BY <1>3, SyncOrNot DEF AccumulatorHoldsMotion
<1> QED
  BY <1>1, <1>2, <1>3

(* An update hands over the accumulated motion, less than a count off.     *)
LEMMA UpdateReports ==
  ASSUME TypeOK, AccumulatorHoldsMotion, [Next]_vars, flushed' # flushed,
         NEW n \in TimerNumber,
         moved'[n] - flushed[n] \in Int16,
         CDiv(moved'[n] - flushed[n], TicksPerCount) \in Int8
  PROVE  LET rest == (moved'[n] - flushed[n]) - velocity'[n] * TicksPerCount
         IN  -TicksPerCount < rest /\ rest < TicksPerCount
<1> USE WidthAssumption, Halves
<1> DEFINE ticks == moved'[n] - flushed[n]
<1>1. SetModeSyncThenUpdate
  BY SyncOrNot DEF SetModeSync
<1>2. /\ velocity'[n] = VelocityOf(NewAccum(n))
      /\ NewAccum(n) = ToSigned(ticks, WordSize)
  BY <1>1, AccumulateOnce DEF SetModeSyncThenUpdate, StartSync
<1>3. ticks \in Int /\ ticks \in -(WordSize \div 2) .. (WordSize \div 2) - 1
  BY DEF Int16
<1>4. CDiv(ticks, TicksPerCount) \in -(ByteSize \div 2) .. (ByteSize \div 2) - 1
  BY DEF Int8
<1> HIDE DEF ticks
<1>5. NewAccum(n) = ticks
  BY <1>2, <1>3, WordSize \in Nat \ {0}, SmallSigned, Zenon
<1>6. velocity'[n] = CDiv(ticks, TicksPerCount)
  BY <1>2, <1>4, <1>5, ByteSize \in Nat \ {0}, SmallSigned, Zenon DEF VelocityOf
<1>7. /\ CDiv(ticks, TicksPerCount) \in Int
      /\ -TicksPerCount < ticks - (CDiv(ticks, TicksPerCount) * TicksPerCount)
      /\ ticks - (CDiv(ticks, TicksPerCount) * TicksPerCount) < TicksPerCount
  BY <1>3, Truncation
<1> QED
  BY <1>6, <1>7 DEF ticks

-----------------------------------------------------------------------------
(***************************************************************************)
(* Following the mouse.  A position is on its way through the driver in    *)
(* three stages: latched at the sync, captured into the timestamp, read    *)
(* into potValue.  At each stage the registers hold the image of a known   *)
(* place, and the places of two stages are near each other.                *)
(***************************************************************************)
BeforeUp ==
  ~up => \A n \in TimerNumber : ~icie[n] /\ ~stampOk[n] /\ ~readOk[n]

PendingTells ==
  \A n \in TimerNumber : icf[n] /\ icie[n] => icr[n] = EdgeTime(latched[n])

StampTells ==
  \A n \in TimerNumber : stampOk[n] => timestamp[n] = EdgeTime(stampPlace[n])

ReadTells ==
  \A n \in TimerNumber :
    readOk[n] => potValue[n] = PotValueOf(EdgeTime(readPlace[n]))

StoppedTells ==
  \A n \in TimerNumber : ~running[n] /\ stampOk[n] => stampPlace[n] = latched[n]

KeptNear ==
  \A n \in TimerNumber :
    /\ latchedOk[n] => Near(place[n], latched[n])
    /\ stampOk[n] => Near(place[n], stampPlace[n])
    /\ readOk[n] => Near(place[n], readPlace[n])
    /\ latchedOk[n] /\ stampOk[n] => Near(latched[n], stampPlace[n])
    /\ latchedOk[n] /\ readOk[n] => Near(latched[n], readPlace[n])
    /\ stampOk[n] /\ readOk[n] => Near(stampPlace[n], readPlace[n])

Following ==
  BeforeUp /\ PendingTells /\ StampTells /\ ReadTells /\ StoppedTells /\ KeptNear

LEMMA NearSelf == ASSUME NEW p \in Int PROVE Near(p, p)
  BY Halves DEF Near

LEMMA FollowingInit == Init => Following
  BY DEF Init, Timer!Init, Following, BeforeUp, PendingTells, StampTells,
         ReadTells, StoppedTells, KeptNear

LEMMA FollowingSync ==
  ASSUME TypeOK, Following, StartSync
  PROVE  Following'
<1> USE DEF Following, TypeOK, Timer!TypeOK
<1>1. BeforeUp'
  BY DEF BeforeUp, StartSync
<1>2. PendingTells'
  BY DEF PendingTells, StartSync, Timer!ArmInputCapture, Timer!ResetCaptures,
         Timer!StartTimers
<1>3. StampTells'
  BY DEF StampTells, StartSync, Timer!ArmInputCapture, Timer!ResetCaptures,
         Timer!StartTimers
<1>4. ReadTells'
  BY DEF ReadTells, StampTells, StartSync, NewPotValue
<1>5. StoppedTells'
  BY DEF StoppedTells, StartSync, Timer!ArmInputCapture, Timer!ResetCaptures,
         Timer!StartTimers
<1>6. KeptNear'
  BY NearSelf DEF KeptNear, StartSync
<1> QED
  BY <1>1, <1>2, <1>3, <1>4, <1>5, <1>6

LEMMA FollowingStep == TypeOK /\ Following /\ [Next]_vars => Following'
<1> SUFFICES ASSUME TypeOK, Following, [Next]_vars PROVE Following'
  OBVIOUS
<1> USE DEF timerVars, fieldVars, pinVars, mouseVars, historyVars, Timer!overflowVars
<1>1. CASE SetModeSync \/ SetModeSyncThenUpdate
  BY <1>1, FollowingSync DEF SetModeSync, SetModeSyncThenUpdate
<1>2. CASE ClearIO \/ SetModeRead
  BY <1>2 DEF ClearIO, SetModeRead, Following, BeforeUp, PendingTells, StampTells,
              ReadTells, StoppedTells, KeptNear
<1>3. CASE InitInterface
  BY <1>3 DEF InitInterface, Timer!InitInputCapture, Following, BeforeUp,
              PendingTells, StampTells, ReadTells, StoppedTells, KeptNear
<1>4. ASSUME NEW n \in TimerNumber, CaptIsr(n)
      PROVE  Following'
  <2> USE <1>4 DEF CaptIsr, Timer!CaptIsr, TypeOK, Timer!TypeOK, Following
  <2>1. BeforeUp'
    BY DEF BeforeUp
  <2>2. PendingTells'
    BY DEF PendingTells
  <2>3. StampTells'
    BY DEF StampTells, PendingTells
  <2>4. ReadTells'
    BY DEF ReadTells
  <2>5. StoppedTells'
    BY DEF StoppedTells
  <2>6. KeptNear'
    BY NearSelf DEF KeptNear
  <2> QED
    BY <2>1, <2>2, <2>3, <2>4, <2>5, <2>6
<1>5. ASSUME NEW n \in TimerNumber, Rise(n)
      PROVE  Following'
  <2> USE <1>5 DEF Rise, Timer!Edge, TypeOK, Timer!TypeOK, Following
  <2>1. PendingTells'
    BY DEF PendingTells
  <2>2. BeforeUp' /\ StampTells' /\ ReadTells' /\ StoppedTells' /\ KeptNear'
    BY DEF BeforeUp, StampTells, ReadTells, StoppedTells, KeptNear
  <2> QED
    BY <2>1, <2>2
<1>6. ASSUME NEW n \in TimerNumber, NEW p \in AllPlaces, Move(n, p)
      PROVE  Following'
  <2> USE <1>6 DEF Move, TypeOK, Timer!TypeOK, Following
  <2>1. KeptNear'
    BY DEF KeptNear
  <2>2. BeforeUp' /\ PendingTells' /\ StampTells' /\ ReadTells' /\ StoppedTells'
    BY DEF BeforeUp, PendingTells, StampTells, ReadTells, StoppedTells
  <2> QED
    BY <2>1, <2>2
<1>7. ASSUME NEW n \in TimerNumber, NEW p \in AllPlaces, Jump(n, p)
      PROVE  Following'
  <2> USE <1>7 DEF Jump, TypeOK, Timer!TypeOK, Following
  <2>1. KeptNear'
    BY DEF KeptNear
  <2>2. BeforeUp' /\ PendingTells' /\ StampTells' /\ ReadTells' /\ StoppedTells'
    BY DEF BeforeUp, PendingTells, StampTells, ReadTells, StoppedTells
  <2> QED
    BY <2>1, <2>2
<1>8. ASSUME NEW b \in Button, Click(b)
      PROVE  Following'
  BY <1>8 DEF Click, Following, BeforeUp, PendingTells, StampTells, ReadTells,
              StoppedTells, KeptNear
<1>9. CASE UNCHANGED vars
  BY <1>9 DEF vars, Following, BeforeUp, PendingTells, StampTells, ReadTells,
              StoppedTells, KeptNear
<1> QED
  BY <1>1, <1>2, <1>3, <1>4, <1>5, <1>6, <1>7, <1>8, <1>9 DEF Next

(***************************************************************************)
(* The distance between the mouse and the pointer does not change: a sync  *)
(* that takes a reading adds the exact motion since the last one.          *)
(***************************************************************************)
LEMMA ExactMotion ==
  ASSUME TypeOK, Following, NEW n \in TimerNumber, readOk[n], stampOk[n]
  PROVE  PotValueToVelocity(potValue[n], PotValueOf(timestamp[n]))
           = stampPlace[n] - readPlace[n]
<1> USE WidthAssumption, InterfaceAssumption, Halves
<1> DEFINE c == TimestampAdjust + Offset
           p == readPlace[n]
           q == stampPlace[n]
<1>1. c \in Int /\ p \in Int /\ q \in Int
  BY DEF TypeOK
<1>2. -Half <= q - p /\ q - p < Half
  BY <1>1 DEF Following, KeptNear, Near
<1>3. /\ potValue[n] = PotValueOf(c + (p % PotRange))
      /\ timestamp[n] = c + (q % PotRange)
  BY DEF Following, ReadTells, StampTells, EdgeTime
<1> HIDE DEF c, p, q
<1>4. PotValueToVelocity(PotValueOf(c + (p % PotRange)), PotValueOf(c + (q % PotRange)))
        = q - p
  BY <1>1, <1>2, MotionDecoded
<1> QED
  BY <1>3, <1>4 DEF p, q

LEMMA DriftStep ==
  ASSUME TypeOK, Following, [Next]_vars, NEW n \in TimerNumber, readOk[n], readOk'[n]
  PROVE  Drift(n)' = Drift(n)
<1> USE TimerNumbers
<1>1. CASE LastCaptureValid /\ StartSync
  <2>1. /\ readPlace'[n] = stampPlace[n] /\ moved'[n] = moved[n] + Decoded(n)
        /\ stampOk[n]
    BY <1>1 DEF StartSync
  <2>2. /\ readPlace[n] \in Int /\ stampPlace[n] \in Int /\ moved[n] \in Int
    BY DEF TypeOK
  <2>3. Decoded(n) = Sign(n) * (stampPlace[n] - readPlace[n])
    BY <1>1, <2>1, ExactMotion DEF Decoded
  <2>4. CASE n = TIMER_3
    <3>1. Decoded(n) = readPlace[n] - stampPlace[n]
      BY <2>2, <2>3, <2>4 DEF Sign
    <3>2. readPlace'[n] + moved'[n] = readPlace[n] + moved[n]
      BY <2>1, <2>2, <3>1
    <3> QED
      BY <2>4, <3>2 DEF Drift
  <2>5. CASE n # TIMER_3
    <3>1. Decoded(n) = stampPlace[n] - readPlace[n]
      BY <2>2, <2>3, <2>5 DEF Sign
    <3>2. readPlace'[n] - moved'[n] = readPlace[n] - moved[n]
      BY <2>1, <2>2, <3>1
    <3> QED
      BY <2>5, <3>2 DEF Drift
  <2> QED
    BY <2>4, <2>5
<1>2. CASE ~(LastCaptureValid /\ StartSync)
  <2>1. readPlace'[n] = readPlace[n] /\ moved'[n] = moved[n]
    <3>1. CASE StartSync
      <4>1. ~LastCaptureValid /\ Decoded(n) = 0
        BY <1>2, <3>1 DEF Decoded
      <4> QED
        BY <3>1, <4>1 DEF StartSync, TypeOK
    <3> QED
      BY <3>1, SyncOrNot
  <2> QED
    BY <2>1 DEF Drift
<1> QED
  BY <1>1, <1>2

-----------------------------------------------------------------------------
IInv ==
  TypeOK /\ NeverDrivenHigh /\ MotionMatchesReading /\ AccumulatorHoldsMotion
    /\ Following

LEMMA InitBookkeeping ==
  Init => NeverDrivenHigh /\ MotionMatchesReading /\ AccumulatorHoldsMotion
<1> SUFFICES ASSUME Init
             PROVE  NeverDrivenHigh /\ MotionMatchesReading /\ AccumulatorHoldsMotion
  OBVIOUS
<1>1. NeverDrivenHigh
  BY DEF Init, NeverDrivenHigh, DrivesHigh
<1>2. MotionMatchesReading
  <2>1. 0 % PotRange = 0
    BY WidthAssumption
  <2>2. potValue[TIMER_1] - moved[TIMER_1] = 0 /\ potValue[TIMER_3] + moved[TIMER_3] = 0
    BY TimerNumbers DEF Init
  <2> QED
    BY <2>1, <2>2 DEF MotionMatchesReading
<1>3. AccumulatorHoldsMotion
  <2>1. ToSigned(0, WordSize) = 0
    BY ZeroIsZero
  <2>2. \A n \in TimerNumber : velocityAccum[n] = 0 /\ moved[n] - flushed[n] = 0
    BY DEF Init
  <2> QED
    BY <2>1, <2>2 DEF AccumulatorHoldsMotion
<1> QED
  BY <1>1, <1>2, <1>3

LEMMA Invariance == Spec => []IInv
<1>1. Init => IInv
  <2> SUFFICES ASSUME Init PROVE IInv
    OBVIOUS
  <2>1. TypeOK /\ Following
    BY TypeInit, FollowingInit
  <2> QED
    BY <2>1, InitBookkeeping DEF IInv
<1>2. IInv /\ [Next]_vars => IInv'
  BY TypeStep, LowStep, MatchStep, AccumulatorStep, FollowingStep DEF IInv
<1> QED
  BY <1>1, <1>2, PTL DEF Spec

(* The fields of C1351Interface, the registers of its timers and its pins  *)
(* keep their types, whatever is captured or missed.                       *)
THEOREM TypeCorrect == Spec => []TypeOK
<1>1. IInv => TypeOK
  BY DEF IInv
<1> QED
  BY <1>1, Invariance, PTL

(* setPotsOutputLow: a POT pin never drives high. *)
THEOREM PotsNeverDrivenHigh == Spec => []NeverDrivenHigh
<1>1. IInv => NeverDrivenHigh
  BY DEF IInv
<1> QED
  BY <1>1, Invariance, PTL

(* The sum of all velocities agrees with the reading that is held, modulo  *)
(* the range, through missed captures, jumps and replugging.               *)
THEOREM MotionIsOffByWholeRanges == Spec => []MotionMatchesReading
<1>1. IInv => MotionMatchesReading
  BY DEF IInv
<1> QED
  BY <1>1, Invariance, PTL

(* The int16_t accumulators hold the motion since the last update(), in    *)
(* their width.                                                            *)
THEOREM AccumulatorsHoldTheMotion == Spec => []AccumulatorHoldsMotion
<1>1. IInv => AccumulatorHoldsMotion
  BY DEF IInv
<1> QED
  BY <1>1, Invariance, PTL

(* As long as the mouse can be followed, the pointer keeps its distance    *)
(* from it exactly: no tick of motion is lost or counted twice.            *)
THEOREM PointerDoesNotDrift == Spec => NoDrift
<1> DEFINE Kept == \A n \in TimerNumber :
                     readOk[n] /\ readOk'[n] => Drift(n)' = Drift(n)
<1>1. IInv /\ [Next]_vars => [Kept]_vars
  BY DriftStep DEF IInv
<1> QED
  BY <1>1, Invariance, PTL DEF Spec, NoDrift

(* What update() hands to the USB mouse is the motion since the last       *)
(* update() to within one count, if the two integer types can hold it.     *)
THEOREM UpdatesReportTheMotion == Spec => ReportedWithinACount
<1> DEFINE Reported ==
      flushed' # flushed =>
        \A n \in TimerNumber :
          LET ticks == moved'[n] - flushed[n]
              rest  == ticks - velocity'[n] * TicksPerCount
          IN  ticks \in Int16 /\ CDiv(ticks, TicksPerCount) \in Int8 =>
                -TicksPerCount < rest /\ rest < TicksPerCount
<1>1. IInv /\ [Next]_vars => [Reported]_vars
  BY UpdateReports DEF IInv
<1> QED
  BY <1>1, Invariance, PTL DEF Spec, ReportedWithinACount

(* A reading accepted for the Y axis is where the mouse was at the last    *)
(* sync: last_capture_invalid keeps older captures out.                    *)
THEOREM AcceptedReadingsAreCurrent == Spec => AcceptedYIsCurrent
<1> DEFINE Current == StartSync /\ LastCaptureValid /\ stampOk[TIMER_3]
                        => readPlace'[TIMER_3] = latched[TIMER_3]
<1>1. IInv => [Current]_vars
  BY TimerNumbers
     DEF IInv, Following, StoppedTells, StartSync, LastCaptureValid, TypeOK
<1> QED
  BY <1>1, Invariance, PTL DEF Spec, AcceptedYIsCurrent

-----------------------------------------------------------------------------
(* The program: the inductive invariant of its clock and its handlers.     *)

MainTypeOK ==
  /\ pc \in {"reset", "setupUsbMouse", "init", "setupMainInterrupt", "loop"}
  /\ mode \in {"DISCHARGE", "READ"}
  /\ interval_counter \in 1 .. UpdateInterval
  /\ tcnt4 \in 0 .. Interval - 1
  /\ ocf4 \in BOOLEAN /\ busDone \in BOOLEAN
  /\ busy \in Nat /\ since \in Nat /\ serviceAge \in Nat
  /\ plugged \in BOOLEAN /\ answers \in BOOLEAN

(* Before the main interrupt is enabled nothing of the cycle has happened; *)
(* at most one bus interrupt has come.                                     *)
Booting ==
  pc # "loop" =>
    /\ mode = "DISCHARGE" /\ interval_counter = UpdateInterval
    /\ tcnt4 = 0 /\ ~ocf4 /\ ~answers
    /\ pc \in {"reset", "setupUsbMouse"} =>
         serviceAge = 0 /\ busy = 0 /\ ~busDone
    /\ pc \in {"init", "setupMainInterrupt"} =>
         serviceAge + busy <= IF busDone THEN MaxBusTicks ELSE 0

(* Ticks since the compare match that the last sync answered, or is still  *)
(* to answer.                                                              *)
PhaseStart ==
  IF mode = "READ" THEN (IF ocf4 THEN Interval ELSE 0)
                   ELSE (IF ocf4 THEN 2 * Interval ELSE Interval)

Elapsed == PhaseStart + tcnt4

(* The count of Timers 1 and 3 is behind by the delay of the sync. *)
CountFollowsClock ==
  mode = "READ" \/ answers => since <= Elapsed /\ Elapsed <= since + SyncDelay

(* When the handler that is running will return at the latest. *)
BusyInSync ==
  mode = "READ" =>
    /\ since + busy <= ReadDelay
    /\ ~(ocf4 /\ busDone) => since + busy <= SyncPhase

BusyInRead ==
  mode = "DISCHARGE" =>
    /\ ~ocf4 => busy <= MaxBusTicks
    /\ ocf4 => tcnt4 + busy <= SyncDelay
    /\ ocf4 /\ ~busDone => tcnt4 + busy <= BusRest

ClockInv ==
  MainTypeOK /\ Booting /\ CountFollowsClock /\ BusyInSync /\ BusyInRead

(* The time of the cycles since the last update, but the present one: a    *)
(* sync that is not due for an update counts the cycle that it ends.       *)
CountedTime == (UpdateInterval - interval_counter) * (2 * Interval)

ServiceCounted == pc = "loop" => serviceAge <= CountedTime + Elapsed

-----------------------------------------------------------------------------
(* The lines are released in the second half of a cycle, and only then may *)
(* the mouse that has seen the sync drive them.                            *)
LinesFollowMode ==
  /\ pc \in {"setupMainInterrupt", "loop"} => up
  /\ answers => pc = "loop"
  /\ answers /\ mode = "DISCHARGE" => ~potsOut
  /\ mode = "READ" => potsOut

(* No edge is overdue. *)
EdgesInTime ==
  \A n \in TimerNumber : answers /\ ~risen[n] => since <= EdgeTime(latched[n])

(* A timer that still runs although its edge has come is about to stop.    *)
RisenIsCaptured ==
  \A n \in TimerNumber :
    answers /\ risen[n] /\ running[n] => icf[n] /\ icie[n]

(* A timer that runs can be captured. *)
RunningIsArmed == \A n \in TimerNumber : running[n] => icie[n]

LineInv ==
  TypeOK /\ LinesFollowMode /\ EdgesInTime /\ ReadingsUnaffected
    /\ RunningIsArmed /\ RisenIsCaptured

(* What a stopped timer has captured since the sync is an edge; until the  *)
(* first sync nothing is captured, and the driver holds its initial values. *)
PendingIsEdge == \A n \in TimerNumber : icf[n] /\ icie[n] => icr[n] \in edges[n]

CapturedIsEdge ==
  answers => \A n \in TimerNumber : ~running[n] => timestamp[n] \in edges[n]

StillBeforeSync ==
  ~running[TIMER_3] /\ edges[TIMER_3] = {} =>
    \A n \in TimerNumber : ~icie[n] /\ timestamp[n] = 0 /\ potValue[n] = 0

StillInBoot ==
  pc \in {"reset", "setupUsbMouse", "init"} =>
    \A n \in TimerNumber : ~running[n] /\ edges[n] = {}

CaptureInv ==
  MainTypeOK /\ TypeOK /\ Booting /\ PendingIsEdge /\ CapturedIsEdge
    /\ StillBeforeSync /\ StillInBoot

(* A sync that ends a cycle of the mouse takes, on both axes, the place    *)
(* where it was at the sync before.                                        *)
ReadingsAreCurrent ==
  [][Discharge /\ answers =>
       \A n \in TimerNumber :
         potValue'[n] = PotValueOf(EdgeTime(latched[n]))]_mainVars

-----------------------------------------------------------------------------
(* The delays and how they are related. *)
LEMMA Delays ==
  /\ MaxBusTicks \in Nat /\ MaxUsbTicks \in Nat /\ Interval \in Nat \ {0}
  /\ BusRest \in Nat /\ BusRest <= MaxBusTicks /\ MaxBusTicks <= BusRest + 1
  /\ SyncDelay \in Nat /\ SyncDelay = BusRest + MaxBusTicks
  /\ SyncPhase \in Nat /\ MaxUsbTicks <= SyncPhase /\ Interval + BusRest <= SyncPhase
  /\ ReadDelay \in Nat /\ ReadDelay = SyncPhase + MaxBusTicks
<1>1. /\ BusRest \in Nat /\ BusRest <= MaxBusTicks /\ MaxBusTicks <= BusRest + 1
  BY MainAssumption DEF BusRest
<1>2. SyncPhase \in Nat /\ MaxUsbTicks <= SyncPhase /\ Interval + BusRest <= SyncPhase
  BY <1>1, MainAssumption DEF SyncPhase, Longer
<1> QED
  BY <1>1, <1>2, MainAssumption DEF SyncDelay, ReadDelay

(* The steps that take no part in the clock: captures, edges, motion and   *)
(* the buttons.                                                            *)
LEMMA OtherSteps ==
  ASSUME \/ \E n \in TimerNumber : Capture(n)
         \/ \E n \in TimerNumber : LineRises(n)
         \/ MouseMoves
         \/ ButtonClicks
         \/ UNCHANGED mainVars
  PROVE  UNCHANGED <<pc, isrVars, clockVars, plugVars>>
<1>1. ASSUME NEW n \in TimerNumber, Capture(n) \/ LineRises(n)
      PROVE  UNCHANGED <<pc, isrVars, clockVars, plugVars>>
  BY <1>1 DEF Capture, LineRises
<1> QED
  BY <1>1 DEF MouseMoves, ButtonClicks, mainVars

LEMMA MainTypeStep ==
  ASSUME MainTypeOK, [MainNext]_mainVars
  PROVE  MainTypeOK'
<1> USE MainAssumption DEF MainTypeOK, isrVars, clockVars, plugVars
<1>1. CASE Boot
  BY <1>1 DEF Boot, BootClearIO, BootSetupUsbMouse, BootInit, SetupMainInterrupt
<1>2. CASE Discharge
  <2>1. /\ pc' = pc /\ tcnt4' = tcnt4 /\ busDone' = busDone /\ plugged' = plugged
        /\ ocf4' = FALSE /\ since' = 0 /\ answers' = plugged
        /\ mode' \in {"DISCHARGE", "READ"}
    BY <1>2 DEF Discharge, Timer4Isr, NextMode
  <2>2. interval_counter' \in 1 .. UpdateInterval
    BY <1>2 DEF Discharge, NextIntervalCounter, UpdateDue
  <2>3. busy' \in Nat /\ serviceAge' \in Nat
    BY <1>2 DEF Discharge
  <2> QED
    BY <2>1, <2>2, <2>3
<1>3. CASE Read
  BY <1>3 DEF Read, Timer4Isr, NextMode
<1>4. CASE UsbBusIsr
  BY <1>4 DEF UsbBusIsr
<1>5. CASE Tick
  <2>1. NextCount \in 0 .. Interval - 1
    BY Euclid DEF NextCount
  <2>2. /\ busy' \in Nat /\ since' \in Nat /\ serviceAge' \in Nat
        /\ tcnt4' \in 0 .. Interval - 1
    BY <1>5, <2>1 DEF Tick
  <2>3. ocf4' \in BOOLEAN /\ busDone' \in BOOLEAN
    BY <1>5 DEF Tick
  <2>4. UNCHANGED <<pc, isrVars, plugVars>>
    BY <1>5 DEF Tick
  <2> QED
    BY <2>2, <2>3, <2>4
<1>6. CASE Plug
  BY <1>6 DEF Plug
<1>7. CASE UNCHANGED <<pc, isrVars, clockVars, plugVars>>
  BY <1>7
<1> QED
  BY <1>1, <1>2, <1>3, <1>4, <1>5, <1>6, <1>7, OtherSteps DEF MainNext, Handlers

(* The count of Timer 4 goes on, or wraps with a compare match. *)
LEMMA NextCounts ==
  ASSUME MainTypeOK
  PROVE  IF tcnt4 = Interval - 1 THEN NextCount = 0 ELSE NextCount = tcnt4 + 1
<1> USE MainAssumption DEF MainTypeOK
<1>1. CASE tcnt4 = Interval - 1
  <2>1. NextCount = Interval % Interval
    BY <1>1 DEF NextCount
  <2> QED
    BY <1>1, <2>1
<1>2. CASE tcnt4 # Interval - 1
  BY <1>2 DEF NextCount
<1> QED
  BY <1>1, <1>2

LEMMA BootingStep ==
  ASSUME MainTypeOK, Booting, [MainNext]_mainVars
  PROVE  Booting'
<1> USE DEF Booting, isrVars, clockVars, plugVars
<1>1. CASE Boot
  BY <1>1 DEF Boot, BootClearIO, BootSetupUsbMouse, BootInit, SetupMainInterrupt
<1>2. CASE Discharge \/ Read
  BY <1>2 DEF Discharge, Read, Timer4Isr
<1>3. CASE UsbBusIsr
  <2>1. /\ ~busDone /\ busDone' = TRUE /\ busy = 0
        /\ UNCHANGED <<pc, isrVars, tcnt4, ocf4, since, serviceAge, plugVars>>
        /\ pc \notin {"reset", "setupUsbMouse"}
    BY <1>3 DEF UsbBusIsr, CanRunHandler, InterruptsEnabled
  <2>2. PICK z \in 1 .. MaxBusTicks : busy' = z
    BY <1>3 DEF UsbBusIsr
  <2>3. pc # "loop" => serviceAge = 0
    BY <2>1, MainAssumption DEF MainTypeOK
  <2>4. pc # "loop" => serviceAge' + busy' <= MaxBusTicks
    BY <2>1, <2>2, <2>3, MainAssumption
  <2> QED
    BY <2>1, <2>4
<1>4. CASE Tick
  BY <1>4, MainAssumption DEF Tick, MainTypeOK
<1>5. CASE Plug
  BY <1>5 DEF Plug
<1>6. CASE UNCHANGED <<pc, isrVars, clockVars, plugVars>>
  BY <1>6
<1> QED
  BY <1>1, <1>2, <1>3, <1>4, <1>5, <1>6, OtherSteps DEF MainNext, Handlers
(* What the steps of the clock do; busy' is given by a value, which is all *)
(* that a sync and a bus interrupt leave open.                             *)
LEMMA DischargeClock ==
  ASSUME MainTypeOK, Discharge
  PROVE  /\ mode = "DISCHARGE" /\ mode' = "READ" /\ ocf4 /\ ocf4' = FALSE
         /\ busy = 0 /\ since' = 0 /\ tcnt4' = tcnt4 /\ busDone' = busDone /\ pc' = pc
         /\ \E z \in 0 .. MaxUsbTicks : busy' = z
<1>1. /\ mode = "DISCHARGE" /\ mode' = "READ" /\ ocf4 /\ ocf4' = FALSE
      /\ busy = 0 /\ since' = 0 /\ tcnt4' = tcnt4 /\ busDone' = busDone /\ pc' = pc
  BY DEF Discharge, Timer4Isr, CanRunHandler, NextMode
<1>2. \E z \in 0 .. MaxUsbTicks : busy' = z
  BY <1>1, MainAssumption DEF Discharge
<1> QED
  BY <1>1, <1>2

LEMMA ReadClock ==
  ASSUME MainTypeOK, Read
  PROVE  /\ mode = "READ" /\ mode' = "DISCHARGE" /\ ocf4 /\ ocf4' = FALSE /\ busy = 0
         /\ UNCHANGED <<pc, interval_counter, tcnt4, busy, busDone, since,
                        serviceAge, answers>>
  BY DEF Read, Timer4Isr, CanRunHandler, NextMode, plugVars

LEMMA UsbBusClock ==
  ASSUME MainTypeOK, UsbBusIsr
  PROVE  /\ busy = 0 /\ busDone = FALSE /\ busDone' = TRUE
         /\ UNCHANGED <<pc, mode, interval_counter, tcnt4, ocf4, since,
                        serviceAge, answers>>
         /\ \E z \in 1 .. MaxBusTicks : busy' = z
  BY DEF UsbBusIsr, CanRunHandler, MainTypeOK, isrVars, plugVars

LEMMA TickClock ==
  ASSUME MainTypeOK, Booting, Tick
  PROVE  /\ UNCHANGED <<pc, mode, interval_counter, answers>>
         /\ since' = since + 1 /\ serviceAge' = serviceAge + 1
         /\ IF busy > 0 THEN busy' = busy - 1 ELSE busy' = 0 /\ pc = "loop" /\ ~ocf4
         /\ IF pc # "loop" \/ tcnt4 # Interval - 1
              THEN /\ tcnt4' = IF pc = "loop" THEN tcnt4 + 1 ELSE tcnt4
                   /\ UNCHANGED <<ocf4, busDone>>
              ELSE tcnt4' = 0 /\ ocf4' = TRUE /\ busDone' = FALSE
<1> USE DEF MainTypeOK, Booting, isrVars, plugVars
<1>1. /\ UNCHANGED <<pc, mode, interval_counter, answers>>
      /\ since' = since + 1 /\ serviceAge' = serviceAge + 1
      /\ IF busy > 0 THEN busy' = busy - 1 ELSE busy' = 0 /\ pc = "loop" /\ ~ocf4
  BY DEF Tick
<1>2. CASE pc # "loop"
  BY <1>2 DEF Tick
<1>3. CASE pc = "loop" /\ tcnt4 # Interval - 1
  <2>1. tcnt4' = tcnt4 + 1 /\ tcnt4' # 0
    BY <1>3, NextCounts DEF Tick
  <2> QED
    BY <1>3, <2>1 DEF Tick
<1>4. CASE pc = "loop" /\ tcnt4 = Interval - 1
  BY <1>4, NextCounts DEF Tick
<1> QED
  BY <1>1, <1>2, <1>3, <1>4

LEMMA PlugClock ==
  ASSUME Plug
  PROVE  UNCHANGED <<pc, isrVars, clockVars>> /\ answers' = FALSE
  BY DEF Plug
-----------------------------------------------------------------------------
(* Elapsed, as the clock goes on. *)
LEMMA ElapsedInPhase ==
  ASSUME MainTypeOK
  PROVE  /\ Elapsed \in Nat
         /\ mode = "READ" /\ ~ocf4 => Elapsed = tcnt4
         /\ mode = "READ" /\ ocf4 => Elapsed = Interval + tcnt4
         /\ mode = "DISCHARGE" /\ ~ocf4 => Elapsed = Interval + tcnt4
         /\ mode = "DISCHARGE" /\ ocf4 => Elapsed = (2 * Interval) + tcnt4
  BY MainAssumption DEF Elapsed, PhaseStart, MainTypeOK

LEMMA ClockTypes ==
  ASSUME MainTypeOK
  PROVE  /\ busy \in Nat /\ since \in Nat /\ serviceAge \in Nat
         /\ tcnt4 \in Nat /\ tcnt4 <= Interval - 1
         /\ mode = "READ" \/ mode = "DISCHARGE"
  BY MainAssumption DEF MainTypeOK

(* With short handlers, Timer 4 never comes to a compare match while the   *)
(* one before is still pending.                                            *)
LEMMA NoMatchLost ==
  ASSUME HandlersAreShort, ClockInv, Tick, ocf4
  PROVE  tcnt4 # Interval - 1
<1> USE Delays, ClockTypes DEF ClockInv
<1>1. busy > 0
  BY TickClock
<1>2. ReadDelay + SyncDelay < 2 * Interval
  BY DEF HandlersAreShort
<1>3. CASE mode = "DISCHARGE"
  <2>1. tcnt4 + busy <= SyncDelay
    BY <1>3 DEF BusyInRead
  <2> QED
    BY <1>1, <1>2, <2>1
<1>4. CASE mode = "READ"
  <2>1. since + busy <= ReadDelay
    BY <1>4 DEF BusyInSync
  <2>2. Interval + tcnt4 <= since + SyncDelay
    BY <1>4, ElapsedInPhase DEF CountFollowsClock
  <2> QED
    BY <1>1, <1>2, <2>1, <2>2
<1> QED
  BY <1>3, <1>4

LEMMA BusyInReadStep ==
  ASSUME HandlersAreShort, ClockInv, [MainNext]_mainVars
  PROVE  BusyInRead'
<1> USE Delays, ClockTypes DEF ClockInv, BusyInRead
<1>1. CASE Boot
  <2>1. mode = "DISCHARGE" /\ ~ocf4 /\ busy <= MaxBusTicks
    BY <1>1 DEF Boot, BootClearIO, BootSetupUsbMouse, BootInit, SetupMainInterrupt,
                Booting
  <2>2. UNCHANGED <<busy, ocf4>>
    BY <1>1 DEF Boot, BootClearIO, BootSetupUsbMouse, BootInit, SetupMainInterrupt,
                clockVars
  <2> QED
    BY <2>1, <2>2
<1>2. CASE Discharge
  BY <1>2, DischargeClock
<1>3. CASE Read
  BY <1>3, ReadClock
<1>4. CASE UsbBusIsr
  <2>1. PICK z \in 1 .. MaxBusTicks : busy' = z
    BY <1>4, UsbBusClock
  <2>2. busy = 0 /\ ~busDone /\ UNCHANGED <<mode, tcnt4, ocf4>> /\ busDone'
    BY <1>4, UsbBusClock
  <2> QED
    BY <2>1, <2>2
<1>5. CASE Tick
  <2>1. /\ mode' = mode
        /\ busy > 0 => busy' = busy - 1
        /\ busy = 0 => busy' = 0 /\ pc = "loop" /\ ~ocf4
    BY <1>5, TickClock
  <2>2. CASE pc # "loop"
    <3>1. UNCHANGED <<tcnt4, ocf4, busDone>> /\ ~ocf4
      BY <1>5, <2>2, TickClock DEF Booting
    <3> QED
      BY <2>1, <2>2, <3>1
  <2>3. CASE pc = "loop" /\ tcnt4 # Interval - 1
    <3>1. tcnt4' = tcnt4 + 1 /\ ocf4' = ocf4 /\ busDone' = busDone
      BY <1>5, <2>3, TickClock
    <3>2. CASE busy > 0
      <4>1. busy' <= busy /\ tcnt4' + busy' = tcnt4 + busy
        BY <2>1, <3>1, <3>2
      <4> QED
        BY <2>1, <3>1, <4>1
    <3>3. CASE busy = 0
      BY <2>1, <3>1, <3>3
    <3> QED
      BY <3>2, <3>3
  <2>4. CASE pc = "loop" /\ tcnt4 = Interval - 1
    <3>1. tcnt4' = 0 /\ ocf4' = TRUE /\ busDone' = FALSE
      BY <1>5, <2>4, TickClock
    <3>2. ~ocf4
      BY <1>5, <2>4, NoMatchLost
    <3> QED
      BY <2>1, <3>1, <3>2
  <2> QED
    BY <2>2, <2>3, <2>4
<1>6. CASE Plug \/ UNCHANGED <<pc, isrVars, clockVars, plugVars>>
  BY <1>6, PlugClock DEF isrVars, clockVars
<1> QED
  BY <1>1, <1>2, <1>3, <1>4, <1>5, <1>6, OtherSteps DEF MainNext, Handlers
LEMMA ElapsedGoesOn ==
  ASSUME HandlersAreShort, ClockInv
  PROVE  /\ Discharge => Elapsed = (2 * Interval) + tcnt4 /\ Elapsed' = tcnt4
         /\ Read \/ UsbBusIsr => Elapsed' = Elapsed
         /\ Tick /\ pc = "loop" => Elapsed' = Elapsed + 1
<1> USE Delays, ClockTypes DEF ClockInv, Elapsed, PhaseStart
<1>1. ASSUME Discharge
      PROVE  Elapsed = (2 * Interval) + tcnt4 /\ Elapsed' = tcnt4
  <2>1. /\ mode = "DISCHARGE" /\ ocf4 /\ mode' = "READ" /\ ocf4' = FALSE
        /\ tcnt4' = tcnt4
    BY <1>1, DischargeClock
  <2> QED
    BY <2>1
<1>2. ASSUME Read PROVE Elapsed' = Elapsed
  <2>1. /\ mode = "READ" /\ ocf4 /\ mode' = "DISCHARGE" /\ ocf4' = FALSE
        /\ tcnt4' = tcnt4
    BY <1>2, ReadClock
  <2> QED
    BY <2>1
<1>3. ASSUME UsbBusIsr PROVE Elapsed' = Elapsed
  <2>1. mode' = mode /\ ocf4' = ocf4 /\ tcnt4' = tcnt4
    BY <1>3, UsbBusClock
  <2> QED
    BY <2>1
<1>4. ASSUME Tick, pc = "loop" PROVE Elapsed' = Elapsed + 1
  <2>1. CASE tcnt4 # Interval - 1
    <3>1. mode' = mode /\ ocf4' = ocf4 /\ tcnt4' = tcnt4 + 1
      BY <1>4, <2>1, TickClock
    <3> QED
      BY <3>1
  <2>2. CASE tcnt4 = Interval - 1
    <3>1. mode' = mode /\ ~ocf4 /\ ocf4' = TRUE /\ tcnt4' = 0
      BY <1>4, <2>2, TickClock, NoMatchLost
    <3> QED
      BY <2>2, <3>1
  <2> QED
    BY <2>1, <2>2
<1> QED
  BY <1>1, <1>2, <1>3, <1>4

LEMMA CountStep ==
  ASSUME HandlersAreShort, ClockInv, [MainNext]_mainVars
  PROVE  CountFollowsClock'
<1> USE Delays, ClockTypes, ElapsedInPhase DEF ClockInv, CountFollowsClock
<1>1. CASE Boot
  <2>1. mode' = "DISCHARGE" /\ answers' = FALSE
    BY <1>1 DEF Boot, BootClearIO, BootSetupUsbMouse, BootInit, SetupMainInterrupt,
                isrVars, plugVars, Booting
  <2> QED
    BY <2>1
<1>2. CASE Discharge
  <2>1. Elapsed' = tcnt4 /\ since' = 0
    BY <1>2, DischargeClock, ElapsedGoesOn
  <2>2. tcnt4 <= SyncDelay
    BY <1>2, DischargeClock DEF BusyInRead
  <2> QED
    BY <2>1, <2>2
<1>3. CASE Read
  <2>1. Elapsed' = Elapsed /\ since' = since /\ mode = "READ"
    BY <1>3, ReadClock, ElapsedGoesOn
  <2> QED
    BY <2>1
<1>4. CASE UsbBusIsr
  <2>1. /\ Elapsed' = Elapsed /\ since' = since
        /\ mode' = mode /\ answers' = answers
    BY <1>4, UsbBusClock, ElapsedGoesOn
  <2> QED
    BY <2>1
<1>5. CASE Tick
  <2>1. since' = since + 1 /\ mode' = mode /\ answers' = answers
    BY <1>5, TickClock
  <2>2. CASE pc = "loop"
    <3>1. Elapsed' = Elapsed + 1
      BY <1>5, <2>2, ElapsedGoesOn
    <3> QED
      BY <2>1, <3>1
  <2>3. CASE pc # "loop"
    BY <2>1, <2>3 DEF Booting
  <2> QED
    BY <2>2, <2>3
<1>6. CASE Plug \/ UNCHANGED <<pc, isrVars, clockVars, plugVars>>
  <2>1. UNCHANGED <<mode, ocf4, tcnt4, since>> /\ (answers' = FALSE \/ answers' = answers)
    BY <1>6, PlugClock DEF isrVars, clockVars, plugVars
  <2>2. Elapsed' = Elapsed
    BY <2>1 DEF Elapsed, PhaseStart
  <2> QED
    BY <2>1, <2>2
<1> QED
  BY <1>1, <1>2, <1>3, <1>4, <1>5, <1>6, OtherSteps DEF MainNext, Handlers

LEMMA BusyInSyncStep ==
  ASSUME HandlersAreShort, ClockInv, [MainNext]_mainVars
  PROVE  BusyInSync'
<1> USE Delays, ClockTypes DEF ClockInv, BusyInSync
<1>1. CASE Boot
  <2>1. mode' = "DISCHARGE"
    BY <1>1 DEF Boot, BootClearIO, BootSetupUsbMouse, BootInit, SetupMainInterrupt,
                isrVars, Booting
  <2> QED
    BY <2>1
<1>2. CASE Discharge
  <2>1. PICK z \in 0 .. MaxUsbTicks : busy' = z
    BY <1>2, DischargeClock
  <2>2. since' = 0
    BY <1>2, DischargeClock
  <2> QED
    BY <2>1, <2>2
<1>3. CASE Read
  <2>1. mode' = "DISCHARGE"
    BY <1>3, ReadClock
  <2> QED
    BY <2>1
<1>4. CASE UsbBusIsr
  <2>1. PICK z \in 1 .. MaxBusTicks : busy' = z
    BY <1>4, UsbBusClock
  <2>2. busy = 0 /\ ~busDone /\ UNCHANGED <<mode, since, ocf4>> /\ busDone'
    BY <1>4, UsbBusClock
  <2>3. CASE mode = "READ" /\ ocf4
    BY <2>1, <2>2, <2>3
  <2>4. CASE mode = "READ" /\ ~ocf4
    <3>1. since <= Interval - 1
      BY <2>4, ElapsedInPhase DEF CountFollowsClock
    <3> QED
      BY <2>1, <2>2, <2>4, <3>1
  <2>5. CASE mode # "READ"
    BY <2>2, <2>5
  <2> QED
    BY <2>3, <2>4, <2>5
<1>5. CASE Tick
  <2>1. /\ mode' = mode /\ since' = since + 1
        /\ busy > 0 => busy' = busy - 1
        /\ busy = 0 => busy' = 0 /\ ~ocf4
    BY <1>5, TickClock
  <2>2. ~(ocf4 /\ busDone) \/ (ocf4' /\ busDone')
    BY <1>5, TickClock, NoMatchLost
  <2>3. CASE mode = "READ" /\ busy > 0
    <3>1. since' + busy' = since + busy
      BY <2>1, <2>3
    <3> QED
      BY <2>1, <2>2, <2>3, <3>1
  <2>4. CASE mode = "READ" /\ busy = 0
    <3>1. since + 1 <= Interval
      BY <2>1, <2>4, ElapsedInPhase DEF CountFollowsClock
    <3>2. since' + busy' = since + 1
      BY <2>1, <2>4
    <3> QED
      BY <3>1, <3>2
  <2>5. CASE mode # "READ"
    BY <2>1, <2>5
  <2> QED
    BY <2>3, <2>4, <2>5
<1>6. CASE Plug \/ UNCHANGED <<pc, isrVars, clockVars, plugVars>>
  BY <1>6, PlugClock DEF isrVars, clockVars
<1> QED
  BY <1>1, <1>2, <1>3, <1>4, <1>5, <1>6, OtherSteps DEF MainNext, Handlers
LEMMA ClockStep ==
  ASSUME HandlersAreShort, ClockInv, [MainNext]_mainVars
  PROVE  ClockInv'
  BY MainTypeStep, BootingStep, CountStep, BusyInSyncStep, BusyInReadStep DEF ClockInv

-----------------------------------------------------------------------------
LEMMA OneMore ==
  ASSUME NEW a \in Int, NEW c \in Int
  PROVE  /\ a * c \in Int /\ (a + 1) * c = (a * c) + c
         /\ 0 * c = 0
  OBVIOUS

LEMMA MoreCycles ==
  ASSUME NEW a \in Nat, NEW b \in Nat, a <= b, NEW c \in Nat
  PROVE  a * c \in Nat /\ b * c \in Nat /\ a * c <= b * c
<1>1. PICK d \in Nat : b = a + d
  <2>1. b - a \in Nat /\ b = a + (b - a)
    OBVIOUS
  <2> QED
    BY <2>1
<1>2. a * c \in Nat /\ d * c \in Nat
  OBVIOUS
<1>3. b * c = (a * c) + (d * c)
  BY <1>1
<1> QED
  BY <1>2, <1>3

LEMMA CountedTimes ==
  ASSUME MainTypeOK
  PROVE  /\ CountedTime \in Int
         /\ interval_counter' = UpdateInterval => CountedTime' = 0
         /\ interval_counter' = interval_counter - 1 =>
              CountedTime' = CountedTime + (2 * Interval)
<1> USE Delays DEF CountedTime
<1> DEFINE cycles == UpdateInterval - interval_counter
<1>1. UpdateInterval \in Nat /\ interval_counter \in Nat
  BY MainAssumption DEF MainTypeOK
<1>2. cycles \in Int /\ 2 * Interval \in Int
  BY <1>1
<1>3. ASSUME interval_counter' = UpdateInterval PROVE CountedTime' = 0
  <2>1. UpdateInterval - interval_counter' = 0
    BY <1>1, <1>3
  <2> QED
    BY <1>2, <2>1, OneMore
<1>4. ASSUME interval_counter' = interval_counter - 1
      PROVE  CountedTime' = CountedTime + (2 * Interval)
  <2>1. UpdateInterval - interval_counter' = cycles + 1
    BY <1>1, <1>4
  <2>2. CountedTime' = (cycles + 1) * (2 * Interval)
    BY <2>1
  <2>3. CountedTime = cycles * (2 * Interval)
    OBVIOUS
  <2> HIDE DEF cycles, CountedTime
  <2> QED
    BY <1>2, <2>2, <2>3, OneMore, Zenon
<1>5. CountedTime \in Int
  <2>1. CountedTime = cycles * (2 * Interval)
    OBVIOUS
  <2> HIDE DEF cycles, CountedTime
  <2> QED
    BY <1>2, <2>1, OneMore
<1> QED
  BY <1>3, <1>4, <1>5

LEMMA ServiceStep ==
  ASSUME HandlersAreShort, ClockInv, ServiceCounted, [MainNext]_mainVars
  PROVE  ServiceCounted'
<1> USE Delays, ClockTypes, CountedTimes, ElapsedInPhase DEF ClockInv, ServiceCounted
<1>1. CASE Boot
  <2>1. CASE BootClearIO \/ BootSetupUsbMouse \/ BootInit
    BY <2>1 DEF BootClearIO, BootSetupUsbMouse, BootInit
  <2>2. CASE SetupMainInterrupt
    <3>1. /\ serviceAge' = serviceAge /\ interval_counter' = UpdateInterval
          /\ mode' = "DISCHARGE" /\ ocf4' = FALSE /\ tcnt4' = 0
      BY <2>2 DEF SetupMainInterrupt, isrVars, Booting
    <3>2. serviceAge <= MaxBusTicks
      BY <2>2 DEF SetupMainInterrupt, Booting
    <3>3. Elapsed' = Interval
      BY <3>1 DEF Elapsed, PhaseStart
    <3>4. CountedTime' = 0
      BY <3>1
    <3>5. MaxBusTicks <= Interval
      BY DEF HandlersAreShort
    <3> QED
      BY <3>1, <3>2, <3>3, <3>4, <3>5
  <2> QED
    BY <1>1, <2>1, <2>2 DEF Boot
<1>2. CASE Discharge
  <2>1. Elapsed = (2 * Interval) + tcnt4 /\ Elapsed' = tcnt4 /\ pc' = pc
    BY <1>2, DischargeClock, ElapsedGoesOn
  <2>2. CASE UpdateDue
    <3>1. serviceAge' = 0 /\ interval_counter' = UpdateInterval
      BY <1>2, <2>2 DEF Discharge, NextIntervalCounter
    <3>2. CountedTime' = 0
      BY <3>1
    <3> QED
      BY <2>1, <3>1, <3>2
  <2>3. CASE ~UpdateDue
    <3>1. serviceAge' = serviceAge /\ interval_counter' = interval_counter - 1
      BY <1>2, <2>3 DEF Discharge, NextIntervalCounter
    <3>2. CountedTime' = CountedTime + (2 * Interval)
      BY <3>1
    <3> QED
      BY <2>1, <3>1, <3>2
  <2> QED
    BY <2>2, <2>3
<1>3. CASE Read \/ UsbBusIsr
  <2>1. UNCHANGED <<pc, serviceAge, interval_counter>> /\ Elapsed' = Elapsed
    BY <1>3, ReadClock, UsbBusClock, ElapsedGoesOn
  <2> QED
    BY <2>1 DEF CountedTime
<1>4. CASE Tick
  <2>1. /\ serviceAge' = serviceAge + 1 /\ UNCHANGED <<pc, interval_counter>>
        /\ pc = "loop" => Elapsed' = Elapsed + 1
    BY <1>4, TickClock, ElapsedGoesOn
  <2>2. CountedTime' = CountedTime
    BY <2>1 DEF CountedTime
  <2> QED
    BY <2>1, <2>2
<1>5. CASE Plug \/ UNCHANGED <<pc, isrVars, clockVars, plugVars>>
  <2>1. UNCHANGED <<pc, mode, ocf4, tcnt4, serviceAge, interval_counter>>
    BY <1>5, PlugClock DEF isrVars, clockVars
  <2>2. Elapsed' = Elapsed /\ CountedTime' = CountedTime
    BY <2>1 DEF Elapsed, PhaseStart, CountedTime
  <2> QED
    BY <2>1, <2>2
<1> QED
  BY <1>1, <1>2, <1>3, <1>4, <1>5, OtherSteps DEF MainNext, Handlers

(* Whenever handleUsb() is called, and at any time before, the last call   *)
(* is at most UpdateInterval cycles and the delay of a sync ago.           *)
LEMMA ServiceDue ==
  ASSUME HandlersAreShort, ServiceIsFrequent, ClockInv, ServiceCounted
  PROVE  UsbServicedInTime
<1> USE Delays, ClockTypes, ElapsedInPhase DEF ClockInv
<1>1. UpdateInterval \in Nat /\ interval_counter \in Nat /\ ServiceLimit \in Nat
        /\ interval_counter >= 1 /\ interval_counter <= UpdateInterval
  BY MainAssumption DEF MainTypeOK
<1> DEFINE all == UpdateInterval * (2 * Interval)
<1>2. CountedTime + (2 * Interval) <= all /\ CountedTime \in Nat /\ all \in Nat
  <2> DEFINE cycles == UpdateInterval - interval_counter
             length == 2 * Interval
  <2>1. cycles \in Nat /\ cycles + 1 <= UpdateInterval /\ length \in Nat
    BY <1>1
  <2>2. CountedTime = cycles * length /\ all = UpdateInterval * length
    BY DEF CountedTime
  <2> HIDE DEF cycles, length, all
  <2>3. /\ cycles * length \in Nat
        /\ (cycles + 1) * length = (cycles * length) + length
        /\ (cycles + 1) * length <= UpdateInterval * length
        /\ UpdateInterval * length \in Nat
    <3>1. cycles + 1 \in Nat
      BY <2>1
    <3>2. /\ (cycles + 1) * length <= UpdateInterval * length
          /\ UpdateInterval * length \in Nat
      BY <1>1, <2>1, <3>1, MoreCycles
    <3>3. (cycles + 1) * length = (cycles * length) + length
      BY <2>1, OneMore
    <3>4. cycles * length \in Nat
      BY <2>1, MoreCycles
    <3> QED
      BY <3>2, <3>3, <3>4
  <2>4. CountedTime \in Nat /\ CountedTime + length <= all /\ all \in Nat
    BY <2>1, <2>2, <2>3
  <2> QED
    BY <2>4 DEF length
<1>3. all + SyncDelay <= ServiceLimit
  <2>1. all = 2 * Interval * UpdateInterval
    BY <1>1
  <2> QED
    BY <2>1 DEF ServiceIsFrequent
<1> HIDE DEF all
<1>4. CASE pc = "loop"
  <2>1. serviceAge <= CountedTime + Elapsed
    BY <1>4 DEF ServiceCounted
  <2>2. Elapsed <= (2 * Interval) + SyncDelay
    <3>1. CASE mode = "DISCHARGE" /\ ocf4
      <4>1. tcnt4 + busy <= SyncDelay
        BY <3>1 DEF BusyInRead
      <4> QED
        BY <3>1, <4>1
    <3>2. CASE ~(mode = "DISCHARGE" /\ ocf4)
      BY <3>2
    <3> QED
      BY <3>1, <3>2
  <2> QED
    BY <1>1, <1>2, <1>3, <2>1, <2>2 DEF UsbServicedInTime
<1>5. CASE pc # "loop"
  <2>1. serviceAge <= MaxBusTicks
    BY <1>5 DEF Booting, MainTypeOK
  <2> QED
    BY <1>1, <1>2, <1>3, <2>1 DEF UsbServicedInTime
<1> QED
  BY <1>4, <1>5

-----------------------------------------------------------------------------
(* Every step but an edge is a step of the driver, or none of its business. *)
LEMMA InterfaceSteps ==
  ASSUME [MainNext]_mainVars
  PROVE  [Next]_vars \/ \E n \in TimerNumber : LineRises(n)
<1>1. CASE Boot
  BY <1>1 DEF Boot, BootClearIO, BootSetupUsbMouse, BootInit, SetupMainInterrupt, Next
<1>2. CASE Discharge
  BY <1>2 DEF Discharge, Next
<1>3. CASE Read
  BY <1>3 DEF Read, Next
<1>4. CASE \E n \in TimerNumber : Capture(n)
  BY <1>4 DEF Capture, Next
<1>5. CASE UsbBusIsr \/ Tick \/ Plug
  BY <1>5 DEF UsbBusIsr, Tick, Plug
<1>6. CASE MouseMoves \/ ButtonClicks
  BY <1>6 DEF MouseMoves, ButtonClicks, Next
<1>7. CASE UNCHANGED mainVars
  BY <1>7 DEF mainVars
<1> QED
  BY <1>1, <1>2, <1>3, <1>4, <1>5, <1>6, <1>7 DEF MainNext, Handlers

(* The timers count in their width. *)
LEMMA LineCounts ==
  ASSUME MainTypeOK
  PROVE  since % WordSize \in Timer!Count
<1>1. since \in Nat /\ since \in Int /\ WordSize \in Nat \ {0}
  BY WidthAssumption DEF MainTypeOK
<1>2. since % WordSize \in 0 .. WordSize - 1
  BY <1>1, Euclid, Zenon
<1> QED
  BY <1>2 DEF Timer!Count

LEMMA EdgeTypes ==
  ASSUME MainTypeOK, TypeOK, NEW n \in TimerNumber, LineRises(n)
  PROVE  TypeOK'
<1> USE WidthAssumption, InterfaceAssumption
    DEF fieldVars, pinVars, historyVars, Timer!overflowVars
<1>1. since % WordSize \in Timer!Count
  BY LineCounts
<1> QED
  BY <1>1 DEF LineRises, Timer!Edge, TypeOK, Timer!TypeOK

LEMMA DriverTypeStep ==
  ASSUME MainTypeOK, TypeOK, [MainNext]_mainVars
  PROVE  TypeOK'
  BY InterfaceSteps, EdgeTypes, TypeStep

(* When an edge can come. *)
LEMMA EdgeTimeBounds ==
  ASSUME NEW p \in Int
  PROVE  /\ EdgeTime(p) \in Nat /\ EdgeTime(p) < WordSize
         /\ TimestampAdjust + Offset <= EdgeTime(p)
         /\ EdgeTime(p) < TimestampAdjust + Offset + PotRange
<1> USE WidthAssumption, InterfaceAssumption
<1>1. p % PotRange \in 0 .. PotRange - 1
  BY Euclid
<1> QED
  BY <1>1 DEF EdgeTime

(* Both forms of a sync start one. *)
LEMMA DischargeSyncs ==
  ASSUME Discharge
  PROVE  StartSync
  BY DEF Discharge, SetModeSync, SetModeSyncThenUpdate

(* What every other step leaves alone. *)
LEMMA OnlySyncsLatch ==
  ASSUME MainNext, ~Discharge
  PROVE  latched' = latched
<1> USE DEF mouseVars, vars
<1>1. CASE Boot
  BY <1>1 DEF Boot, BootClearIO, BootSetupUsbMouse, BootInit, SetupMainInterrupt,
              ClearIO, InitInterface
<1>2. CASE Read \/ UsbBusIsr \/ Tick \/ Plug
  BY <1>2 DEF Read, SetModeRead, UsbBusIsr, Tick, Plug
<1>3. ASSUME NEW n \in TimerNumber, Capture(n) \/ LineRises(n)
      PROVE  latched' = latched
  BY <1>3 DEF Capture, CaptIsr, LineRises
<1>4. CASE MouseMoves \/ ButtonClicks
  BY <1>4 DEF MouseMoves, ButtonClicks, Move, Jump, Click
<1> QED
  BY <1>1, <1>2, <1>3, <1>4 DEF MainNext, Handlers

LEMMA LinesStep ==
  ASSUME ClockInv, LinesFollowMode, [MainNext]_mainVars
  PROVE  LinesFollowMode'
<1> USE DEF LinesFollowMode, isrVars, clockVars, plugVars, vars, pinVars
<1>1. CASE Boot
  BY <1>1 DEF Boot, BootClearIO, BootSetupUsbMouse, BootInit, SetupMainInterrupt,
              InitInterface, ClockInv, Booting
<1>2. CASE Discharge
  <2>1. mode' = "READ" /\ pc' = pc /\ ocf4
    BY <1>2, DischargeClock DEF ClockInv
  <2>2. up' = up /\ potsOut' = TRUE
    BY <1>2, DischargeSyncs DEF StartSync, SetPotsOutputLow
  <2>3. pc = "loop"
    BY <2>1 DEF ClockInv, Booting
  <2> QED
    BY <2>1, <2>2, <2>3
<1>3. CASE Read
  BY <1>3, ReadClock DEF Read, SetModeRead, SetPotsInput, ClockInv
<1>4. CASE UsbBusIsr \/ Tick
  BY <1>4 DEF UsbBusIsr, Tick
<1>5. CASE Plug
  BY <1>5 DEF Plug
<1>6. ASSUME NEW n \in TimerNumber, Capture(n) \/ LineRises(n)
      PROVE  LinesFollowMode'
  BY <1>6 DEF Capture, CaptIsr, LineRises
<1>7. CASE MouseMoves \/ ButtonClicks
  BY <1>7 DEF MouseMoves, ButtonClicks, Move, Jump, Click
<1>8. CASE UNCHANGED mainVars
  BY <1>8 DEF mainVars
<1> QED
  BY <1>1, <1>2, <1>3, <1>4, <1>5, <1>6, <1>7, <1>8 DEF MainNext, Handlers

LEMMA ArmedStep ==
  ASSUME TypeOK, RunningIsArmed, [MainNext]_mainVars
  PROVE  RunningIsArmed'
<1> USE DEF RunningIsArmed, timerVars, vars
<1>1. CASE Boot
  BY <1>1 DEF Boot, BootClearIO, BootSetupUsbMouse, BootInit, SetupMainInterrupt,
              ClearIO, InitInterface, Timer!InitInputCapture
<1>2. CASE Discharge
  BY <1>2, DischargeSyncs
     DEF StartSync, Timer!ArmInputCapture, Timer!StartTimers, Timer!ResetCaptures
<1>3. CASE Read \/ UsbBusIsr \/ Tick \/ Plug
  BY <1>3 DEF Read, SetModeRead, UsbBusIsr, Tick, Plug
<1>4. ASSUME NEW n \in TimerNumber, Capture(n)
      PROVE  RunningIsArmed'
  BY <1>4 DEF Capture, CaptIsr, Timer!CaptIsr, TypeOK, Timer!TypeOK
<1>5. ASSUME NEW n \in TimerNumber, LineRises(n)
      PROVE  RunningIsArmed'
  BY <1>5 DEF LineRises, Timer!Edge
<1>6. CASE MouseMoves \/ ButtonClicks
  BY <1>6 DEF MouseMoves, ButtonClicks, Move, Jump, Click
<1>7. CASE UNCHANGED mainVars
  BY <1>7 DEF mainVars
<1> QED
  BY <1>1, <1>2, <1>3, <1>4, <1>5, <1>6, <1>7 DEF MainNext, Handlers

(* An edge comes at its time, neither before nor, as time does not pass    *)
(* while it is due, after it.                                              *)
LEMMA EdgeIsExact ==
  ASSUME ClockInv, TypeOK, EdgesInTime, NEW n \in TimerNumber, LineRises(n)
  PROVE  since = EdgeTime(latched[n]) /\ since % WordSize = EdgeTime(latched[n])
<1>1. latched[n] \in Int
  BY DEF TypeOK
<1>2. since <= EdgeTime(latched[n]) /\ since >= EdgeTime(latched[n])
  BY DEF EdgesInTime, LineRises, RiseDue
<1>3. since = EdgeTime(latched[n])
  BY <1>1, <1>2, EdgeTimeBounds, ClockTypes DEF ClockInv
<1>4. since \in 0 .. WordSize - 1
  BY <1>1, <1>3, EdgeTimeBounds, WidthAssumption
<1> QED
  BY <1>3, <1>4, WidthAssumption

LEMMA EdgesInTimeStep ==
  ASSUME HandlersAreShort, ClockInv, LineInv, [MainNext]_mainVars
  PROVE  EdgesInTime'
<1> SUFFICES ASSUME NEW n \in TimerNumber, answers', ~risen'[n]
             PROVE  since' <= EdgeTime(latched'[n])
  BY DEF EdgesInTime
<1> USE Delays DEF LineInv, vars, mouseVars, plugVars, clockVars
<1>1. latched[n] \in Int /\ latched'[n] \in Int
  BY DriverTypeStep DEF ClockInv, TypeOK
<1>2. EdgeTime(latched[n]) \in Nat /\ EdgeTime(latched'[n]) \in Nat
  BY <1>1, EdgeTimeBounds
<1>3. CASE Boot
  <2>1. answers' = FALSE
    BY <1>3 DEF Boot, BootClearIO, BootSetupUsbMouse, BootInit, SetupMainInterrupt,
                ClockInv, Booting
  <2> QED
    BY <2>1
<1>4. CASE Discharge
  <2>1. since' = 0
    BY <1>4, DischargeClock DEF ClockInv
  <2> QED
    BY <1>2, <2>1
<1>5. CASE Tick
  <2>1. /\ since' = since + 1 /\ latched' = latched /\ risen' = risen
        /\ answers' = answers /\ mode' = mode
    BY <1>5, TickClock DEF Tick, ClockInv
  <2>2. CASE mode = "READ"
    <3>1. since' + busy' <= ReadDelay /\ since' \in Nat /\ busy' \in Nat
      BY <2>1, <2>2, ClockStep DEF ClockInv, BusyInSync, MainTypeOK
    <3>2. ReadDelay <= EdgeTime(latched[n])
      BY <1>1, EdgeTimeBounds, WidthAssumption, InterfaceAssumption DEF HandlersAreShort
    <3>3. \A t \in Nat, z \in Nat : t + z <= ReadDelay => t <= EdgeTime(latched[n])
      BY <1>2, <3>2
    <3> QED
      BY <2>1, <3>1, <3>3, Zenon
  <2>3. CASE mode = "DISCHARGE"
    <3>1. ~RiseDue(n) /\ answers /\ ~risen[n] /\ ~potsOut
      BY <1>5, <2>1, <2>3 DEF Tick, LinesFollowMode
    <3>2. since < EdgeTime(latched[n])
      BY <1>2, <3>1, ClockTypes DEF RiseDue, ClockInv
    <3> QED
      BY <1>2, <2>1, <3>2, ClockTypes DEF ClockInv
  <2> QED
    BY <2>2, <2>3, ClockTypes DEF ClockInv
<1>6. CASE Plug
  BY <1>6 DEF Plug
<1>7. CASE UNCHANGED <<since, latched, answers>> /\ (~risen'[n] => ~risen[n])
  BY <1>7 DEF EdgesInTime
<1>8. CASE Read \/ UsbBusIsr
  BY <1>7, <1>8 DEF Read, SetModeRead, UsbBusIsr
<1>9. ASSUME NEW m \in TimerNumber, Capture(m) \/ LineRises(m)
      PROVE  since' <= EdgeTime(latched'[n])
  BY <1>7, <1>9 DEF Capture, CaptIsr, LineRises, TypeOK
<1>10. CASE MouseMoves \/ ButtonClicks
  BY <1>7, <1>10 DEF MouseMoves, ButtonClicks, Move, Jump, Click
<1>11. CASE UNCHANGED mainVars
  BY <1>7, <1>11 DEF mainVars
<1> QED
  BY <1>3, <1>4, <1>5, <1>6, <1>8, <1>9, <1>10, <1>11 DEF MainNext, Handlers

LEMMA ReadingsStep ==
  ASSUME ClockInv, LineInv, [MainNext]_mainVars
  PROVE  ReadingsUnaffected'
<1> USE DEF LineInv, ReadingsUnaffected, timerVars, vars
<1>1. CASE Discharge
  BY <1>1, DischargeSyncs DEF StartSync, Timer!ArmInputCapture, Timer!ResetCaptures
<1>2. ASSUME NEW n \in TimerNumber, LineRises(n)
      PROVE  ReadingsUnaffected'
  <2>1. /\ edges' = [edges EXCEPT ![n] = @ \cup {EdgeTime(latched[n])}]
        /\ latched' = latched
    BY <1>2, EdgeIsExact DEF LineRises, Timer!Edge
  <2> QED
    BY <2>1 DEF TypeOK, Timer!TypeOK, EdgeTime
<1>3. CASE UNCHANGED <<edges, latched>>
  BY <1>3 DEF EdgeTime
<1>4. CASE Boot
  BY <1>3, <1>4, OnlySyncsLatch
     DEF Boot, BootClearIO, BootSetupUsbMouse, BootInit, SetupMainInterrupt, ClearIO,
         InitInterface, Timer!InitInputCapture, mouseVars
<1>5. CASE Read \/ UsbBusIsr \/ Tick \/ Plug
  BY <1>3, <1>5 DEF Read, SetModeRead, UsbBusIsr, Tick, Plug, mouseVars
<1>6. ASSUME NEW n \in TimerNumber, Capture(n)
      PROVE  ReadingsUnaffected'
  BY <1>3, <1>6 DEF Capture, CaptIsr, Timer!CaptIsr, mouseVars
<1>7. CASE MouseMoves \/ ButtonClicks
  BY <1>3, <1>7 DEF MouseMoves, ButtonClicks, Move, Jump, Click
<1>8. CASE UNCHANGED mainVars
  BY <1>3, <1>8 DEF mainVars, mouseVars
<1> QED
  BY <1>1, <1>2, <1>4, <1>5, <1>6, <1>7, <1>8 DEF MainNext, Handlers

LEMMA CapturedStep ==
  ASSUME ClockInv, LineInv, [MainNext]_mainVars
  PROVE  RisenIsCaptured'
<1> USE DEF LineInv, RisenIsCaptured, timerVars, vars, mouseVars, plugVars
<1>1. CASE Discharge
  BY <1>1, DischargeSyncs DEF StartSync
<1>2. ASSUME NEW n \in TimerNumber, LineRises(n)
      PROVE  RisenIsCaptured'
  BY <1>2 DEF LineRises, Timer!Edge, TypeOK, Timer!TypeOK, RunningIsArmed
<1>3. ASSUME NEW n \in TimerNumber, Capture(n)
      PROVE  RisenIsCaptured'
  BY <1>3 DEF Capture, CaptIsr, Timer!CaptIsr, TypeOK, Timer!TypeOK
<1>4. CASE Boot \/ Plug
  <2>1. answers' = FALSE
    BY <1>4 DEF Boot, BootClearIO, BootSetupUsbMouse, BootInit, SetupMainInterrupt,
                Plug, ClockInv, Booting
  <2> QED
    BY <2>1
<1>5. CASE Read \/ UsbBusIsr \/ Tick
  BY <1>5 DEF Read, SetModeRead, UsbBusIsr, Tick
<1>6. CASE MouseMoves \/ ButtonClicks
  BY <1>6 DEF MouseMoves, ButtonClicks, Move, Jump, Click
<1>7. CASE UNCHANGED mainVars
  BY <1>7 DEF mainVars
<1> QED
  BY <1>1, <1>2, <1>3, <1>4, <1>5, <1>6, <1>7 DEF MainNext, Handlers

LEMMA LineStep ==
  ASSUME HandlersAreShort, ClockInv, LineInv, [MainNext]_mainVars
  PROVE  LineInv'
<1>1. TypeOK'
  BY DriverTypeStep DEF ClockInv, LineInv
<1>2. LinesFollowMode' /\ RunningIsArmed'
  BY LinesStep, ArmedStep DEF LineInv
<1> QED
  BY <1>1, <1>2, EdgesInTimeStep, ReadingsStep, CapturedStep DEF LineInv

-----------------------------------------------------------------------------
MainInv == ClockInv /\ ServiceCounted /\ LineInv

LEMMA MainInitially == MainInit => MainInv
<1> SUFFICES ASSUME MainInit PROVE MainInv
  OBVIOUS
<1> USE MainAssumption DEF MainInit
<1>1. MainTypeOK
  <2>1. /\ interval_counter \in 1 .. UpdateInterval /\ tcnt4 \in 0 .. Interval - 1
        /\ busy \in Nat /\ since \in Nat /\ serviceAge \in Nat
    OBVIOUS
  <2>2. /\ pc = "reset" /\ mode = "DISCHARGE" /\ ocf4 = FALSE /\ busDone = FALSE
        /\ plugged = TRUE /\ answers = FALSE
    OBVIOUS
  <2> QED
    BY <2>1, <2>2 DEF MainTypeOK
<1>2. /\ Booting /\ CountFollowsClock /\ BusyInSync /\ BusyInRead /\ ServiceCounted
  BY Delays DEF Booting, CountFollowsClock, BusyInSync, BusyInRead, ServiceCounted
<1>3. LinesFollowMode /\ EdgesInTime /\ RisenIsCaptured
  BY DEF LinesFollowMode, EdgesInTime, RisenIsCaptured
<1>4. ReadingsUnaffected /\ RunningIsArmed
  BY DEF Init, Timer!Init, ReadingsUnaffected, RunningIsArmed
<1> QED
  BY <1>1, <1>2, <1>3, <1>4, TypeInit DEF MainInv, ClockInv, LineInv

LEMMA MainInvariance ==
  ASSUME HandlersAreShort
  PROVE  MainSpec => []MainInv
<1>1. MainInv /\ [MainNext]_mainVars => MainInv'
  BY ClockStep, ServiceStep, LineStep DEF MainInv
<1> QED
  BY <1>1, MainInitially, PTL DEF MainSpec

(* If handleUsb() and the bus interrupts are short enough for the lines to *)
(* be released before the first edge can come, an edge is captured at the  *)
(* count that tells the place of the mouse, however the handlers delay     *)
(* each other.                                                             *)
THEOREM ReadingsAreUnaffected ==
  ASSUME HandlersAreShort
  PROVE  MainSpec => []ReadingsUnaffected
<1>1. MainInv => ReadingsUnaffected
  BY DEF MainInv, LineInv
<1> QED
  BY <1>1, MainInvariance, PTL

(* The clocked program implements the driver without a clock: the edges    *)
(* that its schedule lets happen are those that C1351Interface assumes.    *)
THEOREM MainImplementsInterface ==
  ASSUME HandlersAreShort
  PROVE  MainSpec => Spec
<1>1. MainInit => Init
  BY DEF MainInit
<1>2. MainInv /\ [MainNext]_mainVars => [Next]_vars
  <2> SUFFICES ASSUME MainInv, NEW n \in TimerNumber, LineRises(n)
               PROVE  Rise(n)
    BY InterfaceSteps DEF Next
  <2>1. up /\ ~potsOut /\ ~risen[n]
    BY DEF LineRises, RiseDue, MainInv, LineInv, LinesFollowMode
  <2>2. since % WordSize = EdgeTime(latched[n])
    BY EdgeIsExact DEF MainInv, LineInv
  <2> QED
    BY <2>1, <2>2 DEF LineRises, Rise
<1> QED
  BY <1>1, <1>2, MainInvariance, PTL DEF MainSpec, Spec

(* USB_USBTask is called in time, if UpdateInterval cycles and the delay   *)
(* of a sync are no longer than the limit.                                 *)
THEOREM UsbIsServicedInTime ==
  ASSUME HandlersAreShort, ServiceIsFrequent
  PROVE  MainSpec => []UsbServicedInTime
<1>1. MainInv => UsbServicedInTime
  BY ServiceDue DEF MainInv
<1> QED
  BY <1>1, MainInvariance, PTL

(* Once the edges of a long enough cycle have come, and their handlers,    *)
(* which take precedence, have run, the sync finds both timers stopped.    *)
LEMMA CyclesEndCaptured ==
  ASSUME HandlersAreShort, CycleIsLongEnough, MainInv, Discharge, answers,
         NEW n \in TimerNumber
  PROVE  ~running[n]
<1> SUFFICES ASSUME running[n] PROVE FALSE
  OBVIOUS
<1> USE DEF MainInv, ClockInv, LineInv
<1>1. mode = "DISCHARGE" /\ ocf4 /\ ~CapturePending
  BY DischargeClock DEF Discharge, Timer4Isr
<1>2. ~risen[n]
  BY <1>1 DEF RisenIsCaptured, CapturePending
<1>3. since <= EdgeTime(latched[n])
  BY <1>2 DEF EdgesInTime
<1>4. Elapsed <= since + SyncDelay /\ Elapsed >= 2 * Interval
  BY <1>1, ElapsedInPhase, ClockTypes, Delays DEF CountFollowsClock
<1>5. latched[n] \in Int
  BY DEF TypeOK
<1>6. /\ EdgeTime(latched[n]) \in Nat
      /\ EdgeTime(latched[n]) < TimestampAdjust + Offset + PotRange
  BY <1>5, EdgeTimeBounds
<1> QED
  BY <1>3, <1>4, <1>6, ElapsedInPhase, ClockTypes, Delays, WidthAssumption,
     InterfaceAssumption DEF CycleIsLongEnough

(* With a mouse plugged in, no cycle ends before both edges are captured.  *)
THEOREM NoCaptureIsMissed ==
  ASSUME HandlersAreShort, CycleIsLongEnough
  PROVE  MainSpec => NoMissedCapture
<1> DEFINE Captured == Discharge /\ answers => \A n \in TimerNumber : ~running[n]
<1>1. MainInv => Captured
  BY CyclesEndCaptured
<1> QED
  BY <1>1, MainInvariance, PTL DEF MainSpec, NoMissedCapture

-----------------------------------------------------------------------------
(* Captures, whatever the durations of the handlers.  The steps that leave *)
(* them alone:                                                             *)
LEMMA StillInBootStep ==
  ASSUME CaptureInv, [MainNext]_mainVars
  PROVE  StillInBoot'
<1> USE DEF StillInBoot, timerVars, vars, CaptureInv
<1>1. CASE Boot
  BY <1>1 DEF Boot, BootClearIO, BootSetupUsbMouse, BootInit, SetupMainInterrupt,
              ClearIO
<1>2. CASE Discharge
  <2>1. pc = "loop" /\ pc' = pc
    BY <1>2, DischargeClock DEF Booting
  <2> QED
    BY <2>1
<1>3. CASE Read \/ UsbBusIsr \/ Tick \/ Plug
  BY <1>3 DEF Read, SetModeRead, UsbBusIsr, Tick, Plug
<1>4. ASSUME NEW m \in TimerNumber, Capture(m)
      PROVE  StillInBoot'
  BY <1>4 DEF Capture, CaptIsr, Timer!CaptIsr, TypeOK, Timer!TypeOK
<1>5. ASSUME NEW m \in TimerNumber, LineRises(m)
      PROVE  StillInBoot'
  <2>1. pc = "loop" /\ pc' = pc
    BY <1>5 DEF LineRises, RiseDue, Booting
  <2> QED
    BY <2>1
<1>6. CASE MouseMoves \/ ButtonClicks
  BY <1>6 DEF MouseMoves, ButtonClicks, Move, Jump, Click
<1>7. CASE UNCHANGED mainVars
  BY <1>7 DEF mainVars
<1> QED
  BY <1>1, <1>2, <1>3, <1>4, <1>5, <1>6, <1>7 DEF MainNext, Handlers

LEMMA CaptureUnchanged ==
  ASSUME CaptureInv,
         UNCHANGED <<running, icie, icf, icr, edges, timestamp, potValue>>,
         answers' => answers
  PROVE  PendingIsEdge' /\ CapturedIsEdge' /\ StillBeforeSync'
<1> USE DEF CaptureInv
<1>1. PendingIsEdge'
  BY DEF PendingIsEdge
<1>2. CapturedIsEdge'
  BY DEF CapturedIsEdge
<1>3. StillBeforeSync'
  BY DEF StillBeforeSync
<1> QED
  BY <1>1, <1>2, <1>3

LEMMA CaptureStep ==
  ASSUME CaptureInv, [MainNext]_mainVars
  PROVE  CaptureInv'
<1>1. MainTypeOK' /\ TypeOK' /\ Booting' /\ StillInBoot'
  BY MainTypeStep, DriverTypeStep, BootingStep, StillInBootStep DEF CaptureInv
<1> SUFFICES PendingIsEdge' /\ CapturedIsEdge' /\ StillBeforeSync'
  BY <1>1 DEF CaptureInv
<1> USE DEF timerVars, fieldVars, vars, plugVars
<1>2. CASE Discharge
  <2>1. /\ running' = [n \in TimerNumber |-> TRUE]
        /\ icf' = [n \in TimerNumber |-> FALSE]
    BY <1>2, DischargeSyncs
       DEF StartSync, Timer!ArmInputCapture, Timer!StartTimers, Timer!ResetCaptures
  <2> QED
    BY <2>1, TimerNumbers DEF PendingIsEdge, CapturedIsEdge, StillBeforeSync
<1>3. ASSUME NEW m \in TimerNumber, Capture(m)
      PROVE  PendingIsEdge' /\ CapturedIsEdge' /\ StillBeforeSync'
  <2> USE DEF CaptureInv, TypeOK, Timer!TypeOK
  <2>1. /\ icf[m] /\ icie[m] /\ edges' = edges /\ icr' = icr /\ potValue' = potValue
        /\ icf' = [icf EXCEPT ![m] = FALSE] /\ icie' = [icie EXCEPT ![m] = FALSE]
        /\ running' = [running EXCEPT ![m] = FALSE]
        /\ timestamp' = [timestamp EXCEPT ![m] = icr[m]]
        /\ answers' = answers
    BY <1>3 DEF Capture, CaptIsr, Timer!CaptIsr
  <2>2. icr[m] \in edges[m]
    BY <2>1 DEF PendingIsEdge
  <2>3. PendingIsEdge'
    BY <2>1 DEF PendingIsEdge
  <2>4. CapturedIsEdge'
    BY <2>1, <2>2 DEF CapturedIsEdge
  <2>5. StillBeforeSync'
    BY <2>1, <2>2, TimerNumbers DEF StillBeforeSync
  <2> QED
    BY <2>3, <2>4, <2>5
<1>4. ASSUME NEW m \in TimerNumber, LineRises(m)
      PROVE  PendingIsEdge' /\ CapturedIsEdge' /\ StillBeforeSync'
  <2> DEFINE t == since % WordSize
  <2> USE DEF CaptureInv, TypeOK, Timer!TypeOK
  <2>1. /\ icf' = [icf EXCEPT ![m] = TRUE] /\ icr' = [icr EXCEPT ![m] = t]
        /\ edges' = [edges EXCEPT ![m] = @ \cup {t}]
        /\ UNCHANGED <<running, icie, timestamp, potValue, answers>>
    BY <1>4 DEF LineRises, Timer!Edge
  <2> HIDE DEF t
  <2>2. PendingIsEdge'
    BY <2>1 DEF PendingIsEdge
  <2>3. CapturedIsEdge'
    BY <2>1 DEF CapturedIsEdge
  <2>4. StillBeforeSync'
    BY <2>1, TimerNumbers DEF StillBeforeSync
  <2> QED
    BY <2>2, <2>3, <2>4
<1>5. CASE BootInit
  <2>1. answers' = FALSE /\ icf' = [n \in TimerNumber |-> FALSE]
        /\ UNCHANGED <<icie, edges, timestamp, potValue>>
    BY <1>5 DEF BootInit, InitInterface, Timer!InitInputCapture, CaptureInv, Booting
  <2>2. StillBeforeSync'
    <3>1. ~running[TIMER_3] /\ edges[TIMER_3] = {}
      BY <1>5, TimerNumbers DEF BootInit, CaptureInv, StillInBoot
    <3> QED
      BY <2>1, <3>1 DEF CaptureInv, StillBeforeSync
  <2> QED
    BY <2>1, <2>2 DEF PendingIsEdge, CapturedIsEdge
<1>6. CASE BootClearIO \/ BootSetupUsbMouse \/ SetupMainInterrupt
  BY <1>6, CaptureUnchanged
     DEF BootClearIO, BootSetupUsbMouse, SetupMainInterrupt, ClearIO
<1>7. CASE Read \/ UsbBusIsr \/ Tick \/ Plug
  BY <1>7, CaptureUnchanged DEF Read, SetModeRead, UsbBusIsr, Tick, Plug
<1>8. CASE MouseMoves \/ ButtonClicks
  BY <1>8, CaptureUnchanged DEF MouseMoves, ButtonClicks, Move, Jump, Click
<1>9. CASE UNCHANGED mainVars
  BY <1>9, CaptureUnchanged DEF mainVars
<1> QED
  BY <1>2, <1>3, <1>4, <1>5, <1>6, <1>7, <1>8, <1>9 DEF MainNext, Handlers, Boot

LEMMA CapturesInvariant == MainSpec => []CaptureInv
<1>1. MainInit => CaptureInv
  <2> SUFFICES ASSUME MainInit PROVE CaptureInv
    OBVIOUS
  <2>1. MainTypeOK /\ Booting /\ TypeOK
    BY MainInitially DEF MainInv, ClockInv, LineInv
  <2>2. /\ StillInBoot /\ StillBeforeSync /\ PendingIsEdge /\ CapturedIsEdge
    BY DEF MainInit, Init, Timer!Init, StillInBoot, StillBeforeSync, PendingIsEdge,
           CapturedIsEdge
  <2> QED
    BY <2>1, <2>2 DEF CaptureInv
<1>2. CaptureInv /\ [MainNext]_mainVars => CaptureInv'
  BY CaptureStep
<1> QED
  BY <1>1, <1>2, PTL DEF MainSpec

(* Nothing is decoded from the initial values, if PotRange divides the     *)
(* duration of the sync phase, as 2048 divides 4096 in the program.        *)
LEMMA NothingDecoded ==
  ASSUME TimestampAdjust % PotRange = 0
  PROVE  PotValueToVelocity(0, PotValueOf(0)) = 0
<1> USE WidthAssumption, Halves
<1> DEFINE P == PotValueOf(0)
           v == PotValueToVelocity(0, P)
<1>1. P \in Int /\ Multiple((0 - TimestampAdjust) - P, PotRange)
  BY ReadingOfTimestamp DEF Word
<1> HIDE DEF P
<1>2. v \in Int /\ IsDisplacement(v, 0, P)
  BY <1>1, 0 \in Int, VelocityIsDisplacement, Zenon
<1> HIDE DEF v
<1>3. Multiple(TimestampAdjust, PotRange)
  BY MultipleIsZero
<1>4. /\ TimestampAdjust \in Int /\ PotRange \in Int /\ (0 - TimestampAdjust) - P \in Int
      /\ ((0 - TimestampAdjust) - P) + TimestampAdjust = -P
  BY <1>1
<1>5. Multiple(-P, PotRange)
  <2>1. Multiple(((0 - TimestampAdjust) - P) + TimestampAdjust, PotRange)
    BY <1>1, <1>3, <1>4, MultipleSum, Zenon
  <2> QED
    BY <1>4, <2>1
<1>6. Multiple(P, PotRange)
  <2>1. -P \in Int /\ -(-P) = P
    BY <1>1
  <2>2. Multiple(-(-P), PotRange)
    BY <1>4, <1>5, <2>1, MultipleSum, Zenon
  <2> QED
    BY <2>1, <2>2
<1>7. IsDisplacement(0, 0, P)
  <2>1. P % PotRange = 0
    BY <1>1, <1>6, PotRange \in Nat \ {0}, MultipleIsZero, Zenon
  <2>2. P - 0 - 0 = P /\ -Half <= 0 /\ 0 < Half
    BY <1>1
  <2> QED
    BY <2>1, <2>2 DEF IsDisplacement
<1> QED
  BY <1>1, <1>2, <1>7, 0 \in Int, DisplacementUnique, Zenon DEF v, P

(* A cycle in which the mouse drove no line moves nothing, however long    *)
(* the handlers take: a timer that has captured nothing still runs.        *)
THEOREM SilentCyclesAreStill ==
  ASSUME TimestampAdjust % PotRange = 0
  PROVE  MainSpec => SilentCycleIsStill
<1> DEFINE Still == Discharge /\ (\A n \in TimerNumber : edges[n] = {}) => moved' = moved
<1>1. CaptureInv => Still
  <2> SUFFICES ASSUME CaptureInv, Discharge, \A n \in TimerNumber : edges[n] = {}
               PROVE  moved' = moved
    OBVIOUS
  <2>1. ASSUME NEW n \in TimerNumber PROVE Decoded(n) = 0
    <3>1. CASE LastCaptureValid
      <4>1. timestamp[n] = 0 /\ potValue[n] = 0
        BY <3>1, TimerNumbers DEF LastCaptureValid, CaptureInv, StillBeforeSync
      <4>2. Decoded(n) = Sign(n) * 0
        BY <3>1, <4>1, NothingDecoded DEF Decoded
      <4> QED
        BY <4>2 DEF Sign
    <3> QED
      BY <3>1 DEF Decoded
  <2>2. moved' = [n \in TimerNumber |-> moved[n] + Decoded(n)]
    BY DischargeSyncs DEF StartSync
  <2>3. moved \in [TimerNumber -> Int]
    BY DEF CaptureInv, TypeOK
  <2>4. moved' = [n \in TimerNumber |-> moved[n]]
    BY <2>1, <2>2, <2>3
  <2> QED
    BY <2>3, <2>4
<1> QED
  BY <1>1, CapturesInvariant, PTL DEF MainSpec, SilentCycleIsStill

(* With a mouse plugged in, each sync takes the place where the mouse was  *)
(* at the sync before, on the X axis, which has no check of its own, as    *)
(* well as on the Y axis.                                                  *)
THEOREM EveryReadingIsCurrent ==
  ASSUME HandlersAreShort, CycleIsLongEnough
  PROVE  MainSpec => ReadingsAreCurrent
<1> DEFINE Current == Discharge /\ answers =>
                        \A n \in TimerNumber :
                          potValue'[n] = PotValueOf(EdgeTime(latched[n]))
<1>1. MainInv /\ CaptureInv => Current
  <2> SUFFICES ASSUME MainInv, CaptureInv, Discharge, answers, NEW n \in TimerNumber
               PROVE  potValue'[n] = PotValueOf(EdgeTime(latched[n]))
    OBVIOUS
  <2>1. ~running[n] /\ ~running[TIMER_3]
    BY CyclesEndCaptured, TimerNumbers
  <2>2. timestamp[n] = EdgeTime(latched[n])
    BY <2>1 DEF CaptureInv, CapturedIsEdge, MainInv, LineInv, ReadingsUnaffected
  <2>3. potValue'[n] = NewPotValue(n)
    BY DischargeSyncs DEF StartSync
  <2> QED
    BY <2>1, <2>2, <2>3 DEF NewPotValue, LastCaptureValid
<1> QED
  BY <1>1, MainInvariance, CapturesInvariant, PTL DEF MainSpec, ReadingsAreCurrent

(* What was proved of the driver without a clock holds in the program: the *)
(* pointer keeps its distance from a mouse that can be followed.           *)
THEOREM ProgramDoesNotDrift ==
  ASSUME HandlersAreShort
  PROVE  MainSpec => NoDrift
  BY MainImplementsInterface, PointerDoesNotDrift

-----------------------------------------------------------------------------
(* The timers: until init() they stay off, so that initInputCapture finds  *)
(* them as CaptureTimer wants them.                                        *)
OffBeforeInit == ~up => \A n \in TimerNumber : ~toie[n]

LEMMA OffStep == OffBeforeInit /\ [Next]_vars => OffBeforeInit'
<1> SUFFICES ASSUME OffBeforeInit, [Next]_vars PROVE OffBeforeInit'
  OBVIOUS
<1> USE DEF OffBeforeInit, timerVars, pinVars
<1>1. CASE ClearIO
  BY <1>1 DEF ClearIO
<1>2. CASE InitInterface
  BY <1>2 DEF InitInterface
<1>3. CASE StartSync
  BY <1>3 DEF StartSync
<1>4. CASE SetModeRead
  BY <1>4 DEF SetModeRead
<1>5. CASE \E n \in TimerNumber : CaptIsr(n)
  BY <1>5 DEF CaptIsr, Timer!CaptIsr, Timer!overflowVars
<1>6. CASE \E n \in TimerNumber : Rise(n)
  BY <1>6 DEF Rise, Timer!Edge, Timer!overflowVars
<1>7. CASE \E n \in TimerNumber, p \in AllPlaces : Move(n, p) \/ Jump(n, p)
  BY <1>7 DEF Move, Jump
<1>8. CASE \E b \in Button : Click(b)
  BY <1>8 DEF Click
<1>9. CASE UNCHANGED vars
  BY <1>9 DEF vars
<1> QED
  BY <1>1, <1>2, <1>3, <1>4, <1>5, <1>6, <1>7, <1>8, <1>9
     DEF Next, SetModeSync, SetModeSyncThenUpdate

(* Every step of the driver is one of its timers, or leaves them alone.    *)
LEMMA TimerStep ==
  ASSUME OffBeforeInit, TypeOK, [Next]_vars
  PROVE  [Timer!Next]_(Timer!vars)
<1> USE DEF timerVars, Timer!vars
<1>1. CASE ClearIO
  BY <1>1 DEF ClearIO
<1>2. CASE InitInterface
  BY <1>2 DEF InitInterface, OffBeforeInit, Timer!Next
<1>3. CASE StartSync
  BY <1>3 DEF StartSync, Timer!Next
<1>4. CASE SetModeRead
  BY <1>4 DEF SetModeRead
<1>5. CASE \E n \in TimerNumber : CaptIsr(n)
  BY <1>5 DEF CaptIsr, Timer!Next
<1>6. ASSUME NEW n \in TimerNumber, Rise(n)
      PROVE  Timer!Next
  <2>1. latched[n] \in Int
    BY DEF TypeOK
  <2>2. EdgeTime(latched[n]) \in Timer!Count
    BY <2>1, EdgeTimes DEF Timer!Count
  <2> QED
    BY <1>6, <2>2 DEF Rise, Timer!Next
<1>7. CASE \E n \in TimerNumber, p \in AllPlaces : Move(n, p) \/ Jump(n, p)
  BY <1>7 DEF Move, Jump
<1>8. CASE \E b \in Button : Click(b)
  BY <1>8 DEF Click
<1>9. CASE UNCHANGED vars
  BY <1>9 DEF vars
<1> QED
  BY <1>1, <1>2, <1>3, <1>4, <1>5, <1>6, <1>7, <1>8, <1>9
     DEF Next, SetModeSync, SetModeSyncThenUpdate

(* The driver uses its timers as CaptureTimer lets them be used: it        *)
(* initializes them before it first arms them, and gives them edges only   *)
(* at counts they have.                                                    *)
THEOREM DriverImplementsTimers == Spec => Timer!Spec
<1>1. Init => Timer!Init /\ OffBeforeInit
  BY DEF Init, Timer!Init, OffBeforeInit
<1>2. OffBeforeInit /\ [Next]_vars => OffBeforeInit'
  BY OffStep
<1>3. OffBeforeInit /\ TypeOK /\ [Next]_vars => [Timer!Next]_(Timer!vars)
  BY TimerStep
<1> QED
  BY <1>1, <1>2, <1>3, TypeCorrect, PTL DEF Spec, Timer!Spec

(* So does the program, however long its handlers take: an edge that they  *)
(* let come too late still comes at some count.                            *)
THEOREM ProgramImplementsTimers == MainSpec => Timer!Spec
<1>1. MainInit => Timer!Init /\ OffBeforeInit
  BY DEF MainInit, Init, Timer!Init, OffBeforeInit
<1>2. OffBeforeInit /\ [MainNext]_mainVars => OffBeforeInit'
  <2> SUFFICES ASSUME OffBeforeInit, NEW n \in TimerNumber, LineRises(n)
               PROVE  OffBeforeInit'
    BY InterfaceSteps, OffStep
  <2> QED
    BY DEF LineRises, OffBeforeInit, Timer!Edge, Timer!overflowVars, pinVars
<1>3. OffBeforeInit /\ MainTypeOK /\ TypeOK /\ [MainNext]_mainVars
        => [Timer!Next]_(Timer!vars)
  <2> SUFFICES ASSUME MainTypeOK, NEW n \in TimerNumber, LineRises(n)
               PROVE  Timer!Next
    BY InterfaceSteps, TimerStep
  <2>1. since % WordSize \in Timer!Count
    BY LineCounts
  <2> QED
    BY <2>1 DEF LineRises, Timer!Next
<1>4. CaptureInv => MainTypeOK /\ TypeOK
  BY DEF CaptureInv
<1> QED
  BY <1>1, <1>2, <1>3, <1>4, CapturesInvariant, PTL DEF MainSpec, Timer!Spec

(* What was proved of the timers alone, for these. *)
TimerProofs == INSTANCE CaptureTimer_proofs WITH CountModulus <- WordSize

LEMMA TimersAreThose == Timer!Spec => TimerProofs!Spec
<1>1. Timer!Init => TimerProofs!Init
  BY DEF Timer!Init, TimerProofs!Init
<1>2. [Timer!Next]_(Timer!vars) => [TimerProofs!Next]_(TimerProofs!vars)
  BY DEF Timer!Next, TimerProofs!Next, Timer!vars, TimerProofs!vars,
         Timer!overflowVars, TimerProofs!overflowVars, Timer!Count, TimerProofs!Count,
         Timer!InitInputCapture, TimerProofs!InitInputCapture,
         Timer!ArmInputCapture, TimerProofs!ArmInputCapture,
         Timer!ResetCaptures, TimerProofs!ResetCaptures,
         Timer!StartTimers, TimerProofs!StartTimers,
         Timer!DisarmInputCapture, TimerProofs!DisarmInputCapture,
         Timer!CaptIsr, TimerProofs!CaptIsr, Timer!OvfIsr, TimerProofs!OvfIsr,
         Timer!Overflow, TimerProofs!Overflow, Timer!Edge, TimerProofs!Edge
<1> QED
  BY <1>1, <1>2, PTL DEF Timer!Spec, TimerProofs!Spec

(* What CaptureTimer promises holds in the program, whatever its handlers  *)
(* do to each other's times: a capture interrupt that is taken is of an    *)
(* edge in the present cycle, there is at most one of each timer in a      *)
(* cycle, and timerRunning tells whether it has come.                      *)
THEOREM TimersKeepTheirPromises ==
  MainSpec => /\ []Timer!PendingCaptureIsFresh
              /\ []Timer!RunningMeansUncaptured
              /\ Timer!OneCapturePerArming
<1>1. TimerProofs!ModulusAssumption
  BY WidthAssumption, InterfaceAssumption DEF TimerProofs!ModulusAssumption
<1>2. TimerProofs!Spec => []TimerProofs!PendingCaptureIsFresh
  BY <1>1, TimerProofs!CapturesAreFresh
<1>3. TimerProofs!Spec => []TimerProofs!RunningMeansUncaptured
  BY <1>1, TimerProofs!RunningTellsTheTruth
<1>4. TimerProofs!Spec => TimerProofs!OneCapturePerArming
  BY <1>1, TimerProofs!CaptureDisarms
<1>5. /\ TimerProofs!PendingCaptureIsFresh => Timer!PendingCaptureIsFresh
      /\ TimerProofs!RunningMeansUncaptured => Timer!RunningMeansUncaptured
  BY DEF TimerProofs!PendingCaptureIsFresh, Timer!PendingCaptureIsFresh,
         TimerProofs!RunningMeansUncaptured, Timer!RunningMeansUncaptured
<1>6. TimerProofs!OneCapturePerArming => Timer!OneCapturePerArming
  <2> DEFINE Once == \A n \in TimerNumber :
                       timestamp'[n] # timestamp[n] => running[n] /\ ~running'[n]
  <2>1. [Once]_(TimerProofs!vars) => [Once]_(Timer!vars)
    BY DEF TimerProofs!vars, Timer!vars
  <2> QED
    BY <2>1, PTL DEF TimerProofs!OneCapturePerArming, Timer!OneCapturePerArming
<1> QED
  BY <1>2, <1>3, <1>4, <1>5, <1>6, TimersAreThose, ProgramImplementsTimers, PTL

-----------------------------------------------------------------------------
(* What the driver does with its readings does not depend on when they are *)
(* taken: no duration is assumed here.                                     *)
Bookkeeping == NeverDrivenHigh /\ MotionMatchesReading /\ AccumulatorHoldsMotion

LEMMA LineRisesBookkeeping ==
  ASSUME Bookkeeping, NEW n \in TimerNumber, LineRises(n)
  PROVE  Bookkeeping' /\ flushed' = flushed
  BY DEF LineRises, Bookkeeping, NeverDrivenHigh, MotionMatchesReading,
         AccumulatorHoldsMotion, fieldVars, pinVars, historyVars

LEMMA BookkeepingInvariant == MainSpec => []Bookkeeping
<1>1. MainInit => Bookkeeping
  <2>1. Init => Bookkeeping
    BY InitBookkeeping DEF Bookkeeping
  <2> QED
    BY <2>1 DEF MainInit
<1>2. Bookkeeping /\ MainTypeOK /\ TypeOK /\ [MainNext]_mainVars => Bookkeeping'
  <2> SUFFICES ASSUME Bookkeeping, TypeOK, [Next]_vars
               PROVE  Bookkeeping'
    BY InterfaceSteps, LineRisesBookkeeping
  <2> QED
    BY LowStep, MatchStep, AccumulatorStep DEF Bookkeeping
<1>3. CaptureInv => MainTypeOK /\ TypeOK
  BY DEF CaptureInv
<1> QED
  BY <1>1, <1>2, <1>3, CapturesInvariant, PTL DEF MainSpec

(* However late a capture is, and whatever it has taken: the POT lines are *)
(* not driven high, the pointer is off by whole ranges at most, the        *)
(* accumulators hold the motion that was decoded, and the updates report it.*)
THEOREM ProgramKeepsTheBooks ==
  MainSpec => /\ []NeverDrivenHigh
              /\ []MotionMatchesReading
              /\ []AccumulatorHoldsMotion
              /\ ReportedWithinACount
<1> DEFINE Reported ==
      flushed' # flushed =>
        \A n \in TimerNumber :
          LET ticks == moved'[n] - flushed[n]
              rest  == ticks - velocity'[n] * TicksPerCount
          IN  ticks \in Int16 /\ CDiv(ticks, TicksPerCount) \in Int8 =>
                -TicksPerCount < rest /\ rest < TicksPerCount
<1>1. Bookkeeping => NeverDrivenHigh /\ MotionMatchesReading /\ AccumulatorHoldsMotion
  BY DEF Bookkeeping
<1>2. Bookkeeping /\ TypeOK /\ [MainNext]_mainVars => [Reported]_vars
  <2> SUFFICES ASSUME Bookkeeping, TypeOK, [Next]_vars
               PROVE  [Reported]_vars
    BY InterfaceSteps, LineRisesBookkeeping
  <2> QED
    BY UpdateReports DEF Bookkeeping
<1>3. CaptureInv => TypeOK
  BY DEF CaptureInv
<1> QED
  BY <1>1, <1>2, <1>3, BookkeepingInvariant, CapturesInvariant, PTL
     DEF MainSpec, ReportedWithinACount
=============================================================================
