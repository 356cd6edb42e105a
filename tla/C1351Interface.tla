--------------------------- MODULE C1351Interface ---------------------------
(***************************************************************************)
(* The class C1351Interface (src/controller.cpp) with the two capture      *)
(* timers it drives, the POT lines and the mouse at the other end of them. *)
(*                                                                         *)
(* A read cycle: setModeSync pulls both POT lines low, which starts the    *)
(* mouse's own cycle, and starts the timers; setModeRead releases the      *)
(* lines; the mouse drives each line high after a time that tells its      *)
(* position on that axis modulo PotRange, and the timer captures it.  The  *)
(* next setModeSync takes what was captured, and the difference from the   *)
(* reading before it is the motion.                                        *)
(*                                                                         *)
(* There is no clock here: the edges of a cycle may come, or not come, in  *)
(* any order with the calls and the interrupts, but an edge that comes     *)
(* carries the right count.  What makes the count right is the subject of  *)
(* module MainInterrupt, which implements this one.  Overflows of the      *)
(* timers are left to module CaptureTimer: their handlers count them, and  *)
(* nothing reads the count.                                                *)
(***************************************************************************)
EXTENDS PotArithmetic

CONSTANTS
  TIMER_1, TIMER_3,  \* the timers: TIMER_1 times the X line, TIMER_3 the Y line
  Button,            \* {"left", "right"}: btn1 and up_btn2
  Places,            \* Places[n]: where the mouse can be on the axis of timer n
  OverflowModulus,   \* see CaptureTimer
  Offset,            \* ticks from the end of the sync phase to the edge of 0
  MaxJumps           \* bound on the number of Jump steps

TimerNumber == {TIMER_1, TIMER_3}

ASSUME InterfaceAssumption ==
  /\ TIMER_1 # TIMER_3
  /\ \A n \in TimerNumber : \A p \in Places[n] : p \in Int
  /\ OverflowModulus \in Nat \ {0}
  /\ Offset \in Nat /\ MaxJumps \in Nat
  /\ TimestampAdjust + Offset + PotRange <= WordSize

AllPlaces == UNION {Places[n] : n \in TimerNumber}

(* velocityAccumY takes the negated difference. *)
Sign(n) == IF n = TIMER_3 THEN -1 ELSE 1

VARIABLES
  (* capture_timer.cpp; see CaptureTimer *)
  running, icie, toie, icf, tov, icr, timestamp, overflows, edges,
  (* the fields of C1351Interface, X under TIMER_1 and Y under TIMER_3 *)
  potValue, potValueOld, velocityAccum, velocity, buttonPressed,
  (* the direction and output latch of the two POT pins; history: they     *)
  (* have driven high, if only from one write to the next; init() was called *)
  potsOut, potsPort, drivenHigh, up,
  (* the mouse (external) *)
  place,        \* where it is on each axis, in ticks
  latched,      \* where it was at the last sync: what this cycle will tell
  risen,        \* it has driven the line high in this cycle
  held,         \* the buttons that are held down
  jumps,        \* number of Jump steps so far
  (* history: where the mouse was for the present timestamp and potValue,  *)
  (* and whether it has moved slowly enough to be followed since then      *)
  stampPlace, readPlace, latchedOk, stampOk, readOk,
  moved,        \* every decoded velocity added up, in unbounded integers
  flushed       \* the value of moved at the last update()

timerVars   == <<running, icie, toie, icf, tov, icr, timestamp, overflows, edges>>
fieldVars   == <<potValue, potValueOld, velocityAccum, velocity, buttonPressed>>
pinVars     == <<potsOut, potsPort, drivenHigh, up>>
mouseVars   == <<place, latched, risen, held, jumps>>
historyVars == <<stampPlace, readPlace, latchedOk, stampOk, readOk, moved, flushed>>
vars        == <<timerVars, fieldVars, pinVars, mouseVars, historyVars>>

Timer == INSTANCE CaptureTimer WITH CountModulus <- WordSize

(* The count at which the line rises for a mouse at place p. *)
EdgeTime(p) == TimestampAdjust + Offset + (p % PotRange)

-----------------------------------------------------------------------------
(***************************************************************************)
(* The constructor, with the pins as they are after a reset: inputs.       *)
(***************************************************************************)
Init ==
  /\ Timer!Init
  /\ potValue = [n \in TimerNumber |-> 0]
  /\ potValueOld = [n \in TimerNumber |-> 0]
  /\ velocityAccum = [n \in TimerNumber |-> 0]
  /\ velocity = [n \in TimerNumber |-> 0]
  /\ buttonPressed = [b \in Button |-> FALSE]
  /\ potsOut = FALSE /\ potsPort = FALSE /\ drivenHigh = FALSE /\ up = FALSE
  /\ place \in {f \in [TimerNumber -> AllPlaces] :
                 \A n \in TimerNumber : f[n] \in Places[n]}
  /\ latched = place
  /\ risen = [n \in TimerNumber |-> FALSE]
  /\ held = {}
  /\ jumps = 0
  /\ stampPlace = place /\ readPlace = place
  /\ latchedOk = [n \in TimerNumber |-> FALSE]
  /\ stampOk = [n \in TimerNumber |-> FALSE]
  /\ readOk = [n \in TimerNumber |-> FALSE]
  /\ moved = [n \in TimerNumber |-> 0]
  /\ flushed = [n \in TimerNumber |-> 0]

(* What a pin drives with this direction and output latch. *)
DrivesHigh(out, port) == out /\ port

(* Mutant: setDirectionOut(), then low(). *)
OutputBeforeLow ==
  /\ potsOut' = TRUE /\ potsPort' = FALSE
  /\ drivenHigh' = (drivenHigh \/ DrivesHigh(potsOut', potsPort))

(* low(), then setDirectionOut(): between the two the new latch meets the  *)
(* old direction.                                                          *)
SetPotsOutputLow ==
  /\ potsPort' = FALSE /\ potsOut' = TRUE
  /\ drivenHigh' = (drivenHigh \/ DrivesHigh(potsOut, potsPort'))

(* setDirectionIn(false) or-s nothing into the output latch. *)
SetPotsInput == potsOut' = FALSE /\ UNCHANGED <<potsPort, drivenHigh>>

(* clearIO() of main: all pins are inputs with the pull-up, that is with   *)
(* the output latch set.  The pull-up of the POT pins stays until init().  *)
ClearIO ==
  /\ ~up
  /\ potsOut' = FALSE /\ potsPort' = TRUE
  /\ UNCHANGED <<drivenHigh, up, timerVars, fieldVars, mouseVars, historyVars>>

(* init(): initIO, initInputCapture.  main calls it once, before it enables *)
(* the main interrupt.                                                     *)
InitInterface ==
  /\ ~up
  /\ up' = TRUE
  /\ SetPotsOutputLow
  /\ Timer!InitInputCapture
  /\ UNCHANGED <<fieldVars, mouseVars, historyVars>>

(* Mutants: the other timer is asked; the answer is taken the wrong way.   *)
ValidByTimer1 == ~running[TIMER_1]

ValidInverted == running[TIMER_3]

(* last_capture_invalid is the negation of this; only timer 3 is asked.    *)
LastCaptureValid == ~running[TIMER_3]

NewPotValue(n) ==
  IF LastCaptureValid THEN PotValueOf(timestamp[n]) ELSE potValue[n]

(* Mutant: the velocities are accumulated before the old values are saved. *)
DecodedFromOlder(n) ==
  IF LastCaptureValid
    THEN Sign(n) * PotValueToVelocity(potValueOld[n], PotValueOf(timestamp[n]))
    ELSE 0

Decoded(n) ==
  IF LastCaptureValid
    THEN Sign(n) * PotValueToVelocity(potValue[n], PotValueOf(timestamp[n]))
    ELSE 0

NewAccum(n) ==
  IF LastCaptureValid
    THEN Accumulated(velocityAccum[n], Sign(n), potValue[n], PotValueOf(timestamp[n]))
    ELSE velocityAccum[n]

(* Mutant: a button that was pressed stays pressed. *)
StickyButtons ==
  IF LastCaptureValid
    THEN [b \in Button |-> buttonPressed[b] \/ b \in held]
    ELSE buttonPressed

NewButtons ==
  IF LastCaptureValid THEN [b \in Button |-> b \in held] ELSE buttonPressed

(***************************************************************************)
(* The part of setModeSync() that every call has in common: disarm and arm *)
(* the timers, pull the lines low (which starts a cycle of the mouse) and, *)
(* unless the last capture is invalid, take the new readings and buttons.  *)
(***************************************************************************)
StartSync ==
  /\ up
  /\ Timer!ArmInputCapture
  /\ SetPotsOutputLow
  /\ potValue' = [n \in TimerNumber |-> NewPotValue(n)]
  /\ potValueOld' = IF LastCaptureValid THEN potValue ELSE potValueOld
  /\ buttonPressed' = NewButtons
  /\ latched' = place
  /\ risen' = [n \in TimerNumber |-> FALSE]
  /\ latchedOk' = [n \in TimerNumber |-> TRUE]
  /\ moved' = [n \in TimerNumber |-> moved[n] + Decoded(n)]
  /\ readPlace' = IF LastCaptureValid THEN stampPlace ELSE readPlace
  /\ readOk' = IF LastCaptureValid THEN stampOk ELSE readOk
  /\ UNCHANGED <<up, place, held, jumps, stampPlace, stampOk>>

SetModeSync ==
  /\ StartSync
  /\ velocityAccum' = [n \in TimerNumber |-> NewAccum(n)]
  /\ UNCHANGED <<velocity, flushed>>

(* Mutant: update() does not clear the accumulators. *)
UpdateWithoutReset ==
  /\ StartSync
  /\ velocity' = [n \in TimerNumber |-> VelocityOf(NewAccum(n))]
  /\ velocityAccum' = [n \in TimerNumber |-> NewAccum(n)]
  /\ flushed' = moved'

(* setModeSync() and update(), which the main interrupt only ever calls    *)
(* one after the other in the same handler.                                *)
SetModeSyncThenUpdate ==
  /\ StartSync
  /\ velocity' = [n \in TimerNumber |-> VelocityOf(NewAccum(n))]
  /\ velocityAccum' = [n \in TimerNumber |-> 0]
  /\ flushed' = moved'

SetModeRead ==
  /\ up
  /\ SetPotsInput
  /\ UNCHANGED <<up, timerVars, fieldVars, mouseVars, historyVars>>

(* ISR(TIMERn_CAPT_vect), with the place the timestamp now stands for. *)
CaptIsr(n) ==
  /\ Timer!CaptIsr(n)
  /\ stampPlace' = [stampPlace EXCEPT ![n] = latched[n]]
  /\ stampOk' = [stampOk EXCEPT ![n] = latchedOk[n]]
  /\ UNCHANGED <<fieldVars, pinVars, mouseVars, readPlace, latchedOk, readOk,
                 moved, flushed>>

-----------------------------------------------------------------------------
(***************************************************************************)
(* The mouse.  It drives each line high once in a cycle, seen only while   *)
(* the adapter has released it; a line it does not drive in time, or at    *)
(* all (an unplugged mouse), is a Rise that is not taken.                  *)
(***************************************************************************)
Rise(n) ==
  /\ up /\ ~potsOut /\ ~risen[n]
  /\ risen' = [risen EXCEPT ![n] = TRUE]
  /\ Timer!Edge(n, EdgeTime(latched[n]))
  /\ UNCHANGED <<fieldVars, pinVars, place, latched, held, jumps, historyVars>>

(* Two places that a pair of readings tells apart: less than half a range. *)
Near(p, q) == -Half < p - q /\ p - q < Half

(* Slow motion: the mouse stays within half a range of every place that    *)
(* is still to be compared with where it is now.                           *)
Move(n, p) ==
  /\ p \in Places[n] /\ p # place[n]
  /\ latchedOk[n] => Near(p, latched[n])
  /\ stampOk[n] => Near(p, stampPlace[n])
  /\ readOk[n] => Near(p, readPlace[n])
  /\ place' = [place EXCEPT ![n] = p]
  /\ UNCHANGED <<timerVars, fieldVars, pinVars, latched, risen, held, jumps,
                 historyVars>>

(* Any other motion: the mouse is thrown, or another one is plugged in.    *)
Jump(n, p) ==
  /\ p \in Places[n] /\ p # place[n] /\ jumps < MaxJumps
  /\ place' = [place EXCEPT ![n] = p]
  /\ jumps' = jumps + 1
  /\ latchedOk' = [latchedOk EXCEPT ![n] = FALSE]
  /\ stampOk' = [stampOk EXCEPT ![n] = FALSE]
  /\ readOk' = [readOk EXCEPT ![n] = FALSE]
  /\ UNCHANGED <<timerVars, fieldVars, pinVars, latched, risen, held,
                 stampPlace, readPlace, moved, flushed>>

Click(b) ==
  /\ held' = IF b \in held THEN held \ {b} ELSE held \cup {b}
  /\ UNCHANGED <<timerVars, fieldVars, pinVars, place, latched, risen, jumps,
                 historyVars>>

Next ==
  \/ ClearIO
  \/ InitInterface
  \/ SetModeSync
  \/ SetModeSyncThenUpdate
  \/ SetModeRead
  \/ \E n \in TimerNumber :
       \/ CaptIsr(n)
       \/ Rise(n)
       \/ \E p \in AllPlaces : Move(n, p) \/ Jump(n, p)
  \/ \E b \in Button : Click(b)

Spec == Init /\ [][Next]_vars

-----------------------------------------------------------------------------
TypeOK ==
  /\ Timer!TypeOK
  /\ potValue \in [TimerNumber -> Word] /\ potValueOld \in [TimerNumber -> Word]
  /\ velocityAccum \in [TimerNumber -> Int16]
  /\ velocity \in [TimerNumber -> Int8]
  /\ buttonPressed \in [Button -> BOOLEAN]
  /\ potsOut \in BOOLEAN /\ potsPort \in BOOLEAN
  /\ drivenHigh \in BOOLEAN /\ up \in BOOLEAN
  /\ place \in [TimerNumber -> Int] /\ latched \in [TimerNumber -> Int]
  /\ risen \in [TimerNumber -> BOOLEAN]
  /\ held \in SUBSET Button
  /\ jumps \in 0 .. MaxJumps
  /\ stampPlace \in [TimerNumber -> Int] /\ readPlace \in [TimerNumber -> Int]
  /\ latchedOk \in [TimerNumber -> BOOLEAN]
  /\ stampOk \in [TimerNumber -> BOOLEAN]
  /\ readOk \in [TimerNumber -> BOOLEAN]
  /\ moved \in [TimerNumber -> Int] /\ flushed \in [TimerNumber -> Int]

(* The distance between the mouse and the pointer it has moved, on the     *)
(* axis of timer n.                                                        *)
Drift(n) ==
  IF n = TIMER_3 THEN readPlace[n] + moved[n] ELSE readPlace[n] - moved[n]

(* As long as the mouse moves slowly, every tick of motion is counted      *)
(* exactly once: captures that are missed, on either axis and for any      *)
(* number of cycles, are made good by the next reading, and the readings   *)
(* that stay the same because an edge was missed add nothing.              *)
NoDrift ==
  [][\A n \in TimerNumber : readOk[n] /\ readOk'[n] => Drift(n)' = Drift(n)]_vars

(* Even when it is thrown or exchanged, the pointer is only ever off by    *)
(* whole ranges: the reading held in potValue is the sum of the motion.    *)
MotionMatchesReading ==
  /\ (potValue[TIMER_1] - moved[TIMER_1]) % PotRange = 0
  /\ (potValue[TIMER_3] + moved[TIMER_3]) % PotRange = 0

(* A reading accepted from timer 3 is where the mouse was at the previous  *)
(* sync, never an older one; timer 1 has no such check (its edge may be    *)
(* missed while the other comes), and then repeats what it last captured.  *)
AcceptedYIsCurrent ==
  [][StartSync /\ LastCaptureValid /\ stampOk[TIMER_3]
       => readPlace'[TIMER_3] = latched[TIMER_3]]_vars

(* The int16_t accumulator holds the motion since the last update(), all   *)
(* of it and nothing else, up to its own width.                            *)
AccumulatorHoldsMotion ==
  \A n \in TimerNumber :
    velocityAccum[n] = ToSigned(moved[n] - flushed[n], WordSize)

(* What update() hands over is the motion since the last update() to       *)
(* within one count, whenever the int16_t and the int8_t on the way can    *)
(* hold it.                                                                *)
ReportedWithinACount ==
  [][flushed' # flushed =>
       \A n \in TimerNumber :
         LET ticks == moved'[n] - flushed[n]
             rest  == ticks - velocity'[n] * TicksPerCount
         IN  ticks \in Int16 /\ CDiv(ticks, TicksPerCount) \in Int8 =>
               -TicksPerCount < rest /\ rest < TicksPerCount]_vars

(* The adapter never drives a POT line high against the mouse, not even    *)
(* between the write to the latch and the write to the direction.          *)
NeverDrivenHigh == ~drivenHigh /\ ~DrivesHigh(potsOut, potsPort)
=============================================================================
