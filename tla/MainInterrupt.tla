---------------------------- MODULE MainInterrupt ----------------------------
(***************************************************************************)
(* The program around the driver (src/main.cpp): the boot sequence and the *)
(* Timer 4 interrupt, whose handler alternates between the two halves of a *)
(* read cycle and, every UpdateInterval cycles, updates the USB mouse.     *)
(*                                                                         *)
(* This module adds the clock that C1351Interface lacks.  The timer counts *)
(* from the last sync, the mouse drives its lines at the time it promised, *)
(* and handlers take their turn: they do not nest, a handler that runs     *)
(* delays all others, Timer 4 remembers one compare match and no more, and *)
(* of two pending handlers the lower vector number runs first.  handleUsb, *)
(* inside the Timer 4 handler, and the USB bus interrupt are, here, a time *)
(* during which nothing else can run; what they do is in module UsbMouse.  *)
(***************************************************************************)
EXTENDS C1351Interface

CONSTANTS
  Interval,         \* MAIN_INTERRUPT_INTERVAL_US, in ticks
  UpdateInterval,   \* MOUSE_UPDATE_INTERVAL: read cycles per mouse update
  MaxUsbTicks,      \* bound on the duration of handleUsb()
  MaxBusTicks,      \* bound on the duration of the USB bus interrupt
  ServiceLimit,     \* USB_USBTask must run at least this often
  CanUnplug         \* whether the mouse is ever plugged and unplugged

ASSUME MainAssumption ==
  /\ Interval \in Nat \ {0} /\ UpdateInterval \in Nat \ {0}
  /\ MaxUsbTicks \in Nat /\ MaxBusTicks \in Nat /\ ServiceLimit \in Nat
  /\ CanUnplug \in BOOLEAN

VARIABLES
  pc,                \* how far main() has come
  mode,              \* the static locals of the Timer 4 handler
  interval_counter,
  tcnt4, ocf4,       \* TCNT4, and OCF4A: a compare match is pending
  busy,              \* ticks until the handler that is running returns
  busDone,           \* a bus interrupt has come since the last compare match
  since,             \* ticks since the last sync: TCNT1 and TCNT3
  serviceAge,        \* history: ticks since handleUsb() was last called
  plugged,           \* the mouse is plugged in (external)
  answers            \* it has seen the last sync, so it will drive its lines

clockVars == <<tcnt4, ocf4, busy, busDone, since, serviceAge>>
isrVars   == <<mode, interval_counter>>
plugVars  == <<plugged, answers>>
mainVars  == <<vars, pc, isrVars, clockVars, plugVars>>

-----------------------------------------------------------------------------
MainInit ==
  /\ Init
  /\ pc = "reset"
  /\ mode = "DISCHARGE" /\ interval_counter = UpdateInterval
  /\ tcnt4 = 0 /\ ocf4 = FALSE
  /\ busy = 0 /\ busDone = FALSE
  /\ since = 0 /\ serviceAge = 0
  /\ plugged = TRUE /\ answers = FALSE

(* main(): clearIO, setupUsbMouse (which enables interrupts), c1351.init,  *)
(* setupMainInterrupt, and then an endless loop.                           *)
BootClearIO ==
  /\ pc = "reset" /\ pc' = "setupUsbMouse"
  /\ ClearIO
  /\ UNCHANGED <<isrVars, clockVars, plugVars>>

BootSetupUsbMouse ==
  /\ pc = "setupUsbMouse" /\ pc' = "init"
  /\ serviceAge' = 0
  /\ UNCHANGED <<vars, isrVars, tcnt4, ocf4, busy, busDone, since, plugVars>>

BootInit ==
  /\ pc = "init" /\ busy = 0 /\ pc' = "setupMainInterrupt"
  /\ InitInterface
  /\ UNCHANGED <<isrVars, clockVars, plugVars>>

SetupMainInterrupt ==
  /\ pc = "setupMainInterrupt" /\ busy = 0 /\ pc' = "loop"
  /\ tcnt4' = 0
  /\ UNCHANGED <<vars, isrVars, ocf4, busy, busDone, since, serviceAge, plugVars>>

-----------------------------------------------------------------------------
InterruptsEnabled == pc \in {"init", "setupMainInterrupt", "loop"}

CanRunHandler == InterruptsEnabled /\ busy = 0

CapturePending == \E n \in TimerNumber : icf[n] /\ icie[n]

(* Mutant: the handler does not change its mode. *)
SameMode == mode

(* The two halves alternate. *)
NextMode == IF mode = "DISCHARGE" THEN "READ" ELSE "DISCHARGE"

(* Mutant of the counting: one cycle too many is counted.                  *)
OneCycleTooMany ==
  IF interval_counter = 1 THEN UpdateInterval + 1 ELSE interval_counter - 1

UpdateDue == interval_counter = 1

NextIntervalCounter ==
  IF UpdateDue THEN UpdateInterval ELSE interval_counter - 1

(***************************************************************************)
(* ISR(TIMER4_COMPA_vect), last in the order of priority.  Its two halves: *)
(* a sync, after which every UpdateInterval-th time the mouse is updated   *)
(* and handleUsb() takes its time before the handler returns; and a read.  *)
(***************************************************************************)
Timer4Isr ==
  /\ CanRunHandler /\ ocf4 /\ ~CapturePending
  /\ ocf4' = FALSE

Discharge ==
  /\ Timer4Isr
  /\ mode = "DISCHARGE" /\ mode' = NextMode
  /\ since' = 0
  /\ answers' = plugged
  /\ interval_counter' = NextIntervalCounter
  /\ IF UpdateDue
       THEN /\ SetModeSyncThenUpdate
            /\ busy' \in 0 .. MaxUsbTicks
            /\ serviceAge' = 0
       ELSE /\ SetModeSync
            /\ UNCHANGED <<busy, serviceAge>>
  /\ UNCHANGED <<pc, tcnt4, busDone, plugged>>

(* Mutant of the second half: the lines are released to the pull-up.       *)
ReadWithPullUp ==
  /\ Timer4Isr
  /\ mode = "READ" /\ mode' = NextMode
  /\ potsOut' = FALSE /\ potsPort' = TRUE
  /\ UNCHANGED <<drivenHigh, up, timerVars, fieldVars, mouseVars, historyVars>>
  /\ UNCHANGED <<pc, interval_counter, tcnt4, busy, busDone, since, serviceAge,
                 plugVars>>

Read ==
  /\ Timer4Isr
  /\ mode = "READ" /\ mode' = NextMode
  /\ SetModeRead
  /\ UNCHANGED <<pc, interval_counter, tcnt4, busy, busDone, since, serviceAge,
                 plugVars>>

Capture(n) ==
  /\ CanRunHandler
  /\ CaptIsr(n)
  /\ UNCHANGED <<pc, isrVars, clockVars, plugVars>>

(* The bus interrupt (start of frame, suspend, ...), first in priority.    *)
(* There is at most one in an interval: a frame is 1 ms.  It may come      *)
(* between any two steps of the boot from setupUsbMouse on.                *)
UsbBusIsr ==
  /\ CanRunHandler /\ ~busDone
  /\ busDone' = TRUE
  /\ busy' \in 1 .. MaxBusTicks
  /\ UNCHANGED <<vars, pc, isrVars, tcnt4, ocf4, since, serviceAge, plugVars>>

-----------------------------------------------------------------------------
(* The mouse drives line n high, or has long done so when it is released.  *)
RiseDue(n) ==
  /\ answers /\ ~potsOut /\ ~risen[n]
  /\ since >= EdgeTime(latched[n])

LineRises(n) ==
  /\ RiseDue(n)
  /\ risen' = [risen EXCEPT ![n] = TRUE]
  /\ Timer!Edge(n, since % WordSize)
  /\ UNCHANGED <<fieldVars, pinVars, place, latched, held, jumps, historyVars>>
  /\ UNCHANGED <<pc, isrVars, clockVars, plugVars>>

(* Mutants: a compare value of twice, and of half, the interval. *)
CountAtDoubleInterval == (tcnt4 + 1) % (2 * Interval)

CountAtHalfInterval == (tcnt4 + 1) % (Interval \div 2)

(* Timer 4 counts up to OCR4C, which has its reset value 255, and starts   *)
(* again; the compare value is the same.                                   *)
NextCount == (tcnt4 + 1) % Interval

(* Time passes only when no handler can run and no edge is due. *)
Tick ==
  /\ busy > 0 \/ (pc = "loop" /\ ~ocf4 /\ ~CapturePending)
  /\ \A n \in TimerNumber : ~RiseDue(n)
  /\ busy' = IF busy > 0 THEN busy - 1 ELSE 0
  /\ since' = since + 1
  /\ serviceAge' = serviceAge + 1
  /\ tcnt4' = IF pc = "loop" THEN NextCount ELSE tcnt4
  /\ IF pc = "loop" /\ tcnt4' = 0
       THEN ocf4' = TRUE /\ busDone' = FALSE
       ELSE UNCHANGED <<ocf4, busDone>>
  /\ UNCHANGED <<vars, pc, isrVars, plugVars>>

MouseMoves ==
  /\ \E n \in TimerNumber : \E p \in AllPlaces : Move(n, p) \/ Jump(n, p)
  /\ UNCHANGED <<pc, isrVars, clockVars, plugVars>>

ButtonClicks ==
  /\ \E b \in Button : Click(b)
  /\ UNCHANGED <<pc, isrVars, clockVars, plugVars>>

Plug ==
  /\ CanUnplug
  /\ plugged' = ~plugged
  /\ answers' = FALSE
  /\ UNCHANGED <<vars, pc, isrVars, clockVars>>

Boot == BootClearIO \/ BootSetupUsbMouse \/ BootInit \/ SetupMainInterrupt

Handlers == Discharge \/ Read \/ \E n \in TimerNumber : Capture(n)

MainNext ==
  \/ Boot
  \/ Handlers
  \/ UsbBusIsr
  \/ \E n \in TimerNumber : LineRises(n)
  \/ Tick
  \/ MouseMoves
  \/ ButtonClicks
  \/ Plug

MainSpec == MainInit /\ [][MainNext]_mainVars

(* Handlers run when they can and time goes on: the AVR scheduling.  The   *)
(* mouse drives its lines when it is time; nobody has to move or click it. *)
Fairness ==
  /\ WF_mainVars(Boot)
  /\ WF_mainVars(Handlers)
  /\ WF_mainVars(\E n \in TimerNumber : LineRises(n))
  /\ WF_mainVars(Tick)

FairMainSpec == MainSpec /\ Fairness

-----------------------------------------------------------------------------
(***************************************************************************)
(* What the properties ask of the durations.  They are about the constants *)
(* alone; the theorems name those that they need.                          *)
(***************************************************************************)
Longer(x, y) == IF x >= y THEN x ELSE y

(* What can be left of a bus interrupt at a compare match. *)
BusRest == IF MaxBusTicks = 0 THEN 0 ELSE MaxBusTicks - 1

(* From the compare match to the sync: the rest of one bus interrupt, and  *)
(* another, which is the only one in the new interval.                     *)
SyncDelay == BusRest + MaxBusTicks

(* From the sync to the compare match of the read, and what is left of the *)
(* handler that is running then: of the sync itself, with its handleUsb(), *)
(* or of a bus interrupt.                                                  *)
SyncPhase == Longer(MaxUsbTicks, Interval + BusRest)

(* From the sync to the read: again, another bus interrupt can come first. *)
ReadDelay == SyncPhase + MaxBusTicks

(* The lines are released before the first edge can be due, and the read   *)
(* takes its compare match before the next one comes.                      *)
HandlersAreShort ==
  /\ ReadDelay <= TimestampAdjust + Offset
  /\ ReadDelay + SyncDelay < 2 * Interval

(* The last edge is due before the next sync can come. *)
CycleIsLongEnough ==
  TimestampAdjust + Offset + PotRange + SyncDelay <= 2 * Interval

(* UpdateInterval cycles and a late sync are within the limit. *)
ServiceIsFrequent ==
  2 * Interval * UpdateInterval + SyncDelay <= ServiceLimit

-----------------------------------------------------------------------------
(* "The readings are not affected by program execution time or interrupts  *)
(* such as the USB interrupt" (controller.hpp): an edge is captured at the *)
(* count that tells the place of the mouse.                                *)
ReadingsUnaffected ==
  \A n \in TimerNumber : edges[n] \subseteq {EdgeTime(latched[n])}

(* With a mouse plugged in, no cycle ends before both edges are captured:  *)
(* the capture handlers get to run before the next sync disarms them.      *)
NoMissedCapture ==
  [][Discharge /\ answers => \A n \in TimerNumber : ~running[n]]_mainVars

(* "The USB task must be serviced within 30ms" (mouse.c).                  *)
UsbServicedInTime == serviceAge <= ServiceLimit

(* A cycle in which the mouse drove no line, because it is not plugged in  *)
(* or was plugged in too late, moves nothing.                              *)
SilentCycleIsStill ==
  [][Discharge /\ (\A n \in TimerNumber : edges[n] = {}) => moved' = moved]_mainVars

(* A button that is held down, or let go, is seen as such in the end.      *)
ButtonsFollow ==
  \A b \in Button :
    /\ <>[](plugged /\ b \in held) => <>[]buttonPressed[b]
    /\ <>[](plugged /\ b \notin held) => <>[](~buttonPressed[b])

(* Read cycles go on for ever, and with them the servicing of USB. *)
UsbServicedForever == []<>(mode = "READ" /\ interval_counter = UpdateInterval)
=============================================================================
