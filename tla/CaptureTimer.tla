---------------------------- MODULE CaptureTimer ----------------------------
(***************************************************************************)
(* The input capture timers 1 and 3 (src/capture_timer.cpp): the registers *)
(* of the two timer units, the functions that arm and disarm them and the  *)
(* interrupt handlers that take a timestamp.                               *)
(*                                                                         *)
(* TCNTn is not a variable: armInputCapture zeroes both counters and starts*)
(* them together at the CPU clock, so the count at an edge is a matter of  *)
(* when the edge comes, and is a parameter of Edge.  A module that has a   *)
(* clock supplies it; here it is any value.                                *)
(*                                                                         *)
(* An interrupt handler and a function called with interrupts off are one  *)
(* action each (AVR handlers do not nest); between two of them the hardware*)
(* may do anything.                                                        *)
(***************************************************************************)
EXTENDS Naturals

CONSTANTS
  TimerNumber,     \* {TIMER_1, TIMER_3}
  CountModulus,    \* number of values of TCNTn, ICRn and the timestamps
  OverflowModulus  \* number of values of overflowsTimer1, overflowsTimer3

(* Both are 2^16 in the program. *)
ASSUME ModulusAssumption ==
  CountModulus \in Nat \ {0} /\ OverflowModulus \in Nat \ {0}

Count == 0 .. CountModulus - 1

VARIABLES
  running,     \* TCCRnB selects a clock (timerRunning)
  icie,        \* TIMSKn.ICIEn: the capture interrupt is enabled
  toie,        \* TIMSKn.TOIEn: the overflow interrupt is enabled
  icf,         \* TIFRn.ICFn: a capture is pending
  tov,         \* TIFRn.TOVn: an overflow is pending
  icr,         \* ICRn: the count latched by the last edge
  timestamp,   \* timestampTimer1, timestampTimer3
  overflows,   \* overflowsTimer1, overflowsTimer3
  edges        \* history: counts of the edges on ICPn since the last arming

vars == <<running, icie, toie, icf, tov, icr, timestamp, overflows, edges>>

overflowVars == <<toie, tov, overflows>>

-----------------------------------------------------------------------------
(* Reset values of the registers and the initialisers of the globals. *)
Init ==
  /\ running   = [n \in TimerNumber |-> FALSE]
  /\ icie      = [n \in TimerNumber |-> FALSE]
  /\ toie      = [n \in TimerNumber |-> FALSE]
  /\ icf       = [n \in TimerNumber |-> FALSE]
  /\ tov       = [n \in TimerNumber |-> FALSE]
  /\ icr       = [n \in TimerNumber |-> 0]
  /\ timestamp = [n \in TimerNumber |-> 0]
  /\ overflows = [n \in TimerNumber |-> 0]
  /\ edges     = [n \in TimerNumber |-> {}]

(* initInputCapture(): initTimer1, initTimer3, clear the capture flags.    *)
InitInputCapture ==
  /\ running' = [n \in TimerNumber |-> FALSE]
  /\ icf'     = [n \in TimerNumber |-> FALSE]
  /\ UNCHANGED <<icie, icr, timestamp, edges, overflowVars>>

(***************************************************************************)
(* disarmInputCapture(n) mask the interrupt and stop the timer.  With all  *)
(* timers disarmed first, as setModeSync does, armInputCapture() leaves:   *)
(* capture and overflow interrupts enabled, ICFn clear, both timers        *)
(* running from 0 and the overflow counters reset.  TIFRn |= _BV(ICFn) is  *)
(* one sbi instruction at this address: a pending overflow stays pending.  *)
(***************************************************************************)
DisarmInputCapture(n) ==
  /\ icie'    = [icie EXCEPT ![n] = FALSE]
  /\ running' = [running EXCEPT ![n] = FALSE]
  /\ UNCHANGED <<icf, icr, timestamp, edges, overflowVars>>

(* startTimer1, startTimer3 *)
StartTimers ==
  /\ running'   = [n \in TimerNumber |-> TRUE]
  /\ overflows' = [n \in TimerNumber |-> 0]

(* Mutant: resetCapture does not clear the pending capture. *)
ResetKeepingCapture ==
  /\ icie'  = [n \in TimerNumber |-> TRUE]
  /\ toie'  = [n \in TimerNumber |-> TRUE]
  /\ edges' = [n \in TimerNumber |-> {}]
  /\ UNCHANGED icf

(* resetCapture1, resetCapture3 *)
ResetCaptures ==
  /\ icie'  = [n \in TimerNumber |-> TRUE]
  /\ toie'  = [n \in TimerNumber |-> TRUE]
  /\ icf'   = [n \in TimerNumber |-> FALSE]
  /\ edges' = [n \in TimerNumber |-> {}]

ArmInputCapture ==
  /\ ResetCaptures
  /\ StartTimers
  /\ UNCHANGED <<tov, icr, timestamp>>

-----------------------------------------------------------------------------
(* Mutants of the handler: it forgets to stop the timer; it stops it, but  *)
(* does not mask its interrupt.                                            *)
CaptIsrKeepsRunning(n) ==
  /\ icf[n] /\ icie[n]
  /\ icf'       = [icf EXCEPT ![n] = FALSE]
  /\ icie'      = [icie EXCEPT ![n] = FALSE]
  /\ timestamp' = [timestamp EXCEPT ![n] = icr[n]]
  /\ UNCHANGED <<running, icr, edges, overflowVars>>

CaptIsrStaysEnabled(n) ==
  /\ icf[n] /\ icie[n]
  /\ icf'       = [icf EXCEPT ![n] = FALSE]
  /\ running'   = [running EXCEPT ![n] = FALSE]
  /\ timestamp' = [timestamp EXCEPT ![n] = icr[n]]
  /\ UNCHANGED <<icie, icr, edges, overflowVars>>

(* ISR(TIMERn_CAPT_vect): the hardware clears ICFn on entry; the handler   *)
(* disarms the timer and keeps what it captured.                           *)
CaptIsr(n) ==
  /\ icf[n] /\ icie[n]
  /\ icf'       = [icf EXCEPT ![n] = FALSE]
  /\ icie'      = [icie EXCEPT ![n] = FALSE]
  /\ running'   = [running EXCEPT ![n] = FALSE]
  /\ timestamp' = [timestamp EXCEPT ![n] = icr[n]]
  /\ UNCHANGED <<icr, edges, overflowVars>>

(* Mutant: the count of overflows goes past its width. *)
OvfIsrTooWide(n) ==
  /\ tov[n] /\ toie[n]
  /\ tov'       = [tov EXCEPT ![n] = FALSE]
  /\ overflows' = [overflows EXCEPT ![n] = @ + 1]
  /\ UNCHANGED <<running, icie, toie, icf, icr, timestamp, edges>>

(* ISR(TIMERn_OVF_vect) *)
OvfIsr(n) ==
  /\ tov[n] /\ toie[n]
  /\ tov'       = [tov EXCEPT ![n] = FALSE]
  /\ overflows' = [overflows EXCEPT ![n] = (@ + 1) % OverflowModulus]
  /\ UNCHANGED <<running, icie, toie, icf, icr, timestamp, edges>>

(* The timer hardware: an edge on ICPn at count t latches it in ICRn,      *)
(* pending or not; a running counter overflows now and then.               *)
Edge(n, t) ==
  /\ icf'   = [icf EXCEPT ![n] = TRUE]
  /\ icr'   = [icr EXCEPT ![n] = t]
  /\ edges' = [edges EXCEPT ![n] = @ \cup {t}]
  /\ UNCHANGED <<running, icie, timestamp, overflowVars>>

Overflow(n) ==
  /\ running[n]
  /\ tov' = [tov EXCEPT ![n] = TRUE]
  /\ UNCHANGED <<running, icie, toie, icf, icr, timestamp, overflows, edges>>

(* main calls initInputCapture before anything arms the timers. *)
Next ==
  \/ (\A n \in TimerNumber : ~toie[n]) /\ InitInputCapture
  \/ ArmInputCapture
  \/ \E n \in TimerNumber : \/ DisarmInputCapture(n)
                            \/ CaptIsr(n)
                            \/ OvfIsr(n)
                            \/ Overflow(n)
                            \/ \E t \in Count : Edge(n, t)

Spec == Init /\ [][Next]_vars

-----------------------------------------------------------------------------
TypeOK ==
  /\ running   \in [TimerNumber -> BOOLEAN]
  /\ icie      \in [TimerNumber -> BOOLEAN]
  /\ toie      \in [TimerNumber -> BOOLEAN]
  /\ icf       \in [TimerNumber -> BOOLEAN]
  /\ tov       \in [TimerNumber -> BOOLEAN]
  /\ icr       \in [TimerNumber -> Count]
  /\ timestamp \in [TimerNumber -> Count]
  /\ overflows \in [TimerNumber -> 0 .. OverflowModulus - 1]
  /\ edges     \in [TimerNumber -> SUBSET Count]

(* A capture interrupt that can be taken belongs to the present arming:    *)
(* the count it will store is that of an edge seen since.  Clearing ICFn   *)
(* in resetCapture is what makes it so; a flag left by the line's rise     *)
(* after the last capture would otherwise be taken as a new capture.       *)
PendingCaptureIsFresh ==
  \A n \in TimerNumber : icf[n] /\ icie[n] => icr[n] \in edges[n]

(* "Capture is disarmed automatically after each successful capture"       *)
(* (header comment): between two armings a timestamp changes only while    *)
(* the timer runs, and the change stops the timer.                         *)
OneCapturePerArming ==
  [][\A n \in TimerNumber :
       timestamp'[n] # timestamp[n] => running[n] /\ ~running'[n]]_vars

(* timerRunning, the only sign setModeSync has of a missed capture, tells  *)
(* the truth: a timer runs exactly as long as its capture can still come.  *)
RunningMeansUncaptured ==
  \A n \in TimerNumber : running[n] <=> icie[n]
=============================================================================
