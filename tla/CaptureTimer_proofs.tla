------------------------- MODULE CaptureTimer_proofs -------------------------
(***************************************************************************)
(* Proofs about the capture timers, for any set of timers and any widths   *)
(* of the counters.                                                        *)
(***************************************************************************)
EXTENDS CaptureTimer, TLAPS

(* A timer that runs has been armed, and arming enables the interrupt of   *)
(* its overflows for good.  This is what keeps initInputCapture, which     *)
(* stops the clocks only, apart from a timer that waits for a capture.     *)
RunningMeansArmed == \A n \in TimerNumber : running[n] => toie[n]

IInv ==
  TypeOK /\ RunningMeansArmed /\ PendingCaptureIsFresh /\ RunningMeansUncaptured

(* The registers and globals of capture_timer.cpp keep their types.        *)
LEMMA TypeStep == TypeOK /\ [Next]_vars => TypeOK'
<1> SUFFICES ASSUME TypeOK, [Next]_vars PROVE TypeOK'
  OBVIOUS
<1> USE ModulusAssumption DEF TypeOK, Count, overflowVars
<1>1. CASE InitInputCapture
  BY <1>1 DEF InitInputCapture
<1>2. CASE ArmInputCapture
  BY <1>2 DEF ArmInputCapture, ResetCaptures, StartTimers
<1>3. ASSUME NEW n \in TimerNumber, DisarmInputCapture(n)
      PROVE  TypeOK'
  BY <1>3 DEF DisarmInputCapture
<1>4. ASSUME NEW n \in TimerNumber, CaptIsr(n)
      PROVE  TypeOK'
  BY <1>4 DEF CaptIsr
<1>5. ASSUME NEW n \in TimerNumber, OvfIsr(n)
      PROVE  TypeOK'
  <2>1. (overflows[n] + 1) % OverflowModulus \in 0 .. OverflowModulus - 1
    OBVIOUS
  <2> QED
    BY <1>5, <2>1 DEF OvfIsr
<1>6. ASSUME NEW n \in TimerNumber, Overflow(n)
      PROVE  TypeOK'
  BY <1>6 DEF Overflow
<1>7. ASSUME NEW n \in TimerNumber, NEW t \in Count, Edge(n, t)
      PROVE  TypeOK'
  BY <1>7 DEF Edge
<1>8. CASE UNCHANGED vars
  BY <1>8 DEF vars
<1> QED
  BY <1>1, <1>2, <1>3, <1>4, <1>5, <1>6, <1>7, <1>8 DEF Next

(* A pending capture that can be taken stays one of this arming: arming    *)
(* clears the flag, and an edge that sets it is counted among the edges.   *)
LEMMA FreshStep ==
  TypeOK /\ PendingCaptureIsFresh /\ [Next]_vars => PendingCaptureIsFresh'
<1> SUFFICES ASSUME TypeOK, PendingCaptureIsFresh, [Next]_vars,
                    NEW m \in TimerNumber, icf'[m], icie'[m]
             PROVE  icr'[m] \in edges'[m]
  BY DEF PendingCaptureIsFresh
<1> USE DEF TypeOK, PendingCaptureIsFresh, overflowVars
<1>1. CASE InitInputCapture
  BY <1>1 DEF InitInputCapture
<1>2. CASE ArmInputCapture
  BY <1>2 DEF ArmInputCapture, ResetCaptures, StartTimers
<1>3. ASSUME NEW n \in TimerNumber, DisarmInputCapture(n)
      PROVE  icr'[m] \in edges'[m]
  BY <1>3 DEF DisarmInputCapture
<1>4. ASSUME NEW n \in TimerNumber, CaptIsr(n)
      PROVE  icr'[m] \in edges'[m]
  BY <1>4 DEF CaptIsr
<1>5. ASSUME NEW n \in TimerNumber, OvfIsr(n)
      PROVE  icr'[m] \in edges'[m]
  BY <1>5 DEF OvfIsr
<1>6. ASSUME NEW n \in TimerNumber, Overflow(n)
      PROVE  icr'[m] \in edges'[m]
  BY <1>6 DEF Overflow
<1>7. ASSUME NEW n \in TimerNumber, NEW t \in Count, Edge(n, t)
      PROVE  icr'[m] \in edges'[m]
  BY <1>7 DEF Edge
<1>8. CASE UNCHANGED vars
  BY <1>8 DEF vars
<1> QED
  BY <1>1, <1>2, <1>3, <1>4, <1>5, <1>6, <1>7, <1>8 DEF Next

(* The clock and the capture interrupt of a timer go on and off together.  *)
(* InitInputCapture, which only stops the clock, comes before any arming.  *)
LEMMA RunningStep ==
  TypeOK /\ RunningMeansUncaptured /\ RunningMeansArmed /\ [Next]_vars
    => RunningMeansUncaptured' /\ RunningMeansArmed'
<1> SUFFICES ASSUME TypeOK, RunningMeansUncaptured, RunningMeansArmed,
                    [Next]_vars, NEW m \in TimerNumber
             PROVE  (running'[m] <=> icie'[m]) /\ (running'[m] => toie'[m])
  BY DEF RunningMeansUncaptured, RunningMeansArmed
<1> USE DEF TypeOK, RunningMeansUncaptured, RunningMeansArmed, overflowVars
<1>1. CASE (\A n \in TimerNumber : ~toie[n]) /\ InitInputCapture
  BY <1>1 DEF InitInputCapture
<1>2. CASE ArmInputCapture
  BY <1>2 DEF ArmInputCapture, ResetCaptures, StartTimers
<1>3. ASSUME NEW n \in TimerNumber, DisarmInputCapture(n)
      PROVE  (running'[m] <=> icie'[m]) /\ (running'[m] => toie'[m])
  BY <1>3 DEF DisarmInputCapture
<1>4. ASSUME NEW n \in TimerNumber, CaptIsr(n)
      PROVE  (running'[m] <=> icie'[m]) /\ (running'[m] => toie'[m])
  BY <1>4 DEF CaptIsr
<1>5. ASSUME NEW n \in TimerNumber,
             OvfIsr(n) \/ Overflow(n) \/ \E t \in Count : Edge(n, t)
      PROVE  (running'[m] <=> icie'[m]) /\ (running'[m] => toie'[m])
  BY <1>5 DEF OvfIsr, Overflow, Edge
<1>6. CASE UNCHANGED vars
  BY <1>6 DEF vars
<1> QED
  BY <1>1, <1>2, <1>3, <1>4, <1>5, <1>6 DEF Next

LEMMA Invariance == Spec => []IInv
<1>1. Init => IInv
  BY ModulusAssumption
     DEF Init, IInv, TypeOK, RunningMeansArmed, PendingCaptureIsFresh,
         RunningMeansUncaptured, Count
<1>2. IInv /\ [Next]_vars => IInv'
  BY TypeStep, FreshStep, RunningStep DEF IInv
<1> QED
  BY <1>1, <1>2, PTL DEF Spec

(* The registers and globals of capture_timer.cpp keep their types.        *)
THEOREM TypeCorrect == Spec => []TypeOK
<1>1. IInv => TypeOK
  BY DEF IInv
<1> QED
  BY <1>1, Invariance, PTL

(* The interrupt handler never stores the count of an edge that came       *)
(* before armInputCapture.                                                 *)
THEOREM CapturesAreFresh == Spec => []PendingCaptureIsFresh
<1>1. IInv => PendingCaptureIsFresh
  BY DEF IInv
<1> QED
  BY <1>1, Invariance, PTL

(* timerRunning tells whether the capture is still to come. *)
THEOREM RunningTellsTheTruth == Spec => []RunningMeansUncaptured
<1>1. IInv => RunningMeansUncaptured
  BY DEF IInv
<1> QED
  BY <1>1, Invariance, PTL

(* "Capture is disarmed automatically after each successful capture": a    *)
(* timestamp is only written by stopping a running timer.                  *)
THEOREM CaptureDisarms == Spec => OneCapturePerArming
<1> DEFINE Disarms == \A n \in TimerNumber :
                        timestamp'[n] # timestamp[n] => running[n] /\ ~running'[n]
<1>1. IInv /\ [Next]_vars => [Disarms]_vars
  <2> SUFFICES ASSUME IInv, Next, NEW m \in TimerNumber,
                      timestamp'[m] # timestamp[m]
               PROVE  running[m] /\ ~running'[m]
    OBVIOUS
  <2> USE DEF IInv, TypeOK
  <2>1. ASSUME NEW n \in TimerNumber, CaptIsr(n)
        PROVE  running[m] /\ ~running'[m]
    BY <2>1 DEF CaptIsr, RunningMeansUncaptured
  <2>2. ASSUME NEW n \in TimerNumber,
               \/ DisarmInputCapture(n) \/ OvfIsr(n) \/ Overflow(n)
               \/ \E t \in Count : Edge(n, t)
        PROVE  timestamp' = timestamp
    BY <2>2 DEF DisarmInputCapture, OvfIsr, Overflow, Edge
  <2>3. InitInputCapture \/ ArmInputCapture => timestamp' = timestamp
    BY DEF InitInputCapture, ArmInputCapture, ResetCaptures, StartTimers
  <2> QED
    BY <2>1, <2>2, <2>3 DEF Next
<1> QED
  BY <1>1, Invariance, PTL DEF Spec, OneCapturePerArming
=============================================================================
