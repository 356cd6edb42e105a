------------------------ MODULE VirtualSerial_proofs ------------------------
(***************************************************************************)
(* Proofs about the virtual serial port: how long USB_USBTask waits at the *)
(* most, for all time-outs, all distances of the updates and all hosts.    *)
(***************************************************************************)
EXTENDS VirtualSerial, TLAPS

Packets == {{}} \cup {{n} : n \in 0 .. MaxOut}

TypeOK ==
  /\ at \in {"main", "send", "receive", "flush", "usb"}
  /\ timeoutMSRem \in 0 .. Timeout
  /\ frameChanged \in BOOLEAN
  /\ deviceState \in {"Default", "Configured", "Suspended"}
  /\ configured \in BOOLEAN /\ baudRate \in BOOLEAN
  /\ up \in BOOLEAN /\ written \in BOOLEAN /\ sent \in BOOLEAN
  /\ out \in Packets
  /\ setup \in {"None", "SetConfiguration", "SetLineEncoding", "Query"}
  /\ eorsti \in BOOLEAN /\ busActive \in BOOLEAN
  /\ msSince \in 0 .. MaxGap
  /\ serviceAge \in Nat /\ suspended \in Nat
  /\ unread \in 0 .. ServiceLimit

(* Time goes by between two updates, and in the wait.                      *)
AgeInMain == at = "main" => serviceAge = msSince

(* In the wait each frame is paid for with a millisecond of the time-out,  *)
(* the one that the loop has yet to see excepted; without frames, none is. *)
AgeInSend ==
  at = "send" =>
    serviceAge + timeoutMSRem
      <= MaxGap + Timeout + suspended + (IF frameChanged THEN 1 ELSE 0)

AgeAfterSend == serviceAge <= MaxGap + Timeout + 1 + suspended

(* A line that waits has waited since USB_USBTask was called, if not for   *)
(* longer.                                                                 *)
UnreadSinceService ==
  at \in {"main", "send"} /\ sent => unread = ServiceLimit \/ serviceAge <= unread

(* Endpoints that are disabled are so by a reset that is still to be seen. *)
DownMeansReset == ~up => eorsti

LateMeansUnread ==
  at = "send" /\ serviceAge > ServiceLimit => unread = ServiceLimit \/ eorsti

IInv ==
  /\ TypeOK
  /\ AgeInMain /\ AgeInSend /\ AgeAfterSend
  /\ UnreadSinceService /\ DownMeansReset /\ LateMeansUnread

-----------------------------------------------------------------------------
LEMMA Bounds ==
  /\ 0 \in 0 .. Timeout /\ Timeout \in 0 .. Timeout
  /\ 0 \in 0 .. MaxGap /\ 0 \in 0 .. ServiceLimit
  /\ 0 <= MaxGap + Timeout + 1 + 0 /\ ~(0 > ServiceLimit) /\ 0 \in Nat
  BY SerialAssumption

LEMMA InitHolds == Init => IInv
  BY Bounds
     DEF Init, IInv, TypeOK, Packets, AgeInMain, AgeInSend, AgeAfterSend,
         UnreadSinceService, DownMeansReset, LateMeansUnread

LEMMA TypeStep == TypeOK /\ [Next]_vars => TypeOK'
<1> USE DEF vars, coreVars, epVars, busVars, historyVars
<1> SUFFICES ASSUME TypeOK, [Next]_vars PROVE TypeOK'
  OBVIOUS
<1> USE DEF TypeOK
<1>1. CASE UsbGenIsr
  BY <1>1 DEF UsbGenIsr, StateOnBus
<1>2. CASE Update
  BY <1>2, Bounds DEF Update
<1>3. CASE WriteLine
  BY <1>3 DEF WriteLine
<1>4. CASE WaitForHost
  <2>1. PICK t : timeoutMSRem' = t
    OBVIOUS
  <2>2. t \in 0 .. Timeout
    BY <1>4, <2>1, SerialAssumption DEF WaitForHost, TimedOut
  <2> QED
    BY <1>4, <2>1, <2>2 DEF WaitForHost
<1>5. CASE ReceiveByte
  <2>1. out' \in Packets
    <3>1. CASE out = {}
      <4>1. UNION {LeftAfter(n) : n \in {}} = {}
        OBVIOUS
      <4> QED
        BY <1>5, <3>1, <4>1 DEF ReceiveByte, Packets
    <3>2. ASSUME NEW n \in 0 .. MaxOut, out = {n} PROVE out' \in Packets
      <4>1. UNION {LeftAfter(k) : k \in {n}} = LeftAfter(n)
        OBVIOUS
      <4>2. LeftAfter(n) \in Packets
        <5>1. CASE n <= 1
          BY <5>1 DEF LeftAfter, Packets
        <5>2. CASE ~(n <= 1)
          <6>1. n - 1 \in 0 .. MaxOut /\ LeftAfter(n) = {n - 1}
            BY <5>2, SerialAssumption DEF LeftAfter
          <6> QED
            BY <6>1 DEF Packets
        <5> QED
          BY <5>1, <5>2
      <4> QED
        BY <1>5, <3>2, <4>1, <4>2 DEF ReceiveByte
    <3> QED
      BY <3>1, <3>2 DEF Packets
  <2> QED
    BY <1>5, <2>1 DEF ReceiveByte
<1>6. CASE Flush
  BY <1>6, Bounds DEF Flush
<1>7. CASE UsbTask
  <2>1. {} \in Packets
    BY DEF Packets
  <2> QED
    BY <1>7, <2>1, Bounds DEF UsbTask
<1>8. CASE Millisecond
  <2>1. PICK f : msSince' = f
    OBVIOUS
  <2>2. PICK u : unread' = u
    OBVIOUS
  <2>3. f \in 0 .. MaxGap /\ u \in 0 .. ServiceLimit
    BY <1>8, <2>1, <2>2, SerialAssumption DEF Millisecond
  <2>4. suspended' \in Nat /\ serviceAge' \in Nat
    BY <1>8 DEF Millisecond
  <2> QED
    BY <1>8, <2>1, <2>2, <2>3, <2>4 DEF Millisecond
<1>9. CASE ReadLine
  BY <1>9 DEF ReadLine
<1>10. CASE \E n \in 0 .. MaxOut : SendPacket(n)
  BY <1>10 DEF SendPacket, Packets
<1>11. CASE \E r \in {"SetConfiguration", "SetLineEncoding", "Query"} : Post(r)
  BY <1>11 DEF Post
<1>12. CASE BusReset
  <2>1. {} \in Packets
    BY DEF Packets
  <2> QED
    BY <1>12, <2>1 DEF BusReset
<1>13. CASE Suspend \/ Resume
  BY <1>13 DEF Suspend, Resume
<1>14. CASE UNCHANGED vars
  BY <1>14
<1> QED
  BY <1>1, <1>2, <1>3, <1>4, <1>5, <1>6, <1>7, <1>8, <1>9, <1>10, <1>11, <1>12,
     <1>13, <1>14 DEF Next

(* A millisecond adds one to the ages, in the wait only while a line is    *)
(* unread or a reset is unseen.                                            *)
LEMMA MillisecondStep ==
  ASSUME IInv, Millisecond
  PROVE  /\ AgeInMain' /\ AgeInSend' /\ AgeAfterSend'
         /\ UnreadSinceService' /\ DownMeansReset' /\ LateMeansUnread'
<1> USE SerialAssumption DEF coreVars, epVars, busVars
<1>1. PICK a : serviceAge' = a
  OBVIOUS
<1>2. PICK f : msSince' = f
  OBVIOUS
<1>3. PICK u : unread' = u
  OBVIOUS
<1>4. PICK s : suspended' = s
  OBVIOUS
<1>5. /\ a = serviceAge + 1 /\ at' = at /\ timeoutMSRem' = timeoutMSRem
      /\ u = IF sent /\ unread < ServiceLimit THEN unread + 1 ELSE unread
      /\ sent' = sent /\ up' = up /\ eorsti' = eorsti
      /\ serviceAge \in Nat /\ unread \in 0 .. ServiceLimit /\ suspended \in Nat
      /\ msSince \in 0 .. MaxGap /\ timeoutMSRem \in 0 .. Timeout
  BY <1>1, <1>3 DEF Millisecond, IInv, TypeOK
<1>6. CASE at = "main"
  <2>1. /\ f = msSince + 1 /\ f <= MaxGap /\ serviceAge = msSince
        /\ s = suspended
    BY <1>2, <1>4, <1>6 DEF Millisecond, IInv, TypeOK, AgeInMain
  <2> QED
    BY <1>1, <1>2, <1>3, <1>4, <1>5, <1>6, <2>1
       DEF IInv, AgeInMain, AgeInSend, AgeAfterSend, UnreadSinceService,
           DownMeansReset, LateMeansUnread
<1>7. CASE at = "send"
  <2>1. ~INReady /\ ~frameChanged /\ frameChanged' = busActive
        /\ s = IF busActive THEN suspended ELSE suspended + 1
    BY <1>4, <1>7 DEF Millisecond
  <2>2. serviceAge + timeoutMSRem <= MaxGap + Timeout + suspended
    BY <1>5, <1>7, <2>1 DEF IInv, AgeInSend
  <2>3. sent \/ eorsti
    BY <2>1 DEF INReady, IInv, DownMeansReset
  <2>4. sent => unread = ServiceLimit \/ serviceAge <= unread
    BY <1>7 DEF IInv, UnreadSinceService
  <2>5. AgeInSend' /\ AgeAfterSend'
    <3>1. CASE busActive
      BY <1>1, <1>4, <1>5, <2>1, <2>2, <3>1 DEF AgeInSend, AgeAfterSend
    <3>2. CASE ~busActive
      BY <1>1, <1>4, <1>5, <2>1, <2>2, <3>2 DEF AgeInSend, AgeAfterSend
    <3> QED
      BY <3>1, <3>2
  <2> QED
    BY <1>1, <1>3, <1>5, <1>7, <2>3, <2>4, <2>5
       DEF IInv, AgeInMain, UnreadSinceService, DownMeansReset, LateMeansUnread
<1> QED
  BY <1>6, <1>7 DEF Millisecond

(* A round of the wait takes a frame from the time-out.                    *)
LEMMA WaitStep ==
  ASSUME IInv, WaitForHost
  PROVE  AgeInSend'
<1> USE SerialAssumption DEF coreVars, epVars, busVars, historyVars
<1>1. PICK t : timeoutMSRem' = t
  OBVIOUS
<1>2. /\ at = "send" /\ frameChanged /\ ~frameChanged' /\ serviceAge' = serviceAge
      /\ suspended' = suspended /\ suspended \in Nat
      /\ timeoutMSRem \in 0 .. Timeout /\ serviceAge \in Nat
  BY DEF WaitForHost, IInv, TypeOK
<1>3. at' = "send" => t = timeoutMSRem - 1
  BY <1>1, <1>2 DEF WaitForHost
<1> QED
  BY <1>1, <1>2, <1>3 DEF IInv, AgeInSend

LEMMA AgeStep == IInv /\ [Next]_vars => IInv'
<1> SUFFICES ASSUME IInv, [Next]_vars PROVE IInv'
  OBVIOUS
<1> USE SerialAssumption
    DEF vars, coreVars, epVars, busVars, historyVars
<1>1. TypeOK'
  BY TypeStep DEF IInv
<1> DEFINE Ages == /\ AgeInMain /\ AgeInSend /\ AgeAfterSend
                   /\ UnreadSinceService /\ DownMeansReset /\ LateMeansUnread
<1> SUFFICES Ages'
  BY <1>1 DEF IInv
<1> USE DEF AgeInMain, AgeInSend, AgeAfterSend, UnreadSinceService,
            DownMeansReset, LateMeansUnread
<1>2. CASE UsbGenIsr
  BY <1>2 DEF UsbGenIsr, IInv
<1>3. CASE Update
  BY <1>3 DEF Update, IInv, TypeOK
<1>4. CASE WriteLine
  BY <1>4 DEF WriteLine, IInv
<1>5. CASE WaitForHost
  BY <1>5, WaitStep DEF WaitForHost, IInv
<1>6. CASE ReceiveByte
  BY <1>6 DEF ReceiveByte, IInv
<1>7. CASE Flush
  BY <1>7 DEF Flush, IInv
<1>8. CASE UsbTask
  BY <1>8 DEF UsbTask, IInv, TypeOK
<1>9. CASE Millisecond
  BY <1>9, MillisecondStep
<1>10. CASE ReadLine
  BY <1>10 DEF ReadLine, IInv
<1>11. CASE \E n \in 0 .. MaxOut : SendPacket(n)
  BY <1>11 DEF SendPacket, IInv
<1>12. CASE \E r \in {"SetConfiguration", "SetLineEncoding", "Query"} : Post(r)
  BY <1>12 DEF Post, IInv
<1>13. CASE BusReset
  BY <1>13 DEF BusReset, IInv
<1>14. CASE Suspend \/ Resume
  BY <1>14 DEF Suspend, Resume, IInv
<1>15. CASE UNCHANGED vars
  BY <1>15 DEF IInv
<1> QED
  BY <1>2, <1>3, <1>4, <1>5, <1>6, <1>7, <1>8, <1>9, <1>10, <1>11, <1>12, <1>13,
     <1>14, <1>15 DEF Next

(* The inductive invariant.                                                *)
THEOREM Invariance == Spec => []IInv
  BY InitHolds, AgeStep, PTL DEF Spec

(* The handler's steps, the time-out and the state of the endpoints keep   *)
(* their types; the time-out never counts below 0.                         *)
THEOREM TypeCorrect == Spec => []TypeOK
<1>1. IInv => TypeOK
  BY DEF IInv
<1> QED
  BY <1>1, Invariance, PTL

(* The wait in CDC_Device_SendString keeps USB_USBTask from running for at *)
(* most the time-out, the distance of two updates and the time for which   *)
(* the bus is suspended in the wait, and past the limit only if the host   *)
(* has left a line unread for as long, or has reset the bus.               *)
THEOREM DelayIsBounded == Spec => []ServiceDelay
<1>1. IInv => ServiceDelay
  BY DEF IInv, AgeAfterSend, LateMeansUnread, ServiceDelay
<1> QED
  BY <1>1, Invariance, PTL

(* A line that is written is sent before the handler returns, or is lost   *)
(* to a reset: CDC_Device_USBTask finds the bank free, as SendString did.  *)
NothingLeftWritten ==
  /\ written => at \in {"receive", "flush"} /\ ~sent /\ up
  /\ written \/ at = "send" => Connected

LEMMA WrittenStep == IInv /\ NothingLeftWritten /\ [Next]_vars => NothingLeftWritten'
<1> SUFFICES ASSUME IInv, NothingLeftWritten, [Next]_vars
             PROVE  NothingLeftWritten'
  OBVIOUS
<1> USE DEF IInv, TypeOK, NothingLeftWritten, Connected, INReady,
            vars, coreVars, epVars, busVars, historyVars
<1>1. CASE UsbGenIsr
  BY <1>1 DEF UsbGenIsr
<1>2. CASE Update
  BY <1>2 DEF Update
<1>3. CASE WriteLine
  BY <1>3 DEF WriteLine
<1>4. CASE WaitForHost
  BY <1>4 DEF WaitForHost
<1>5. CASE ReceiveByte
  BY <1>5 DEF ReceiveByte
<1>6. CASE Flush
  BY <1>6 DEF Flush, CanFlush
<1>7. CASE UsbTask
  BY <1>7 DEF UsbTask
<1>8. CASE Millisecond
  BY <1>8 DEF Millisecond
<1>9. CASE ReadLine
  BY <1>9 DEF ReadLine
<1>10. CASE \E n \in 0 .. MaxOut : SendPacket(n)
  BY <1>10 DEF SendPacket
<1>11. CASE \E r \in {"SetConfiguration", "SetLineEncoding", "Query"} : Post(r)
  BY <1>11 DEF Post
<1>12. CASE BusReset
  BY <1>12 DEF BusReset
<1>13. CASE Suspend \/ Resume
  BY <1>13 DEF Suspend, Resume
<1>14. CASE UNCHANGED vars
  BY <1>14
<1> QED
  BY <1>1, <1>2, <1>3, <1>4, <1>5, <1>6, <1>7, <1>8, <1>9, <1>10, <1>11, <1>12,
     <1>13, <1>14 DEF Next

(* No update finds a line in the bank that is not sent: there is one wait  *)
(* in an update, and a packet is a line, as the model has it.              *)
THEOREM APacketIsALine == Spec => [](at \in {"main", "send"} => ~written)
<1>1. Init => NothingLeftWritten
  BY DEF Init, NothingLeftWritten
<1>2. NothingLeftWritten => (at \in {"main", "send"} => ~written)
  BY DEF NothingLeftWritten
<1> QED
  BY <1>1, <1>2, WrittenStep, Invariance, PTL DEF Spec

(* What the comment in handleUsb() promises would hold with a time-out that *)
(* fits between the updates and the limit, if the bus is not suspended in  *)
(* the wait; the 100 of the program does not fit.                          *)
THEOREM ShortTimeoutIsInTime ==
  ASSUME MaxGap + Timeout + 1 <= ServiceLimit
  PROVE  Spec => [](suspended = 0 => UsbTaskInTime)
<1>1. IInv => (suspended = 0 => UsbTaskInTime)
  BY SerialAssumption DEF IInv, TypeOK, AgeAfterSend, UsbTaskInTime
<1> QED
  BY <1>1, Invariance, PTL
=============================================================================
