------------------------ MODULE ControlTransfer_proofs ------------------------
(***************************************************************************)
(* Proofs about control transfers, for every size of the control endpoint, *)
(* all requests, and a host that may give up requests of any kind.         *)
(***************************************************************************)
EXTENDS ControlTransfer, TLAPS

(* Nothing waits in the endpoint when the stream is about to write to it.  *)
PacketGoesToFreeBank == at = "packet" => bank = {}

(* A setup packet in the endpoint is new, and then nothing of its answer   *)
(* has been written or read, unless it cut off another request.            *)
SetupIsNew ==
  setup /\ ~cut => /\ received = 0 /\ bank = {}
                   /\ \/ at = "idle"
                      \/ at = "finish" /\ asking.kind = "unknown"

(* A setup packet that cut off another stays where it is until the end of  *)
(* that one's handler, which stalls it.                                    *)
CutWaitsForStall ==
  cut => /\ at # "idle" => setup
         /\ at = "idle" => ~setup /\ stalled

(* A host that gives up is between two requests.                           *)
GivenUpIsOver == gaveUp => stage = "idle"

(* A host that has data to write has not written all of it.                *)
DataIsDue ==
  stage = "data" /\ ~ToHost(asking) => received < asking.asked

(* A packet from the host is not there together with a setup packet, and a *)
(* status packet is one that the handler waits for.                        *)
OutIsExpected ==
  out # {} =>
    /\ ~setup
    /\ ToHost(asking) => /\ stage = "idle" /\ ~gaveUp
                         /\ at \in {"data", "packet", "await", "statusOut"}

(* While the host is at a request that was taken and is not refused, the   *)
(* handler is at the same request.                                         *)
HandlerServes ==
  stage # "idle" /\ Open =>
    /\ asking.kind = "read" => at \in {"data", "packet", "await"}
    /\ asking.kind = "value" => at = "statusOut"
    /\ asking.kind # "unknown"

(* All of a stream, with the report ID in front of it, is received, in the *)
(* endpoint, or still to be written, and only its last packet is not full. *)
StreamConserved ==
  stage = "data" /\ Open /\ asking.kind = "read" =>
    \/ bank = {} /\ received + length = AnswerLength(asking)
    \/ \E n \in 0 .. EpSize :
         /\ bank = {n} /\ received + n + length = AnswerLength(asking)
         /\ n < EpSize => length = 0

ValueConserved ==
  stage = "data" /\ Open /\ asking.kind = "value" =>
    received = 0 /\ bank = {asking.size}

(* All of a SetReport is taken, in the endpoint, or still to be written,   *)
(* and the status stage opens when all of it is taken.                     *)
Taken(r) ==
  \/ /\ at = "take" /\ out = {} /\ bank = {}
     /\ received + length = r.asked
  \/ /\ at \in {"take", "reading"} /\ bank = {}
     /\ \E n \in 1 .. EpSize : out = {n} /\ received + length = r.asked + n
  \/ /\ at \in {"finish", "idle"} /\ out = {} /\ bank = {0}
     /\ received = r.asked /\ length = 0

WriteConserved ==
  stage # "idle" /\ Open /\ asking.kind = "write" =>
    request = asking /\ Taken(asking)

Flow == /\ PacketGoesToFreeBank /\ SetupIsNew /\ CutWaitsForStall
        /\ GivenUpIsOver /\ DataIsDue /\ OutIsExpected /\ HandlerServes

Data == /\ StreamConserved /\ ValueConserved /\ WriteConserved
        /\ DataComplete /\ ReceivedWithinAsked

Refusals == CutRequestsGetNothing /\ OnlyUnknownStalled

IInv == TypeOK /\ Flow /\ Data /\ Refusals

-----------------------------------------------------------------------------
(* What the stream writes fits the endpoint and what it sends the request. *)
LEMMA PacketFits ==
  ASSUME TypeOK
  PROVE  /\ PacketSize \in 0 .. EpSize /\ length - PacketSize \in Nat
         /\ PacketSize < EpSize => length - PacketSize = 0
  BY TransferAssumption DEF TypeOK, PacketSize

LEMMA LengthFits ==
  ASSUME NEW r \in Requests
  PROVE  /\ LengthToSend(r) \in Nat /\ LengthToSend(r) <= r.asked
         /\ AnswerLength(r) \in Nat /\ AnswerLength(r) <= r.asked + r.id
         /\ r.id = 0 => AnswerLength(r) = LengthToSend(r)
  BY TransferAssumption DEF LengthToSend, AnswerLength

(* The packets in which the host writes are cut down to what is left.      *)
HostPacket == LET left == asking.asked - received
              IN  IF left < EpSize THEN left ELSE EpSize

LEMMA HostPacketFits ==
  ASSUME TypeOK, ReceivedWithinAsked, HostOut
  PROVE  /\ HostPacket \in 0 .. EpSize
         /\ out' = {HostPacket} /\ received' = received + HostPacket
         /\ received' <= asking.asked
         /\ stage' = IF received' = asking.asked THEN "status" ELSE "data"
         /\ received < asking.asked => HostPacket > 0
<1>1. asking.asked \in Nat /\ received \in Nat /\ received <= asking.asked
  BY TransferAssumption DEF TypeOK, ReceivedWithinAsked, HostOut, ToHost
<1>2. HostPacket \in 0 .. EpSize /\ received + HostPacket <= asking.asked
      /\ (received < asking.asked => HostPacket > 0)
  BY <1>1, TransferAssumption DEF HostPacket
<1>3. /\ out' = {HostPacket} /\ received' = received + HostPacket
      /\ stage' = IF HostPacket = asking.asked - received THEN "status" ELSE "data"
  BY DEF HostOut, HostPacket
<1> QED
  BY <1>1, <1>2, <1>3

(* All variables keep their types, and packets fit the control endpoint.   *)
LEMMA TypeStep == TypeOK /\ ReceivedWithinAsked /\ [Next]_vars => TypeOK'
<1> SUFFICES ASSUME TypeOK, ReceivedWithinAsked, [Next]_vars PROVE TypeOK'
  OBVIOUS
<1> USE DEF TypeOK, Waits, Stages, handlerVars, fifoVars, hostVars
<1>1. CASE BeginRead
  <2>1. LengthToSend(asking) \in Nat
    BY LengthFits
  <2> QED
    BY <1>1, <2>1 DEF BeginRead
<1>2. CASE BeginValue
  <2>1. asking.size \in 0 .. EpSize
    BY <1>2, TransferAssumption DEF BeginValue
  <2> QED
    BY <1>2, <2>1 DEF BeginValue
<1>3. CASE BeginCommand
  BY <1>3 DEF BeginCommand
<1>4. CASE BeginUnknown
  BY <1>4 DEF BeginUnknown
<1>5. CASE PacketDue
  BY <1>5 DEF PacketDue
<1>6. CASE SendPacket
  BY <1>6, PacketFits DEF SendPacket
<1>7. CASE DataDone
  BY <1>7 DEF DataDone
<1>8. CASE StreamDone
  BY <1>8 DEF StreamDone
<1>9. CASE StreamAborted
  BY <1>9 DEF StreamAborted
<1>10. CASE StatusOut
  BY <1>10 DEF StatusOut
<1>11. CASE StatusIn
  BY <1>11, TransferAssumption DEF StatusIn
<1>12. CASE AddressIn
  BY <1>12 DEF AddressIn
<1>13. CASE Finish
  BY <1>13 DEF Finish
<1>14. ASSUME NEW r \in Requests, HostSetup(r)
      PROVE  TypeOK'
  BY <1>14 DEF HostSetup
<1>15. CASE HostIn
  BY <1>15 DEF HostIn
<1>16. CASE HostStatusOut
  BY <1>16, TransferAssumption DEF HostStatusOut
<1>17. CASE HostStatusIn
  BY <1>17 DEF HostStatusIn
<1>18. CASE HostSeesStall
  BY <1>18 DEF HostSeesStall
<1>19. CASE HostGivesUp
  BY <1>19 DEF HostGivesUp
<1>20. CASE UNCHANGED vars
  BY <1>20 DEF vars
<1>21. CASE BeginWrite
  BY <1>21, TransferAssumption DEF BeginWrite
<1>22. CASE PacketComing
  BY <1>22 DEF PacketComing
<1>23. CASE ReadPacket
  BY <1>23 DEF ReadPacket
<1>24. CASE ReadDone
  BY <1>24, TransferAssumption DEF ReadDone
<1>25. CASE ReadAborted
  BY <1>25, TransferAssumption DEF ReadAborted
<1>26. CASE BeginBlock
  BY <1>26 DEF BeginBlock
<1>27. CASE BlockRead
  BY <1>27 DEF BlockRead
<1>28. CASE HostOut
  BY <1>28, HostPacketFits DEF HostOut
<1>29. CASE BeginReport
  <2>1. AnswerLength(asking) \in Nat
    BY LengthFits
  <2> QED
    BY <1>29, <2>1 DEF BeginReport
<1> QED
  BY <1>1, <1>2, <1>3, <1>4, <1>5, <1>6, <1>7, <1>8, <1>9, <1>10, <1>11,
     <1>12, <1>13, <1>14, <1>15, <1>16, <1>17, <1>18, <1>19, <1>20,
     <1>21, <1>22, <1>23, <1>24, <1>25, <1>26, <1>27, <1>28, <1>29 DEF
     Next, Handler, SomeSetup, Answer

(* Handler and host stay in step, whatever the host gives up.              *)
LEMMA FlowStep == TypeOK /\ ReceivedWithinAsked /\ Flow /\ [Next]_vars => Flow'
<1> SUFFICES ASSUME TypeOK, ReceivedWithinAsked, Flow, [Next]_vars PROVE Flow'
  OBVIOUS
<1> USE TransferAssumption
    DEF TypeOK, Flow, PacketGoesToFreeBank, SetupIsNew, CutWaitsForStall,
        GivenUpIsOver, DataIsDue, OutIsExpected, HandlerServes, Open, ToHost, Waits,
        Stages, INReady,
        handlerVars, fifoVars, hostVars
<1>1. CASE BeginRead
  BY <1>1 DEF BeginRead
<1>2. CASE BeginValue
  BY <1>2 DEF BeginValue
<1>3. CASE BeginCommand
  BY <1>3 DEF BeginCommand
<1>4. CASE BeginUnknown
  BY <1>4 DEF BeginUnknown
<1>5. CASE PacketDue
  BY <1>5 DEF PacketDue
<1>6. CASE SendPacket
  BY <1>6, PacketFits DEF SendPacket
<1>7. CASE DataDone
  BY <1>7 DEF DataDone
<1>8. CASE StreamDone
  BY <1>8 DEF StreamDone
<1>9. CASE StreamAborted
  BY <1>9 DEF StreamAborted
<1>10. CASE StatusOut
  BY <1>10 DEF StatusOut
<1>11. CASE StatusIn
  BY <1>11 DEF StatusIn
<1>12. CASE AddressIn
  BY <1>12 DEF AddressIn
<1>13. CASE Finish
  BY <1>13 DEF Finish
<1>14. ASSUME NEW r \in Requests, HostSetup(r)
      PROVE  Flow'
  BY <1>14 DEF HostSetup, HasData
<1>15. CASE HostIn
  BY <1>15 DEF HostIn
<1>16. CASE HostStatusOut
  BY <1>16 DEF HostStatusOut
<1>17. CASE HostStatusIn
  BY <1>17 DEF HostStatusIn
<1>18. CASE HostSeesStall
  BY <1>18 DEF HostSeesStall
<1>19. CASE HostGivesUp
  BY <1>19 DEF HostGivesUp
<1>20. CASE UNCHANGED vars
  BY <1>20 DEF vars
<1>21. CASE BeginWrite
  BY <1>21 DEF BeginWrite
<1>22. CASE PacketComing
  BY <1>22 DEF PacketComing
<1>23. CASE ReadPacket
  BY <1>23 DEF ReadPacket
<1>24. CASE ReadDone
  BY <1>24 DEF ReadDone
<1>25. CASE ReadAborted
  BY <1>25 DEF ReadAborted
<1>26. CASE BeginBlock
  BY <1>26 DEF BeginBlock
<1>27. CASE BlockRead
  BY <1>27 DEF BlockRead
<1>28. CASE HostOut
  BY <1>28, HostPacketFits DEF HostOut
<1>29. CASE BeginReport
  BY <1>29 DEF BeginReport
<1> QED
  BY <1>1, <1>2, <1>3, <1>4, <1>5, <1>6, <1>7, <1>8, <1>9, <1>10, <1>11,
     <1>12, <1>13, <1>14, <1>15, <1>16, <1>17, <1>18, <1>19, <1>20,
     <1>21, <1>22, <1>23, <1>24, <1>25, <1>26, <1>27, <1>28, <1>29 DEF
     Next, Handler, SomeSetup, Answer

(* No byte of a stream is lost or sent twice, and none is sent that the    *)
(* host has not asked for.                                                 *)
LEMMA DataStep == TypeOK /\ Flow /\ Data /\ [Next]_vars => Data'
<1> SUFFICES ASSUME TypeOK, Flow, Data, [Next]_vars PROVE Data'
  OBVIOUS
<1> USE TransferAssumption
    DEF TypeOK, Flow, PacketGoesToFreeBank, SetupIsNew, CutWaitsForStall,
        GivenUpIsOver, DataIsDue, OutIsExpected, HandlerServes, Open, ToHost, Waits,
        Stages, INReady,
        Data, StreamConserved, ValueConserved, WriteConserved, Taken,
        DataComplete,
        ReceivedWithinAsked, handlerVars, fifoVars, hostVars
<1>1. CASE BeginRead
  BY <1>1, LengthFits DEF BeginRead
<1>2. CASE BeginValue
  BY <1>2 DEF BeginValue
<1>3. CASE BeginCommand
  BY <1>3 DEF BeginCommand
<1>4. CASE BeginUnknown
  BY <1>4 DEF BeginUnknown
<1>5. CASE PacketDue
  BY <1>5 DEF PacketDue
<1>6. CASE SendPacket
  <2>1. /\ PacketSize \in 0 .. EpSize
        /\ PacketSize < EpSize => length' = 0
        /\ received' + PacketSize + length' = received + length
        /\ bank = {} /\ bank' = {PacketSize}
    BY <1>6, PacketFits DEF SendPacket
  <2>2. StreamConserved'
    <3>1. \A n \in 0 .. EpSize : bank # {n}
      BY <2>1
    <3>2. AnswerLength(asking)' = AnswerLength(asking)
      BY <1>6 DEF SendPacket, AnswerLength, LengthToSend
    <3>3. /\ stage' = stage /\ asking' = asking
          /\ setup' = setup /\ stalled' = stalled
      BY <1>6 DEF SendPacket
    <3>4. SUFFICES ASSUME stage = "data", ~setup, ~stalled, asking.kind = "read"
                   PROVE  \E n \in 0 .. EpSize :
                            /\ bank' = {n}
                            /\ received' + n + length' = AnswerLength(asking)
                            /\ n < EpSize => length' = 0
      BY <3>2, <3>3
    <3>5. received + length = AnswerLength(asking)
      BY <2>1, <3>1, <3>4
    <3> QED
      BY <2>1, <3>5
  <2>3. ValueConserved' /\ WriteConserved' /\ DataComplete' /\ ReceivedWithinAsked'
    BY <1>6 DEF SendPacket, AnswerLength, LengthToSend
  <2> QED
    BY <2>2, <2>3
<1>7. CASE DataDone
  BY <1>7 DEF DataDone
<1>8. CASE StreamDone
  BY <1>8 DEF StreamDone
<1>9. CASE StreamAborted
  BY <1>9 DEF StreamAborted
<1>10. CASE StatusOut
  BY <1>10 DEF StatusOut
<1>11. CASE StatusIn
  BY <1>11 DEF StatusIn
<1>12. CASE AddressIn
  BY <1>12 DEF AddressIn
<1>13. CASE Finish
  BY <1>13 DEF Finish
<1>14. ASSUME NEW r \in Requests, HostSetup(r)
      PROVE  Data'
  BY <1>14 DEF HostSetup, HasData
<1>15. CASE HostIn
  <2>1. PICK n \in bank :
          /\ received' = received + n
          /\ stage' = IF n < EpSize \/ received + n >= asking.asked
                        THEN "status" ELSE "data"
    BY <1>15 DEF HostIn
  <2>2. n \in 0 .. EpSize /\ bank = {n} /\ bank' = {} /\ asking' = asking
        /\ length' = length /\ stage = "data" /\ Open
    BY <1>15, <2>1 DEF HostIn
  <2>3. /\ AnswerLength(asking) \in Nat
        /\ AnswerLength(asking) <= asking.asked + asking.id
        /\ AnswerLength(asking)' = AnswerLength(asking)
        /\ asking.id \in {0, 1} /\ asking.asked \in Nat
    BY <2>2, LengthFits DEF AnswerLength, LengthToSend
  <2>4. CASE asking.kind = "read"
    <3>1. /\ received + n + length = AnswerLength(asking)
          /\ n < EpSize => length = 0
      BY <2>2, <2>4
    <3> QED
      BY <2>1, <2>2, <2>3, <2>4, <3>1
  <2>5. CASE asking.kind = "value"
    <3>1. received = 0 /\ n = asking.size /\ n < EpSize
      BY <2>2, <2>5
    <3> QED
      BY <2>1, <2>2, <2>5, <3>1
  <2>6. asking.kind \in {"read", "value"}
    BY <1>15, <2>2 DEF HostIn
  <2> QED
    BY <2>4, <2>5, <2>6
<1>16. CASE HostStatusOut
  BY <1>16 DEF HostStatusOut
<1>17. CASE HostStatusIn
  BY <1>17 DEF HostStatusIn
<1>18. CASE HostSeesStall
  BY <1>18 DEF HostSeesStall
<1>19. CASE HostGivesUp
  BY <1>19 DEF HostGivesUp
<1>20. CASE UNCHANGED vars
  BY <1>20 DEF vars
<1>21. CASE BeginWrite
  BY <1>21 DEF BeginWrite
<1>22. CASE PacketComing
  BY <1>22 DEF PacketComing
<1>23. CASE ReadPacket
  BY <1>23 DEF ReadPacket
<1>24. CASE ReadDone
  BY <1>24 DEF ReadDone
<1>25. CASE ReadAborted
  BY <1>25 DEF ReadAborted
<1>26. CASE BeginBlock
  BY <1>26 DEF BeginBlock
<1>27. CASE BlockRead
  BY <1>27 DEF BlockRead
<1>28. CASE HostOut
  BY <1>28 DEF HostOut
<1>29. CASE BeginReport
  BY <1>29, LengthFits DEF BeginReport
<1> QED
  BY <1>1, <1>2, <1>3, <1>4, <1>5, <1>6, <1>7, <1>8, <1>9, <1>10, <1>11,
     <1>12, <1>13, <1>14, <1>15, <1>16, <1>17, <1>18, <1>19, <1>20,
     <1>21, <1>22, <1>23, <1>24, <1>25, <1>26, <1>27, <1>28, <1>29 DEF
     Next, Handler, SomeSetup, Answer

(* A request is refused only when nobody knows it or it cut off another,   *)
(* and the latter always.                                                  *)
LEMMA RefusalStep == TypeOK /\ Flow /\ Refusals /\ [Next]_vars => Refusals'
<1> SUFFICES ASSUME TypeOK, Flow, Refusals, [Next]_vars PROVE Refusals'
  OBVIOUS
<1> USE DEF TypeOK, Flow, SetupIsNew, CutWaitsForStall, Open, Waits, Stages,
            Refusals, CutRequestsGetNothing, OnlyUnknownStalled,
            handlerVars, fifoVars, hostVars
<1>1. CASE BeginRead
  BY <1>1 DEF BeginRead
<1>2. CASE BeginValue
  BY <1>2 DEF BeginValue
<1>3. CASE BeginCommand
  BY <1>3 DEF BeginCommand
<1>4. CASE BeginUnknown
  BY <1>4 DEF BeginUnknown
<1>5. CASE PacketDue
  BY <1>5 DEF PacketDue
<1>6. CASE SendPacket
  BY <1>6 DEF SendPacket
<1>7. CASE DataDone
  BY <1>7 DEF DataDone
<1>8. CASE StreamDone
  BY <1>8 DEF StreamDone
<1>9. CASE StreamAborted
  BY <1>9 DEF StreamAborted
<1>10. CASE StatusOut
  BY <1>10 DEF StatusOut
<1>11. CASE StatusIn
  BY <1>11 DEF StatusIn
<1>12. CASE AddressIn
  BY <1>12 DEF AddressIn
<1>13. CASE Finish
  BY <1>13 DEF Finish
<1>14. ASSUME NEW r \in Requests, HostSetup(r)
      PROVE  Refusals'
  BY <1>14 DEF HostSetup
<1>15. CASE HostIn
  BY <1>15 DEF HostIn
<1>16. CASE HostStatusOut
  BY <1>16 DEF HostStatusOut
<1>17. CASE HostStatusIn
  BY <1>17 DEF HostStatusIn
<1>18. CASE HostSeesStall
  BY <1>18 DEF HostSeesStall
<1>19. CASE HostGivesUp
  BY <1>19 DEF HostGivesUp
<1>20. CASE UNCHANGED vars
  BY <1>20 DEF vars
<1>21. CASE BeginWrite
  BY <1>21 DEF BeginWrite
<1>22. CASE PacketComing
  BY <1>22 DEF PacketComing
<1>23. CASE ReadPacket
  BY <1>23 DEF ReadPacket
<1>24. CASE ReadDone
  BY <1>24 DEF ReadDone
<1>25. CASE ReadAborted
  BY <1>25 DEF ReadAborted
<1>26. CASE BeginBlock
  BY <1>26 DEF BeginBlock
<1>27. CASE BlockRead
  BY <1>27 DEF BlockRead
<1>28. CASE HostOut
  BY <1>28 DEF HostOut
<1>29. CASE BeginReport
  BY <1>29 DEF BeginReport
<1> QED
  BY <1>1, <1>2, <1>3, <1>4, <1>5, <1>6, <1>7, <1>8, <1>9, <1>10, <1>11,
     <1>12, <1>13, <1>14, <1>15, <1>16, <1>17, <1>18, <1>19, <1>20,
     <1>21, <1>22, <1>23, <1>24, <1>25, <1>26, <1>27, <1>28, <1>29 DEF
     Next, Handler, SomeSetup, Answer

(* Between two transfers everything holds.                                 *)
LEMMA InitHolds == Init => IInv
<1> SUFFICES ASSUME Init PROVE IInv
  OBVIOUS
<1> USE TransferAssumption DEF Init
<1>1. TypeOK
  BY DEF TypeOK, Waits, Stages
<1>2. Flow
  BY DEF Flow, PacketGoesToFreeBank, SetupIsNew, CutWaitsForStall,
         GivenUpIsOver, DataIsDue, OutIsExpected, HandlerServes
<1>3. Data
  <2>1. asking.asked \in Nat
    OBVIOUS
  <2> QED
    BY <2>1 DEF Data, StreamConserved, ValueConserved, WriteConserved, Taken,
        DataComplete,
                ReceivedWithinAsked
<1>4. Refusals
  BY DEF Refusals, CutRequestsGetNothing, OnlyUnknownStalled
<1> QED
  BY <1>1, <1>2, <1>3, <1>4 DEF IInv

(* The inductive invariant.                                                *)
THEOREM Invariance == Spec => []IInv
<1>1. IInv /\ [Next]_vars => IInv'
  BY TypeStep, FlowStep, DataStep, RefusalStep DEF IInv, Flow, Data
<1> QED
  BY InitHolds, <1>1, PTL DEF Spec

(* All variables keep their types; no packet is larger than the endpoint.  *)
THEOREM TypeCorrect == Spec => []TypeOK
<1>1. IInv => TypeOK
  BY DEF IInv, Data, Refusals
<1> QED
  BY Invariance, <1>1, PTL

(* The host has all of a descriptor or report when its data stage ends, and*)
(* the device all of a SetReport when it says that it is done, at any      *)
(* length, any wLength and any size of the endpoint.                       *)
THEOREM StreamsAreComplete == Spec => []DataComplete
<1>1. IInv => DataComplete
  BY DEF IInv, Data, Refusals
<1> QED
  BY Invariance, <1>1, PTL

(* The host never gets more than wLength, but for a report ID on top of a  *)
(* whole wLength and an answer of one packet.                              *)
THEOREM StreamsAreCutToLength == Spec => []ReceivedWithinAsked
<1>1. IInv => ReceivedWithinAsked
  BY DEF IInv, Data, Refusals
<1> QED
  BY Invariance, <1>1, PTL

(* A request that cuts off another, of whatever kind, is stalled and gets  *)
(* nothing of the other's answer.                                          *)
THEOREM CutRequestsAreRefused == Spec => []CutRequestsGetNothing
<1>1. IInv => CutRequestsGetNothing
  BY DEF IInv, Data, Refusals
<1> QED
  BY Invariance, <1>1, PTL

(* A known request is stalled only if it cut off another.                  *)
THEOREM RefusalsAreJustified == Spec => []OnlyUnknownStalled
<1>1. IInv => OnlyUnknownStalled
  BY DEF IInv, Data, Refusals
<1> QED
  BY Invariance, <1>1, PTL

-----------------------------------------------------------------------------
(* Where handler and host wait for each other.  A setup packet in the      *)
(* endpoint has ended the stall, and the host that sent it waits for the   *)
(* answer.                                                                 *)
SetupIsHeard == /\ setup => ~stalled
                /\ setup /\ ~gaveUp => stage # "idle"

StallComesLast == stalled => at = "idle"

(* The handler is at the request that the host is at, or at one that the   *)
(* host gave up.                                                           *)
ServesRequest ==
  /\ at # "idle" /\ ~cut => request = asking
  /\ at # "idle" /\ cut => request.kind \in Troubled
  /\ gaveUp => asking.kind \in Troubled

(* Each kind of request has its waits.                                     *)
KindOfWait ==
  /\ at \in {"data", "packet", "await"} => request.kind = "read"
  /\ at = "statusOut" => request.kind = "value"
  /\ at \in {"take", "reading"} => request.kind = "write"
  /\ at = "blockOut" => request.kind = "block"
  /\ at = "statusIn" => request.kind \in {"command", "address", "block"}
  /\ at = "addressIn" => request.kind = "address"

(* Nothing goes to the host before its data is taken.                      *)
BankIsFree == at \in {"take", "reading", "blockOut", "statusIn"} => bank = {}

Serving ==
  SetupIsHeard /\ StallComesLast /\ ServesRequest /\ KindOfWait /\ BankIsFree

PacketIsThere == at = "reading" => setup \/ out # {}

StreamIsWritten == at = "await" => out # {} \/ (length = 0 /\ ~lastPacketFull)

(* The host sees the end of a stream, by a packet that is not full.        *)
EndIsSeen ==
  stage = "data" /\ Open /\ asking.kind = "read" /\ length = 0 /\ ~lastPacketFull =>
    bank # {} /\ \A n \in bank : n < EpSize

StageIsReal ==
  /\ stage = "data" => HasData(asking)
  /\ stage = "status" /\ setup => ~HasData(asking)
  /\ stage = "status" /\ asking.kind = "write" => received = asking.asked

(* A host that has come to the end has said so, or heard it.               *)
EndIsTold ==
  stage = "idle" /\ ~cut /\ ~gaveUp =>
    /\ at \in {"data", "packet", "await", "statusOut"} => out # {}
    /\ at \notin {"take", "reading", "blockOut", "statusIn"}
    /\ at = "addressIn" => bank = {}

(* The status of a command, and that of a block when it is read, is coming *)
(* or is there.                                                            *)
StatusComes ==
  stage # "idle" /\ Open =>
    /\ asking.kind \in {"command", "address"} =>
         \/ at = "statusIn"
         \/ at \in {"addressIn", "finish", "idle"} /\ bank # {}
    /\ asking.kind = "block" =>
         \/ at = "blockOut" /\ stage = "data" /\ out = {} /\ received = 0
         \/ at = "blockOut" /\ stage = "status" /\ out # {}
         \/ at = "statusIn" /\ stage = "status"
         \/ at \in {"finish", "idle"} /\ stage = "status" /\ bank # {}

Progress ==
  PacketIsThere /\ StreamIsWritten /\ EndIsSeen /\ StageIsReal /\ EndIsTold
    /\ StatusComes

LEMMA ServingStep ==
  ASSUME TypeOK, Flow, Serving, [Next]_vars
  PROVE  Serving'
<1> USE TransferAssumption
    DEF TypeOK, Flow, PacketGoesToFreeBank, SetupIsNew, CutWaitsForStall,
        GivenUpIsOver, Open, ToHost, HasData, Waits, Stages, INReady, Serving,
        SetupIsHeard, StallComesLast, ServesRequest, KindOfWait, BankIsFree,
        handlerVars, fifoVars, hostVars
<1>1. CASE BeginRead
  BY <1>1 DEF BeginRead
<1>2. CASE BeginValue
  BY <1>2 DEF BeginValue
<1>3. CASE BeginCommand
  BY <1>3 DEF BeginCommand
<1>4. CASE BeginUnknown
  BY <1>4 DEF BeginUnknown
<1>5. CASE PacketDue
  BY <1>5 DEF PacketDue
<1>6. CASE SendPacket
  BY <1>6 DEF SendPacket
<1>7. CASE DataDone
  BY <1>7 DEF DataDone
<1>8. CASE StreamDone
  BY <1>8 DEF StreamDone
<1>9. CASE StreamAborted
  BY <1>9 DEF StreamAborted
<1>10. CASE BeginWrite
  BY <1>10 DEF BeginWrite
<1>11. CASE PacketComing
  BY <1>11 DEF PacketComing
<1>12. CASE ReadPacket
  BY <1>12 DEF ReadPacket
<1>13. CASE ReadDone
  BY <1>13 DEF ReadDone
<1>14. CASE ReadAborted
  BY <1>14 DEF ReadAborted
<1>15. CASE BeginBlock
  BY <1>15 DEF BeginBlock
<1>16. CASE BlockRead
  BY <1>16 DEF BlockRead
<1>17. CASE StatusOut
  BY <1>17 DEF StatusOut
<1>18. CASE StatusIn
  BY <1>18 DEF StatusIn
<1>19. CASE AddressIn
  BY <1>19 DEF AddressIn
<1>20. CASE Finish
  BY <1>20 DEF Finish
<1>21. ASSUME NEW r \in Requests, HostSetup(r)
      PROVE  Serving'
  BY <1>21 DEF HostSetup
<1>22. CASE HostIn
  BY <1>22 DEF HostIn
<1>23. CASE HostOut
  BY <1>23 DEF HostOut
<1>24. CASE HostStatusOut
  BY <1>24 DEF HostStatusOut
<1>25. CASE HostStatusIn
  BY <1>25 DEF HostStatusIn
<1>26. CASE HostSeesStall
  BY <1>26 DEF HostSeesStall
<1>27. CASE HostGivesUp
  BY <1>27 DEF HostGivesUp
<1>28. CASE UNCHANGED vars
  BY <1>28 DEF vars
<1>29. CASE BeginReport
  BY <1>29 DEF BeginReport
<1> QED
  BY <1>1, <1>2, <1>3, <1>4, <1>5, <1>6, <1>7, <1>8, <1>9, <1>10, <1>11,
     <1>12, <1>13, <1>14, <1>15, <1>16, <1>17, <1>18, <1>19, <1>20,
     <1>21, <1>22, <1>23, <1>24, <1>25, <1>26, <1>27, <1>28, <1>29
     DEF Next, Handler, SomeSetup, Answer

LEMMA ProgressStep ==
  ASSUME TypeOK, Flow, Data, Serving, Progress, [Next]_vars
  PROVE  Progress'
<1> USE TransferAssumption
    DEF TypeOK, Flow, SetupIsNew, CutWaitsForStall, GivenUpIsOver, OutIsExpected,
        HandlerServes, Open, ToHost, HasData, Waits, Stages, INReady, Serving,
        SetupIsHeard, StallComesLast, ServesRequest, KindOfWait, BankIsFree,
        Progress, PacketIsThere, StreamIsWritten, EndIsSeen, StageIsReal, EndIsTold,
        StatusComes, handlerVars, fifoVars, hostVars
<1>1. CASE BeginRead
  <2>1. LengthToSend(asking) > 0
    BY <1>1 DEF BeginRead, LengthToSend
  <2>2. length' > 0 /\ length' # 0
    BY <1>1, <2>1, LengthFits DEF BeginRead
  <2> QED
    BY <1>1, <2>2 DEF BeginRead
<1>2. CASE BeginValue
  BY <1>2 DEF BeginValue
<1>3. CASE BeginCommand
  BY <1>3 DEF BeginCommand
<1>4. CASE BeginUnknown
  BY <1>4 DEF BeginUnknown
<1>5. CASE PacketDue
  BY <1>5 DEF PacketDue
<1>6. CASE SendPacket
  <2>1. /\ PacketSize \in 0 .. EpSize /\ bank' = {PacketSize}
        /\ ~lastPacketFull' => PacketSize < EpSize
    <3>1. bank' = {PacketSize} /\ (PacketSize = EpSize => lastPacketFull')
      BY <1>6 DEF SendPacket
    <3>2. PacketSize \in 0 .. EpSize
      BY PacketFits
    <3> HIDE DEF PacketSize
    <3> QED
      BY <3>1, <3>2
  <2>2. EndIsSeen'
    BY <2>1
  <2> QED
    BY <1>6, <2>2 DEF SendPacket
<1>7. CASE DataDone
  BY <1>7 DEF DataDone, MoreToSend
<1>8. CASE StreamDone
  BY <1>8 DEF StreamDone
<1>9. CASE StreamAborted
  BY <1>9 DEF StreamAborted
<1>10. CASE BeginWrite
  BY <1>10 DEF BeginWrite
<1>11. CASE PacketComing
  BY <1>11 DEF PacketComing
<1>12. CASE ReadPacket
  BY <1>12 DEF ReadPacket
<1>13. CASE ReadDone
  BY <1>13 DEF ReadDone
<1>14. CASE ReadAborted
  BY <1>14 DEF ReadAborted
<1>15. CASE BeginBlock
  BY <1>15 DEF BeginBlock
<1>16. CASE BlockRead
  BY <1>16 DEF BlockRead
<1>17. CASE StatusOut
  BY <1>17 DEF StatusOut
<1>18. CASE StatusIn
  BY <1>18 DEF StatusIn
<1>19. CASE AddressIn
  BY <1>19 DEF AddressIn
<1>20. CASE Finish
  BY <1>20 DEF Finish
<1>21. ASSUME NEW r \in Requests, HostSetup(r)
      PROVE  Progress'
  BY <1>21 DEF HostSetup
<1>22. CASE HostIn
  BY <1>22 DEF HostIn
<1>23. CASE HostOut
  BY <1>23 DEF HostOut
<1>24. CASE HostStatusOut
  BY <1>24 DEF HostStatusOut
<1>25. CASE HostStatusIn
  BY <1>25 DEF HostStatusIn
<1>26. CASE HostSeesStall
  BY <1>26 DEF HostSeesStall
<1>27. CASE HostGivesUp
  BY <1>27 DEF HostGivesUp
<1>28. CASE UNCHANGED vars
  BY <1>28 DEF vars
<1>29. CASE BeginReport
  <2>1. AnswerLength(asking) > 0
    BY <1>29, LengthFits DEF BeginReport, AnswerLength
  <2>2. length' > 0 /\ length' # 0
    BY <1>29, <2>1, LengthFits DEF BeginReport
  <2> QED
    BY <1>29, <2>2 DEF BeginReport
<1> QED
  BY <1>1, <1>2, <1>3, <1>4, <1>5, <1>6, <1>7, <1>8, <1>9, <1>10, <1>11,
     <1>12, <1>13, <1>14, <1>15, <1>16, <1>17, <1>18, <1>19, <1>20,
     <1>21, <1>22, <1>23, <1>24, <1>25, <1>26, <1>27, <1>28, <1>29
     DEF Next, Handler, SomeSetup, Answer

-----------------------------------------------------------------------------
(* The guards of the handler's actions, and of the host's.                 *)
HandlerGoesOn ==
  \/ at = "idle" /\ setup
  \/ at = "data" /\ (MoreToSend => setup \/ out # {} \/ INReady)
  \/ at \in {"packet", "finish"}
  \/ at \in {"await", "reading"} /\ (setup \/ out # {})
  \/ at = "take" /\ (IF length = 0 THEN INReady ELSE setup \/ out # {})
  \/ at \in {"statusOut", "blockOut"} /\ out # {}
  \/ at \in {"statusIn", "addressIn"} /\ INReady

HostGoesOn ==
  \/ stage = "idle" /\ (at = "idle" \/ gaveUp)
  \/ stage # "idle" /\ stalled
  \/ stage = "data" /\ Open /\ (IF ToHost(asking) THEN bank # {} ELSE out = {})
  \/ stage = "status" /\ Open /\ (IF ToHost(asking) THEN out = {} ELSE bank # {})

(* The waits that do not look for a setup packet, with one in the endpoint *)
(* that keeps what they wait for from coming.                              *)
CutIn(kind, wait) ==
  setup /\ cut /\ kind \in Troubled /\ request.kind = kind /\ at = wait

DeafForEver ==
  out = {} /\ (CutIn("value", "statusOut") \/ CutIn("block", "blockOut"))

Deaf == DeafForEver \/ (~INReady /\ CutIn("address", "addressIn"))

LEMMA SomeoneGoesOn ==
  ASSUME IInv, Serving, Progress
  PROVE  HandlerGoesOn \/ HostGoesOn \/ Deaf
<1> SUFFICES ASSUME ~HandlerGoesOn, ~HostGoesOn
             PROVE  Deaf
  OBVIOUS
<1> USE TransferAssumption
    DEF IInv, TypeOK, Waits, Stages, INReady, Open, ToHost, HandlerGoesOn, HostGoesOn
<1>1. CASE at # "idle" /\ setup
  <2>1. cut /\ request.kind \in Troubled
    BY <1>1 DEF Flow, SetupIsNew, Serving, ServesRequest
  <2> QED
    BY <1>1, <2>1 DEF Serving, KindOfWait, BankIsFree, Deaf, DeafForEver, CutIn
<1>2. CASE at # "idle" /\ ~setup
  <2>1. ~cut /\ request = asking /\ ~stalled
    BY <1>2 DEF Flow, CutWaitsForStall, Serving, ServesRequest, StallComesLast
  <2>2. stage = "idle" => FALSE
    BY <1>2, <2>1 DEF Progress, EndIsTold, Serving, BankIsFree, KindOfWait
  <2>3. CASE asking.kind = "read"
    BY <1>2, <2>1, <2>2, <2>3
       DEF Serving, KindOfWait, Progress, StreamIsWritten, EndIsSeen, MoreToSend,
           Flow, HandlerServes
  <2>4. CASE asking.kind = "value"
    BY <1>2, <2>1, <2>2, <2>4
       DEF Serving, KindOfWait, Data, ValueConserved, Flow, HandlerServes
  <2>5. CASE asking.kind = "write"
    BY <1>2, <2>1, <2>2, <2>5
       DEF Serving, KindOfWait, BankIsFree, Progress, StageIsReal, PacketIsThere,
           Data, WriteConserved, Taken
  <2>6. CASE asking.kind \in {"command", "address", "block"}
    BY <1>2, <2>1, <2>2, <2>6
       DEF Serving, KindOfWait, BankIsFree, Progress, StageIsReal, HasData, StatusComes
  <2>7. asking.kind # "unknown"
    BY <1>2, <2>1, <2>2 DEF Flow, HandlerServes
  <2> QED
    BY <2>3, <2>4, <2>5, <2>6, <2>7 DEF Kinds
<1>3. CASE at = "idle"
  <2>1. ~setup /\ stage # "idle" /\ ~stalled
    BY <1>3
  <2>2. asking.kind \notin {"read", "value", "unknown"}
    BY <1>3, <2>1 DEF Flow, HandlerServes
  <2>3. CASE asking.kind = "write"
    BY <1>3, <2>1, <2>3 DEF Data, WriteConserved, Taken, Flow, DataIsDue
  <2>4. CASE asking.kind \in {"command", "address", "block"}
    BY <1>3, <2>1, <2>4 DEF Progress, StageIsReal, HasData, StatusComes
  <2> QED
    BY <2>2, <2>3, <2>4 DEF Kinds
<1> QED
  BY <1>1, <1>2, <1>3

LEMMA ProgressInvariant == Spec => [](IInv /\ Serving /\ Progress)
<1>1. Init => Serving /\ Progress
  BY TransferAssumption
     DEF Init, Serving, SetupIsHeard, StallComesLast, ServesRequest, KindOfWait,
         BankIsFree, Progress, PacketIsThere, StreamIsWritten, EndIsSeen,
         StageIsReal, EndIsTold, StatusComes, Open
<1>2. IInv /\ Serving /\ [Next]_vars => Serving'
  BY ServingStep DEF IInv
<1>3. IInv /\ Serving /\ Progress /\ [Next]_vars => Progress'
  BY ProgressStep DEF IInv
<1> QED
  BY <1>1, <1>2, <1>3, Invariance, PTL DEF Spec

(* Handler and host never wait for each other, whatever requests the host  *)
(* gives up, but in the three waits that do not look for a setup packet:   *)
(* that for the status of a GetStatus and its like, that for the packet of *)
(* a SetLineEncoding, and that in USB_Device_SetAddress.  All streams, and *)
(* all refusals, have a way out.                                           *)
THEOREM OnlyDeafWaitsDeadlock == Spec => [](HandlerGoesOn \/ HostGoesOn \/ Deaf)
<1>1. IInv /\ Serving /\ Progress => HandlerGoesOn \/ HostGoesOn \/ Deaf
  BY SomeoneGoesOn
<1> QED
  BY <1>1, ProgressInvariant, PTL

(* With a host that gives up none of these three, there is no deadlock.    *)
THEOREM NoDeadlock ==
  ASSUME Troubled \cap {"value", "block", "address"} = {}
  PROVE  Spec => [](HandlerGoesOn \/ HostGoesOn)
<1>1. ~Deaf
  BY DEF Deaf, DeafForEver, CutIn
<1> QED
  BY <1>1, OnlyDeafWaitsDeadlock, PTL

(* Two of them are never left again, whatever the host does: each new      *)
(* request discards what came before, and waits in the endpoint.           *)
THEOREM DeafWaitsStay == Spec => [][DeafForEver => DeafForEver']_vars
<1>1. ASSUME DeafForEver, Next
      PROVE  DeafForEver'
  <2> USE DEF DeafForEver, CutIn, handlerVars, fifoVars, hostVars, Open
  <2>1. CASE SomeSetup
    BY <1>1, <2>1 DEF SomeSetup, HostSetup
  <2>2. CASE Answer \/ HostGivesUp
    BY <1>1, <2>2 DEF Answer, HostIn, HostOut, HostStatusOut, HostStatusIn,
                      HostSeesStall, HostGivesUp
  <2>3. CASE Handler
    BY <1>1, <2>3
       DEF Handler, BeginRead, BeginReport, BeginValue, BeginCommand, BeginUnknown, PacketDue,
           SendPacket, DataDone, StreamDone, StreamAborted, BeginWrite,
           PacketComing, ReadPacket, ReadDone, ReadAborted, BeginBlock, BlockRead,
           StatusOut, StatusIn, AddressIn, Finish
  <2> QED
    BY <1>1, <2>1, <2>2, <2>3 DEF Next
<1>2. [Next]_vars => [DeafForEver => DeafForEver']_vars
  BY <1>1
<1> QED
  BY <1>2, PTL DEF Spec

-----------------------------------------------------------------------------
(* How long a control transfer can take.  What handler and host have left  *)
(* to do until it ends, when a new setup packet has cut the handler off,   *)
(* and when not.  A byte of a stream to the host counts when it is written *)
(* and when it is received, and a full last packet for the empty one that  *)
(* follows it.                                                             *)
StepsToAbort(wait) ==
  CASE wait \in {"packet", "reading", "statusOut", "blockOut"} -> 4
    [] wait \in {"data", "take", "statusIn"} -> 3
    [] wait \in {"await", "addressIn"} -> 2
    [] OTHER -> 1

StepsAhead(wait) ==
  CASE wait = "blockOut" -> 7
    [] wait \in {"data", "take"} -> 6
    [] wait \in {"packet", "reading", "statusIn"} -> 5
    [] wait \in {"await", "statusOut", "addressIn"} -> 3
    [] OTHER -> 1

StagesAhead(s) == CASE s = "data" -> 10 [] s = "status" -> 5 [] OTHER -> 0

(* No request has more data than that, a report ID included. *)
MostToReceive == asking.size + asking.asked + 1

DataAhead ==
  2 * length + (IF lastPacketFull THEN 1 ELSE 0) + (MostToReceive - received)

HostAhead ==
  StagesAhead(stage) + (IF out = {} THEN 0 ELSE 4) + (IF bank = {} THEN 0 ELSE 1)

Rank ==
  IF setup THEN StepsToAbort(at)
           ELSE 8 + StepsAhead(at) + HostAhead + 8 * DataAhead

(* A packet is written when there is one to write, be it empty.            *)
PacketIsDue == at = "packet" => MoreToSend

LEMMA PacketIsDueStep ==
  ASSUME PacketIsDue, [Next]_vars
  PROVE  PacketIsDue'
<1> USE DEF PacketIsDue, MoreToSend, handlerVars, fifoVars, hostVars
<1>1. CASE Handler
  BY <1>1
     DEF Handler, BeginRead, BeginReport, BeginValue, BeginCommand, BeginUnknown, PacketDue,
         SendPacket, DataDone, StreamDone, StreamAborted, BeginWrite,
         PacketComing, ReadPacket, ReadDone, ReadAborted, BeginBlock, BlockRead,
         StatusOut, StatusIn, AddressIn, Finish
<1>2. CASE SomeSetup
  BY <1>2 DEF SomeSetup, HostSetup
<1>3. CASE Answer \/ HostGivesUp
  BY <1>3 DEF Answer, HostIn, HostOut, HostStatusOut, HostStatusIn,
              HostSeesStall, HostGivesUp
<1>4. CASE UNCHANGED vars
  BY <1>4 DEF vars
<1> QED
  BY <1>1, <1>2, <1>3, <1>4 DEF Next

LEMMA RankTable ==
  /\ StepsToAbort("packet") = 4 /\ StepsToAbort("reading") = 4
  /\ StepsToAbort("statusOut") = 4 /\ StepsToAbort("blockOut") = 4
  /\ StepsToAbort("data") = 3 /\ StepsToAbort("take") = 3
  /\ StepsToAbort("statusIn") = 3 /\ StepsToAbort("await") = 2
  /\ StepsToAbort("addressIn") = 2 /\ StepsToAbort("idle") = 1
  /\ StepsToAbort("finish") = 1
  /\ StepsAhead("blockOut") = 7 /\ StepsAhead("data") = 6
  /\ StepsAhead("take") = 6 /\ StepsAhead("packet") = 5
  /\ StepsAhead("reading") = 5 /\ StepsAhead("statusIn") = 5
  /\ StepsAhead("await") = 3 /\ StepsAhead("statusOut") = 3
  /\ StepsAhead("addressIn") = 3 /\ StepsAhead("idle") = 1
  /\ StepsAhead("finish") = 1
  /\ StagesAhead("data") = 10 /\ StagesAhead("status") = 5
  /\ StagesAhead("idle") = 0
  BY DEF StepsToAbort, StepsAhead, StagesAhead

LEMMA RankTypes ==
  /\ \A w \in Waits : StepsToAbort(w) \in 1 .. 4 /\ StepsAhead(w) \in 1 .. 7
  /\ \A s \in Stages : StagesAhead(s) \in 0 .. 10
  BY RankTable DEF Waits, Stages

LEMMA RankIsNatural ==
  TypeOK /\ ReceivedWithinAsked =>
    /\ DataAhead \in Nat /\ HostAhead \in Nat /\ Rank \in Nat
    /\ setup => Rank <= 4
    /\ ~setup => Rank > 8
<1> SUFFICES ASSUME TypeOK, ReceivedWithinAsked
             PROVE  /\ DataAhead \in Nat /\ HostAhead \in Nat /\ Rank \in Nat
                    /\ setup => Rank <= 4
                    /\ ~setup => Rank > 8
  OBVIOUS
<1>1. at \in Waits /\ stage \in Stages /\ length \in Nat
  BY DEF TypeOK
<1>2. StepsToAbort(at) \in 1 .. 4 /\ StepsAhead(at) \in 1 .. 7
  BY <1>1, RankTypes
<1>3. StagesAhead(stage) \in 0 .. 10
  BY <1>1, RankTypes
<1>4. HostAhead \in Nat
  BY <1>3 DEF HostAhead
<1>5. /\ asking.asked \in Nat /\ asking.size \in Nat /\ asking.id \in {0, 1}
      /\ received \in Nat
  BY TransferAssumption DEF TypeOK
<1>6. MostToReceive \in Nat /\ received <= MostToReceive
  BY <1>5 DEF MostToReceive, ReceivedWithinAsked
<1>7. DataAhead \in Nat
  BY <1>1, <1>5, <1>6 DEF DataAhead
<1> QED
  BY <1>2, <1>4, <1>7 DEF Rank

(* A step in the middle of a control transfer lowers it, but when the host *)
(* gives up, or replaces a setup packet that has not been taken.           *)
StepsAreCounted ==
  at # "idle" /\ at' # "idle" =>
    /\ Rank' <= Rank
    /\ Handler \/ Answer \/ (~setup /\ SomeSetup) => Rank' < Rank

LEMMA RankStep ==
  ASSUME TypeOK, ReceivedWithinAsked, Flow, Serving, PacketIsDue, [Next]_vars,
         TypeOK', ReceivedWithinAsked'
  PROVE  StepsAreCounted
<1> SUFFICES ASSUME at # "idle", at' # "idle"
             PROVE  /\ Rank' <= Rank
                    /\ Handler \/ Answer \/ (~setup /\ SomeSetup) => Rank' < Rank
  BY DEF StepsAreCounted
<1>1. /\ DataAhead \in Nat /\ HostAhead \in Nat /\ Rank \in Nat
      /\ ~setup => Rank > 8
  BY RankIsNatural
<1>2. /\ DataAhead' \in Nat /\ HostAhead' \in Nat /\ Rank' \in Nat
      /\ setup' => Rank' <= 4
  <2>1. TypeOK' /\ ReceivedWithinAsked' =>
          (/\ DataAhead \in Nat /\ HostAhead \in Nat /\ Rank \in Nat
           /\ setup => Rank <= 4
           /\ ~setup => Rank > 8)'
    BY RankIsNatural, PTL
  <2> QED
    BY <2>1
<1>3. /\ at \in Waits /\ stage \in Stages /\ at' \in Waits /\ stage' \in Stages
      /\ length \in Nat /\ received \in Nat /\ asking.asked \in Nat
      /\ length' \in Nat /\ received' \in Nat /\ asking'.asked \in Nat
      /\ asking.size \in Nat /\ asking'.size \in Nat
      /\ EpSize \in Nat \ {0}
  BY TransferAssumption DEF TypeOK
<1>4. /\ StepsToAbort(at) \in Nat /\ StepsToAbort(at') \in Nat
      /\ StepsAhead(at) \in Nat /\ StepsAhead(at') \in Nat
      /\ StagesAhead(stage) \in Nat /\ StagesAhead(stage') \in Nat
  BY <1>3, RankTypes
<1> USE DEF DataAhead, MostToReceive, HostAhead, INReady, handlerVars, fifoVars, hostVars
<1>5. ASSUME Handler PROVE Rank' < Rank
  <2>1. ~(BeginRead \/ BeginReport \/ BeginValue \/ BeginCommand \/ BeginUnknown \/ BeginWrite
          \/ BeginBlock \/ Finish)
    BY DEF BeginRead, BeginReport, BeginValue, BeginCommand, BeginUnknown, BeginWrite, BeginBlock,
           Finish
  <2>2. CASE PacketDue
    BY <2>2, <1>3, <1>4, RankTable DEF PacketDue, Rank
  <2>3. CASE SendPacket
    <3>1. /\ at = "packet" /\ at' = "data" /\ setup' = setup /\ out' = out
          /\ stage' = stage /\ asking' = asking /\ received' = received
          /\ length' = length - PacketSize
          /\ lastPacketFull' = (PacketSize = EpSize)
          /\ length > 0 \/ lastPacketFull
          /\ bank = {} /\ bank' # {}
      BY <2>3 DEF SendPacket, PacketIsDue, MoreToSend, Flow, PacketGoesToFreeBank
    <3>2. /\ PacketSize \in Nat /\ PacketSize <= EpSize /\ PacketSize <= length
          /\ length > 0 => PacketSize > 0
      BY <1>3 DEF PacketSize
    <3>3. DataAhead' < DataAhead
      <4>1. DataAhead = 2 * length + (IF lastPacketFull THEN 1 ELSE 0)
                          + (MostToReceive - received)
        BY DEF DataAhead
      <4>2. DataAhead' = 2 * (length - PacketSize)
                           + (IF PacketSize = EpSize THEN 1 ELSE 0)
                           + (MostToReceive - received)
        BY <3>1
      <4>3. CASE length = 0
        BY <3>1, <3>2, <4>1, <4>2, <4>3, <1>3
      <4>4. CASE length # 0
        BY <3>1, <3>2, <4>1, <4>2, <4>4, <1>3
      <4> QED
        BY <4>3, <4>4
    <3>4. HostAhead' = HostAhead + 1
      BY <3>1, <1>4
    <3> QED
      BY <3>1, <3>3, <3>4, <1>1, <1>2, RankTable DEF Rank
  <2>4. CASE DataDone
    BY <2>4, <1>3, <1>4, RankTable DEF DataDone, Rank
  <2>5. CASE StreamDone
    BY <2>5, <1>3, <1>4, RankTable DEF StreamDone, Rank
  <2>6. CASE StreamAborted
    BY <2>6, <1>3, <1>4, RankTable DEF StreamAborted, Rank
  <2>7. CASE PacketComing
    BY <2>7, <1>3, <1>4, RankTable DEF PacketComing, Rank
  <2>8. CASE ReadPacket
    <3>1. at = "reading" /\ at' = "take" /\ setup' = setup
      BY <2>8 DEF ReadPacket
    <3>2. ~setup => out # {} /\ HostAhead' = HostAhead - 4
      BY <2>8, <1>4 DEF ReadPacket
    <3>3. ~setup => DataAhead' <= DataAhead
      BY <2>8, <1>3 DEF ReadPacket, TypeOK
    <3> QED
      BY <3>1, <3>2, <3>3, <1>1, <1>2, RankTable DEF Rank
  <2>9. CASE ReadDone
    BY <2>9, <1>3, <1>4, RankTable DEF ReadDone, Rank
  <2>10. CASE ReadAborted
    BY <2>10, <1>3, <1>4, RankTable DEF ReadAborted, Rank
  <2>11. CASE BlockRead
    BY <2>11, <1>3, <1>4, RankTable DEF BlockRead, Rank
  <2>12. CASE StatusOut
    BY <2>12, <1>3, <1>4, RankTable DEF StatusOut, Rank
  <2>13. CASE StatusIn
    BY <2>13, <1>3, <1>4, RankTable DEF StatusIn, Rank
  <2>14. CASE AddressIn
    BY <2>14, <1>3, <1>4, RankTable DEF AddressIn, Rank
  <2> QED
    BY <1>5, <2>1, <2>2, <2>3, <2>4, <2>5, <2>6, <2>7, <2>8, <2>9, <2>10,
       <2>11, <2>12, <2>13, <2>14 DEF Handler
<1>6. ASSUME Answer PROVE Rank' < Rank
  <2>1. CASE HostIn
    <3>1. received' >= received
      BY <2>1, <1>3 DEF HostIn, TypeOK
    <3>2. DataAhead' <= DataAhead
      BY <2>1, <3>1, <1>3 DEF HostIn
    <3>3. HostAhead' < HostAhead
      BY <2>1, <1>3, <1>4, RankTable DEF HostIn
    <3>4. at' = at /\ ~setup /\ ~setup'
      BY <2>1 DEF HostIn, Open
    <3> QED
      BY <3>2, <3>3, <3>4, <1>1, <1>2, <1>4 DEF Rank
  <2>2. CASE HostOut
    <3>1. /\ HostPacket \in Nat /\ HostPacket > 0
          /\ received' = received + HostPacket
      BY <2>2, HostPacketFits, <1>3 DEF HostOut, Flow, DataIsDue
    <3>2. /\ stage = "data" /\ stage' \in {"data", "status"}
          /\ out = {} /\ bank' = bank /\ at' = at /\ ~setup /\ ~setup'
          /\ length' = length /\ lastPacketFull' = lastPacketFull
          /\ asking' = asking
      BY <2>2, <1>3 DEF HostOut, Open
    <3>3. DataAhead' = DataAhead - HostPacket
      BY <3>1, <3>2, <1>3
    <3>4. HostAhead' <= HostAhead + 4
      BY <3>2, <1>4, RankTable
    <3> HIDE DEF DataAhead, HostAhead, HostPacket
    <3> QED
      BY <3>1, <3>2, <3>3, <3>4, <1>1, <1>2, <1>4 DEF Rank
  <2>3. CASE HostStatusOut
    BY <2>3, <1>3, <1>4, RankTable DEF HostStatusOut, Open, Rank
  <2>4. CASE HostStatusIn
    BY <2>4, <1>3, <1>4, RankTable DEF HostStatusIn, Open, Rank
  <2>5. ~HostSeesStall
    BY DEF HostSeesStall, Serving, StallComesLast
  <2> QED
    BY <1>6, <2>1, <2>2, <2>3, <2>4, <2>5 DEF Answer
<1>7. ASSUME SomeSetup
      PROVE  IF setup THEN Rank' = Rank ELSE Rank' < Rank
  <2>1. at' = at /\ setup'
    BY <1>7 DEF SomeSetup, HostSetup
  <2>2. CASE setup
    BY <2>1, <2>2 DEF Rank
  <2>3. CASE ~setup
    BY <2>1, <2>3, <1>1, <1>2
  <2> QED
    BY <2>2, <2>3
<1>8. ASSUME HostGivesUp PROVE Rank' <= Rank
  BY <1>8, <1>3, <1>4, RankTable DEF HostGivesUp, Rank
<1>9. ASSUME UNCHANGED vars PROVE Rank' = Rank
  BY <1>9 DEF vars, Rank
<1>10. Rank' <= Rank
  BY <1>5, <1>6, <1>7, <1>8, <1>9, <1>1, <1>2 DEF Next
<1> QED
  BY <1>5, <1>6, <1>7, <1>10

(* Whatever the host does, a control transfer in progress has a finite     *)
(* number of steps before it: each step of the handler, each packet and    *)
(* the setup packet that cuts it off bring it closer to its end, and       *)
(* nothing takes it away from that.                                        *)
THEOREM TransfersAreFinite == Spec => [](Rank \in Nat) /\ [][StepsAreCounted]_vars
<1>1. Init => PacketIsDue
  BY DEF Init, PacketIsDue
<1>2. PacketIsDue /\ [Next]_vars => PacketIsDue'
  BY PacketIsDueStep
<1>3. Spec => []PacketIsDue
  BY <1>1, <1>2, PTL DEF Spec
<1>4. IInv => TypeOK /\ ReceivedWithinAsked /\ Flow
  BY DEF IInv, Data
<1>5. IInv => Rank \in Nat
  BY <1>4, RankIsNatural
<1>6. IInv /\ Serving /\ PacketIsDue /\ [Next]_vars
        /\ TypeOK' /\ ReceivedWithinAsked' => [StepsAreCounted]_vars
  BY <1>4, RankStep
<1> QED
  BY <1>3, <1>4, <1>5, <1>6, ProgressInvariant, PTL DEF Spec

(* And there is always a step that does: of the handler, or of the host    *)
(* that is asked for it, but in the waits that a new request makes deaf.   *)
(* With TransfersAreFinite this is why the handler returns.                *)
THEOREM TransfersGoOn ==
  Spec => [](at # "idle" /\ ~Deaf => HandlerGoesOn \/ (~setup /\ HostGoesOn))
<1>1. ASSUME IInv, Serving, Progress, at # "idle", ~Deaf
      PROVE  HandlerGoesOn \/ (~setup /\ HostGoesOn)
  <2>1. CASE ~setup
    BY <1>1, <2>1, SomeoneGoesOn
  <2>2. CASE setup
    <3> USE DEF IInv, TypeOK, Waits, INReady, HandlerGoesOn
    <3>1. at = "finish" \/ (cut /\ request.kind \in Troubled)
      BY <1>1, <2>2 DEF Flow, SetupIsNew, Serving, ServesRequest
    <3> QED
      BY <1>1, <2>2, <3>1
         DEF Serving, KindOfWait, BankIsFree, Deaf, DeafForEver, CutIn
  <2> QED
    BY <1>1, <2>1, <2>2 DEF IInv, TypeOK
<1> QED
  BY <1>1, ProgressInvariant, PTL

-----------------------------------------------------------------------------
(* SetAddress.                                                             *)

(* The host waits for the status of a SetAddress as long as it takes.      *)
AddressIsWaitedFor == asking.kind = "address" => stage # "data" /\ ~gaveUp

(* The handler of a SetAddress is at the host's request, before the status *)
(* packet is written and from then until the host has taken it.            *)
AddressWaits ==
  at \in {"statusIn", "addressIn"} /\ request.kind = "address" =>
    /\ asking = request /\ ~setup /\ ~stalled
    /\ at = "statusIn" => stage = "status" /\ bank = {}
    /\ at = "addressIn" /\ stage = "status" => bank # {}

AddressInv == AddressIsWaitedFor /\ AddressWaits

LEMMA AddressStep ==
  ASSUME "address" \notin Troubled, TypeOK, Flow, Serving, AddressInv, [Next]_vars
  PROVE  AddressInv'
<1> USE TransferAssumption
    DEF TypeOK, Flow, SetupIsNew, CutWaitsForStall, GivenUpIsOver, Open, ToHost,
        Waits, Stages, INReady, Serving, SetupIsHeard, KindOfWait, AddressInv,
        AddressIsWaitedFor, AddressWaits, handlerVars, fifoVars, hostVars
<1>1. CASE BeginRead
  BY <1>1 DEF BeginRead
<1>2. CASE BeginValue
  BY <1>2 DEF BeginValue
<1>3. CASE BeginCommand
  BY <1>3 DEF BeginCommand
<1>4. CASE BeginUnknown
  BY <1>4 DEF BeginUnknown
<1>5. CASE PacketDue
  BY <1>5 DEF PacketDue
<1>6. CASE SendPacket
  BY <1>6 DEF SendPacket
<1>7. CASE DataDone
  BY <1>7 DEF DataDone
<1>8. CASE StreamDone
  BY <1>8 DEF StreamDone
<1>9. CASE StreamAborted
  BY <1>9 DEF StreamAborted
<1>10. CASE StatusOut
  BY <1>10 DEF StatusOut
<1>11. CASE StatusIn
  BY <1>11 DEF StatusIn
<1>12. CASE AddressIn
  BY <1>12 DEF AddressIn
<1>13. CASE Finish
  BY <1>13 DEF Finish
<1>14. ASSUME NEW r \in Requests, HostSetup(r)
      PROVE  AddressInv'
  BY <1>14 DEF HostSetup, HasData
<1>15. CASE HostIn
  BY <1>15 DEF HostIn
<1>16. CASE HostStatusOut
  BY <1>16 DEF HostStatusOut
<1>17. CASE HostStatusIn
  BY <1>17 DEF HostStatusIn
<1>18. CASE HostSeesStall
  BY <1>18 DEF HostSeesStall
<1>19. CASE HostGivesUp
  BY <1>19 DEF HostGivesUp
<1>20. CASE UNCHANGED vars
  BY <1>20 DEF vars
<1>21. CASE BeginWrite
  BY <1>21 DEF BeginWrite
<1>22. CASE PacketComing
  BY <1>22 DEF PacketComing
<1>23. CASE ReadPacket
  BY <1>23 DEF ReadPacket
<1>24. CASE ReadDone
  BY <1>24 DEF ReadDone
<1>25. CASE ReadAborted
  BY <1>25 DEF ReadAborted
<1>26. CASE BeginBlock
  BY <1>26 DEF BeginBlock
<1>27. CASE BlockRead
  BY <1>27 DEF BlockRead
<1>28. CASE HostOut
  BY <1>28 DEF HostOut
<1>29. CASE BeginReport
  BY <1>29 DEF BeginReport
<1> QED
  BY <1>1, <1>2, <1>3, <1>4, <1>5, <1>6, <1>7, <1>8, <1>9, <1>10, <1>11,
     <1>12, <1>13, <1>14, <1>15, <1>16, <1>17, <1>18, <1>19, <1>20,
     <1>21, <1>22, <1>23, <1>24, <1>25, <1>26, <1>27, <1>28, <1>29 DEF
     Next, Handler, SomeSetup, Answer

(* A step that enables the address is that of USB_Device_SetAddress.       *)
LEMMA OnlyAddressInEnables ==
  ASSUME [Next]_vars, ~addressed, addressed'
  PROVE  AddressIn
<1> USE DEF handlerVars, fifoVars, hostVars
<1>1. ASSUME NEW r \in Requests, HostSetup(r)
      PROVE  FALSE
  BY <1>1 DEF HostSetup
<1>2. ASSUME Answer \/ HostGivesUp \/ UNCHANGED vars
      PROVE  FALSE
  BY <1>2 DEF Answer, HostIn, HostOut, HostStatusOut, HostStatusIn, HostSeesStall,
              HostGivesUp, vars
<1>3. ASSUME BeginRead \/ BeginReport \/ BeginValue \/ BeginCommand \/ BeginUnknown
             \/ PacketDue \/ SendPacket \/ DataDone \/ StreamDone \/ StreamAborted
      PROVE  FALSE
  BY <1>3 DEF BeginRead, BeginReport, BeginValue, BeginCommand, BeginUnknown, PacketDue,
              SendPacket, DataDone, StreamDone, StreamAborted
<1>4. ASSUME BeginWrite \/ PacketComing \/ ReadPacket \/ ReadDone \/ ReadAborted
             \/ BeginBlock \/ BlockRead \/ StatusOut \/ StatusIn \/ Finish
      PROVE  FALSE
  BY <1>4 DEF BeginWrite, PacketComing, ReadPacket, ReadDone, ReadAborted,
              BeginBlock, BlockRead, StatusOut, StatusIn, Finish
<1> QED
  BY <1>1, <1>2, <1>3, <1>4 DEF Next, Handler, SomeSetup

(* The new address is enabled only after the host has taken the status     *)
(* packet of SetAddress (USB_Device_SetAddress waits for IN ready), for    *)
(* hosts that wait for it, whatever other requests they give up.           *)
THEOREM AddressComesAfterStatus ==
  ASSUME "address" \notin Troubled
  PROVE  Spec => AddressAfterStatus
<1>1. Init => AddressInv
  BY DEF Init, AddressInv, AddressIsWaitedFor, AddressWaits
<1>2. IInv /\ Serving /\ AddressInv /\ [Next]_vars => AddressInv'
  BY AddressStep DEF IInv
<1>3. AddressInv /\ Serving /\ [Next]_vars =>
        [~addressed /\ addressed' => ~(stage = "status" /\ asking.kind = "address")]_vars
  <2>1. SUFFICES ASSUME AddressInv, Serving, [Next]_vars, ~addressed, addressed',
                        stage = "status"
                 PROVE  FALSE
    OBVIOUS
  <2>2. AddressIn
    BY <2>1, OnlyAddressInEnables
  <2>3. at = "addressIn" /\ bank = {}
    BY <2>2 DEF AddressIn, INReady
  <2> QED
    BY <2>1, <2>3 DEF AddressInv, AddressWaits, Serving, KindOfWait
<1> QED
  BY <1>1, <1>2, <1>3, ProgressInvariant, PTL DEF Spec, AddressAfterStatus
=============================================================================
