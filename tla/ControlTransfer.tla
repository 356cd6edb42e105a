--------------------------- MODULE ControlTransfer ---------------------------
(***************************************************************************)
(* Control transfers inside the Timer 4 handler: LUFA answers a request by *)
(* busy waits (Template_Endpoint_Control_W.c, ..._R.c,                     *)
(* Endpoint_ClearStatusStage)                                              *)
(* that end when the host does its part, against a host that may give a    *)
(* request up and begin another at any of these waits.                     *)
(*                                                                         *)
(* USB_DeviceState does not change while the handler runs, as USB_GEN_vect *)
(* cannot: the ways out of the waits that look for a detached or suspended *)
(* device are never taken, and are absent here.                            *)
(***************************************************************************)
EXTENDS Naturals

CONSTANTS
  EpSize,     \* USB_Device_ControlEndpointSize (8)
  Requests,   \* the requests the host makes
  Troubled    \* the kinds of request that it may give up

(***************************************************************************)
(* The kinds of request, by how they are answered:                         *)
(*   "read"     GetDescriptor, GetReport: a stream of packets to the host  *)
(*   "value"    GetStatus, GetConfiguration, GetProtocol, GetIdle: a packet*)
(*   "command"  SetConfiguration, SetProtocol, SetIdle...: a status only   *)
(*   "address"  SetAddress                                                 *)
(*   "write"    SetReport: a stream of packets from the host               *)
(*   "block"    SetLineEncoding (debug builds): a packet from the host     *)
(*   "unknown"  requests that nobody answers; the host asks for data       *)
(* size is what the device has to say and asked the host's wLength.  id is *)
(* the number of bytes that GetReport writes in front of that: one, if the *)
(* host gave a report ID.  Answers of one packet are shorter than it (1, 2 *)
(* and 7 bytes), and the host's wLength may be anything.                   *)
(***************************************************************************)
Kinds == {"read", "value", "command", "address", "write", "block", "unknown"}

ASSUME TransferAssumption ==
  /\ EpSize \in Nat \ {0}
  /\ Requests \subseteq [kind : Kinds, id : {0, 1}, size : Nat, asked : Nat]
  /\ \A r \in Requests :
       /\ r.kind = "read" => r.size > 0 /\ r.asked > 0
       /\ r.kind = "value" => r.size > 0 /\ r.size < EpSize /\ r.asked > 0
       /\ r.kind = "block" => r.asked \in 1 .. EpSize
       /\ r.kind = "unknown" => r.asked > 0
  /\ Troubled \subseteq Kinds

VARIABLES
  (* the handler *)
  at,               \* the wait it is in, or "idle" outside control transfers
  request,          \* USB_ControlRequest
  length,           \* Length and LastPacketFull of the stream function
  lastPacketFull,
  (* the control endpoint: flags in UEINTX, the FIFO, UDADDR.ADDEN *)
  setup,            \* RXSTPI
  out,              \* the set of the sizes of the packets from the host (RXOUTI)
  bank,             \* the set of the sizes of the packets waiting to go out
  stalled,
  addressed,
  (* the host (external) *)
  stage,            \* the stage of the transfer, "idle" between two
  asking,           \* the request it made last
  received,         \* bytes it has received, or written, for that
  gaveUp,           \* it gave that up
  cut               \* that came while the handler was at an earlier request

handlerVars == <<at, request, length, lastPacketFull>>
fifoVars    == <<setup, out, bank, stalled>>
hostVars    == <<stage, asking, received, gaveUp, cut>>
vars == <<handlerVars, fifoVars, addressed, hostVars>>

Waits  == {"idle", "data", "packet", "await", "statusOut", "statusIn",
           "addressIn", "take", "reading", "blockOut", "finish"}
Stages == {"idle", "data", "status"}

INReady == bank = {}

Init ==
  /\ at = "idle" /\ request \in Requests /\ length = 0 /\ lastPacketFull = FALSE
  /\ setup = FALSE /\ out = {} /\ bank = {} /\ stalled = FALSE
  /\ addressed = FALSE
  /\ stage = "idle" /\ asking = request /\ received = 0
  /\ gaveUp = FALSE /\ cut = FALSE

-----------------------------------------------------------------------------
(* Mutant: the stream is not cut down to what the host asked for. *)
WholeLength(r) == r.size

LengthToSend(r) == IF r.size > r.asked THEN r.asked ELSE r.size

(* The report ID is not counted in the length that is cut down. *)
AnswerLength(r) == r.id + LengthToSend(r)

(* Mutant: the setup packet stays in the endpoint while it is answered. *)
BeginReadUncleared ==
  /\ at = "idle" /\ setup /\ asking.kind = "read" /\ asking.id = 0
  /\ request' = asking /\ at' = "data"
  /\ length' = LengthToSend(asking) /\ lastPacketFull' = FALSE
  /\ UNCHANGED <<fifoVars, addressed, hostVars>>

(***************************************************************************)
(* USB_Device_ProcessControlRequest finds a setup packet, whose header is  *)
(* the request.  Those who answer it take the packet first, ClearSETUP().  *)
(***************************************************************************)
BeginRead ==
  /\ at = "idle" /\ setup /\ asking.kind = "read" /\ asking.id = 0
  /\ request' = asking /\ setup' = FALSE /\ at' = "data"
  /\ length' = LengthToSend(asking) /\ lastPacketFull' = FALSE
  /\ UNCHANGED <<out, bank, stalled, addressed, hostVars>>

(* GetReport with a report ID, which is in the endpoint before the stream  *)
(* begins; its first packet is filled up from there.                       *)
BeginReport ==
  /\ at = "idle" /\ setup /\ asking.kind = "read" /\ asking.id = 1
  /\ request' = asking /\ setup' = FALSE /\ at' = "data"
  /\ length' = AnswerLength(asking) /\ lastPacketFull' = FALSE
  /\ UNCHANGED <<out, bank, stalled, addressed, hostVars>>

(* One packet is written whatever wLength says.                            *)
BeginValue ==
  /\ at = "idle" /\ setup /\ asking.kind = "value"
  /\ request' = asking /\ setup' = FALSE /\ at' = "statusOut"
  /\ bank' = {asking.size}
  /\ UNCHANGED <<length, lastPacketFull, out, stalled, addressed, hostVars>>

BeginCommand ==
  /\ at = "idle" /\ setup /\ asking.kind \in {"command", "address"}
  /\ request' = asking /\ setup' = FALSE /\ at' = "statusIn"
  /\ UNCHANGED <<length, lastPacketFull, out, bank, stalled, addressed, hostVars>>

BeginUnknown ==
  /\ at = "idle" /\ setup /\ asking.kind = "unknown"
  /\ request' = asking /\ at' = "finish"
  /\ UNCHANGED <<length, lastPacketFull, fifoVars, addressed, hostVars>>

(***************************************************************************)
(* The loop of Endpoint_Write_Control_Stream.  Its tests and the writing   *)
(* of a packet are two steps: a setup or OUT packet may come between them. *)
(***************************************************************************)
MoreToSend == length > 0 \/ lastPacketFull

PacketDue ==
  /\ at = "data" /\ MoreToSend /\ ~setup /\ out = {} /\ INReady
  /\ at' = "packet"
  /\ UNCHANGED <<request, length, lastPacketFull, fifoVars, addressed, hostVars>>

(* Mutant: the test for a full packet comes a byte too late. *)
OverfullPacket == IF length <= EpSize THEN length ELSE EpSize + 1

PacketSize == IF length < EpSize THEN length ELSE EpSize

(* Mutant: a full last packet is not followed by an empty one. *)
SendPacketOnly ==
  /\ at = "packet" /\ at' = "data"
  /\ bank' = {PacketSize} /\ length' = length - PacketSize
  /\ lastPacketFull' = FALSE
  /\ UNCHANGED <<request, setup, out, stalled, addressed, hostVars>>

(* Mutant: the packet is filled to one byte less than the endpoint holds. *)
SendUnfilledPacket ==
  /\ at = "packet" /\ at' = "data"
  /\ LET n == IF length < EpSize THEN length ELSE EpSize - 1
     IN  /\ bank' = {n} /\ length' = length - n
         /\ lastPacketFull' = FALSE
  /\ UNCHANGED <<request, setup, out, stalled, addressed, hostVars>>

SendPacket ==
  /\ at = "packet" /\ at' = "data"
  /\ bank' = {PacketSize} /\ length' = length - PacketSize
  /\ lastPacketFull' = (PacketSize = EpSize)
  /\ UNCHANGED <<request, setup, out, stalled, addressed, hostVars>>

(* The data is sent, or the host goes on to the status stage before that. *)
DataDone ==
  /\ at = "data" /\ (MoreToSend => out # {} /\ ~setup)
  /\ at' = "await"
  /\ UNCHANGED <<request, length, lastPacketFull, fifoVars, addressed, hostVars>>

(* The stream's wait for the status stage, and its caller's ClearOUT(). *)
StreamDone ==
  /\ at = "await" /\ out # {} /\ out' = {}
  /\ at' = "finish"
  /\ UNCHANGED <<request, length, lastPacketFull, setup, bank, stalled,
                 addressed, hostVars>>

(* Mutant: a new request is looked for only while there is data to send. *)
StreamAbortedInData ==
  /\ at = "data" /\ MoreToSend
  /\ setup /\ out' = {}
  /\ at' = "finish"
  /\ UNCHANGED <<request, length, lastPacketFull, setup, bank, stalled,
                 addressed, hostVars>>

(* ENDPOINT_RWCSTREAM_HostAborted; the caller does the same ClearOUT(). *)
StreamAborted ==
  /\ \/ at = "data" /\ MoreToSend
     \/ at = "await" /\ out = {}
  /\ setup /\ out' = {}
  /\ at' = "finish"
  /\ UNCHANGED <<request, length, lastPacketFull, setup, bank, stalled,
                 addressed, hostVars>>

-----------------------------------------------------------------------------
(* SetReport: the host's wLength is the length of the stream.  Its first   *)
(* packet is refused until now, so the stream's ClearOUT() for an empty    *)
(* report finds nothing to clear.                                          *)
BeginWrite ==
  /\ at = "idle" /\ setup /\ asking.kind = "write"
  /\ request' = asking /\ setup' = FALSE /\ at' = "take"
  /\ length' = asking.asked
  /\ UNCHANGED <<lastPacketFull, out, bank, stalled, addressed, hostVars>>

(* The loop of Endpoint_Read_Control_Stream, in two steps as well.  A setup*)
(* packet that comes between them is read for data, or what is left of it. *)
PacketComing ==
  /\ at = "take" /\ length > 0 /\ ~setup /\ out # {}
  /\ at' = "reading"
  /\ UNCHANGED <<request, length, lastPacketFull, fifoVars, addressed, hostVars>>

ReadPacket ==
  /\ at = "reading" /\ at' = "take"
  /\ \E n \in IF setup THEN 0 .. EpSize ELSE out :
       length' = IF n < length THEN length - n ELSE 0
  /\ out' = {}
  /\ UNCHANGED <<request, lastPacketFull, setup, bank, stalled, addressed, hostVars>>

(* The wait at its end, and its caller's ClearIN(): the status stage.      *)
ReadDone ==
  /\ at = "take" /\ length = 0 /\ INReady
  /\ at' = "finish" /\ bank' = {0}
  /\ UNCHANGED <<request, length, lastPacketFull, setup, out, stalled, addressed,
                 hostVars>>

(* ENDPOINT_RWCSTREAM_HostAborted; the caller does the same ClearIN(). *)
ReadAborted ==
  /\ at = "take" /\ length > 0 /\ setup
  /\ at' = "finish" /\ bank' = {0}
  /\ UNCHANGED <<request, length, lastPacketFull, setup, out, stalled, addressed,
                 hostVars>>

(* SetLineEncoding waits for its packet, without a look for a new request, *)
(* and then for the status stage.                                          *)
BeginBlock ==
  /\ at = "idle" /\ setup /\ asking.kind = "block"
  /\ request' = asking /\ setup' = FALSE /\ at' = "blockOut"
  /\ UNCHANGED <<length, lastPacketFull, out, bank, stalled, addressed, hostVars>>

BlockRead ==
  /\ at = "blockOut" /\ out # {} /\ out' = {}
  /\ at' = "statusIn"
  /\ UNCHANGED <<request, length, lastPacketFull, setup, bank, stalled,
                 addressed, hostVars>>

-----------------------------------------------------------------------------
(***************************************************************************)
(* Endpoint_ClearStatusStage: neither wait looks for a new setup packet.   *)
(***************************************************************************)
StatusOut ==
  /\ at = "statusOut" /\ out # {} /\ out' = {}
  /\ at' = "finish"
  /\ UNCHANGED <<request, length, lastPacketFull, setup, bank, stalled,
                 addressed, hostVars>>

StatusIn ==
  /\ at = "statusIn" /\ INReady /\ bank' = {0}
  /\ at' = IF request.kind = "address" THEN "addressIn" ELSE "finish"
  /\ UNCHANGED <<request, length, lastPacketFull, setup, out, stalled,
                 addressed, hostVars>>

(* Mutant: the address is enabled without waiting for the status stage. *)
AddressAtOnce ==
  /\ at = "addressIn" /\ at' = "finish"
  /\ addressed' = TRUE
  /\ UNCHANGED <<request, length, lastPacketFull, fifoVars, hostVars>>

(* USB_Device_SetAddress, when the host has taken the status packet. *)
AddressIn ==
  /\ at = "addressIn" /\ INReady /\ at' = "finish"
  /\ addressed' = TRUE
  /\ UNCHANGED <<request, length, lastPacketFull, fifoVars, hostVars>>

(* Mutant: a setup packet that is left is dropped without a stall. *)
FinishUnstalled ==
  /\ at = "finish" /\ at' = "idle"
  /\ setup' = FALSE
  /\ UNCHANGED <<request, length, lastPacketFull, out, bank, stalled,
                 addressed, hostVars>>

(***************************************************************************)
(* The end of USB_Device_ProcessControlRequest: a setup packet that is in  *)
(* the endpoint is refused.  It is the one that nobody answered, or one    *)
(* that came while another was being answered.                             *)
(***************************************************************************)
Finish ==
  /\ at = "finish" /\ at' = "idle"
  /\ setup' = FALSE /\ stalled' = (stalled \/ setup)
  /\ UNCHANGED <<request, length, lastPacketFull, out, bank, addressed, hostVars>>

Handler ==
  \/ BeginRead \/ BeginReport \/ BeginValue \/ BeginCommand \/ BeginUnknown
  \/ PacketDue \/ SendPacket \/ DataDone \/ StreamDone \/ StreamAborted
  \/ BeginWrite \/ PacketComing \/ ReadPacket \/ ReadDone \/ ReadAborted
  \/ BeginBlock \/ BlockRead
  \/ StatusOut \/ StatusIn \/ AddressIn \/ Finish

-----------------------------------------------------------------------------
(***************************************************************************)
(* The host.  After a transfer that is complete a new setup packet takes   *)
(* longer (10 us on the bus) than the handler needs to come to its end.    *)
(* The endpoint always takes it; it ends a stall and discards the packets  *)
(* that are there.                                                         *)
(***************************************************************************)
ToHost(r) == r.kind \in {"read", "value", "unknown"}

HasData(r) == ToHost(r) \/ (r.kind \in {"write", "block"} /\ r.asked > 0)

HostSetup(r) ==
  /\ stage = "idle" /\ (at = "idle" \/ gaveUp)
  /\ stage' = IF HasData(r) THEN "data" ELSE "status"
  /\ asking' = r /\ received' = 0 /\ gaveUp' = FALSE
  /\ cut' = (at # "idle")
  /\ setup' = TRUE /\ out' = {} /\ bank' = {} /\ stalled' = FALSE
  /\ UNCHANGED <<handlerVars, addressed>>

(* Until the setup packet is taken all other packets are refused. *)
Open == ~setup /\ ~stalled

(* A short packet, or all that was asked for, ends the data stage. *)
HostIn ==
  /\ stage = "data" /\ Open /\ ToHost(asking)
  /\ \E n \in bank :
       /\ received' = received + n
       /\ stage' = IF n < EpSize \/ received + n >= asking.asked
                     THEN "status" ELSE "data"
  /\ bank' = {}
  /\ UNCHANGED <<handlerVars, setup, out, stalled, addressed, asking, gaveUp, cut>>

(* Packets that are full, and the rest.                                    *)
HostOut ==
  /\ stage = "data" /\ Open /\ ~ToHost(asking) /\ out = {}
  /\ LET left == asking.asked - received
         n    == IF left < EpSize THEN left ELSE EpSize
     IN  /\ out' = {n} /\ received' = received + n
         /\ stage' = IF n = left THEN "status" ELSE "data"
  /\ UNCHANGED <<handlerVars, setup, bank, stalled, addressed, asking, gaveUp, cut>>

HostStatusOut ==
  /\ stage = "status" /\ Open /\ ToHost(asking) /\ out = {}
  /\ out' = {0} /\ stage' = "idle"
  /\ UNCHANGED <<handlerVars, setup, bank, stalled, addressed,
                 asking, received, gaveUp, cut>>

HostStatusIn ==
  /\ stage = "status" /\ Open /\ ~ToHost(asking) /\ bank # {}
  /\ bank' = {} /\ stage' = "idle"
  /\ UNCHANGED <<handlerVars, setup, out, stalled, addressed,
                 asking, received, gaveUp, cut>>

HostSeesStall ==
  /\ stage # "idle" /\ stalled
  /\ stage' = "idle"
  /\ UNCHANGED <<handlerVars, fifoVars, addressed, asking, received, gaveUp, cut>>

(* A time-out of the host's driver, or errors on the bus. *)
HostGivesUp ==
  /\ stage # "idle" /\ asking.kind \in Troubled
  /\ stage' = "idle" /\ gaveUp' = TRUE
  /\ UNCHANGED <<handlerVars, fifoVars, addressed, asking, received, cut>>

SomeSetup == \E r \in Requests : HostSetup(r)
Answer    == HostIn \/ HostOut \/ HostStatusOut \/ HostStatusIn \/ HostSeesStall

Next == Handler \/ SomeSetup \/ Answer \/ HostGivesUp

Spec == Init /\ [][Next]_vars

(***************************************************************************)
(* The handler goes on when it can, a host goes on with a transfer that it *)
(* has not given up, and one that has given up begins another.             *)
(***************************************************************************)
FairSpec ==
  Spec /\ WF_vars(Handler) /\ WF_vars(Answer) /\ WF_vars(SomeSetup)

-----------------------------------------------------------------------------
(* All variables keep their types; a packet fits the control endpoint.     *)
TypeOK ==
  /\ at \in Waits /\ request \in Requests
  /\ length \in Nat /\ lastPacketFull \in BOOLEAN
  /\ setup \in BOOLEAN /\ stalled \in BOOLEAN
  /\ out = {} \/ \E n \in 0 .. EpSize : out = {n}
  /\ bank = {} \/ \E n \in 0 .. EpSize : bank = {n}
  /\ addressed \in BOOLEAN
  /\ stage \in Stages /\ asking \in Requests /\ received \in Nat
  /\ gaveUp \in BOOLEAN /\ cut \in BOOLEAN

(* The host never gets more than wLength, however the packets and its tests*)
(* for the end of the data fall, but from the two places in the code that  *)
(* do not look at it: a report ID comes on top of a whole wLength, and an  *)
(* answer of one packet is sent as it is.                                  *)
ReceivedWithinAsked ==
  \/ received <= asking.asked
  \/ asking.kind = "read" /\ received = asking.asked + asking.id
  \/ asking.kind = "value" /\ received = asking.size

(* When the host ends the data stage of a GetDescriptor or GetReport it has*)
(* all of the data, also when that fills its last packet exactly; only the *)
(* byte that a report ID has pushed beyond wLength may be missing.  When   *)
(* the device tells it that a SetReport is done, the device has all of it. *)
DataComplete ==
  /\ stage = "status" /\ asking.kind = "read" =>
       \/ received = AnswerLength(asking)
       \/ received = asking.asked /\ asking.asked < AnswerLength(asking)
  /\ stage # "idle" /\ Open /\ asking.kind = "write" /\ bank # {} =>
       received = asking.asked /\ request = asking /\ length = 0

(* A request that comes while another is waited for gets nothing of the    *)
(* answer to that, even if a packet of it was written after the request    *)
(* came (between the test for a setup packet and ClearIN): it is stalled.  *)
CutRequestsGetNothing ==
  cut => /\ received = 0
         /\ stage = "idle" => gaveUp \/ stalled

(* Only requests that the device does not know are refused, and those that *)
(* cut off another.                                                        *)
OnlyUnknownStalled ==
  stalled /\ stage # "idle" => asking.kind = "unknown" \/ cut

(* The device listens to its new address only after the host has got the   *)
(* status of SetAddress, which still goes to the old one.                  *)
AddressAfterStatus ==
  [][~addressed /\ addressed' => ~(stage = "status" /\ asking.kind = "address")]_vars

(* Every request that is taken is done with in the end: the Timer 4 handler*)
(* does not stay in a control transfer for ever.                           *)
HandlerReturns == at # "idle" ~> at = "idle"

(* Every request that the host does not give up ends: both sides agree on  *)
(* where the data stage ends and who speaks next.                          *)
RequestsEnd == stage # "idle" ~> stage = "idle"
=============================================================================
