------------------------------ MODULE UsbMouse ------------------------------
(***************************************************************************)
(* The USB side of the adapter (src/mouse.c) on top of the LUFA HID class  *)
(* driver: from a velocity and the buttons to what the host learns.        *)
(*                                                                         *)
(* Once per update the Timer 4 handler calls setUsbMouse and handleUsb,    *)
(* which runs HID_Device_USBTask and USB_USBTask.  These three are steps   *)
(* here: no other handler runs between them, but the USB hardware and the  *)
(* host go on, so a frame may begin, the endpoint may be read out, a setup *)
(* packet may arrive or the bus may be reset between any two.  Bus events  *)
(* raise a flag that the USB_GEN handler sees only between two updates.    *)
(*                                                                         *)
(* A control request is taken as one step, with the host playing its part  *)
(* of the transfer.                                                        *)
(***************************************************************************)
EXTENDS Integers

CONSTANTS
  Axis,           \* {"X", "Y"}: both are reported in the same way
  Velocity,       \* the velocities that occur, 0 among them
  Button,         \* the buttons
  Requests,       \* the class requests the host makes, see Post
  IdleValues,     \* the idle periods the host sets, in frames; 0 is none
  DefaultIdle,    \* the idle period after configuration (500)
  LastFrame,      \* frame numbers are cyclic: 0 to 2047 (UDFNUM, 11 bits)
  MinFrames, MaxFrames,   \* frames from one update to the next (20 or 21)
  BusEvents       \* the events that occur: "reset", "suspend"

ASSUME UsbAssumption ==
  /\ Velocity \subseteq Int /\ 0 \in Velocity
  /\ IdleValues \subseteq Nat /\ DefaultIdle \in Nat
  /\ LastFrame \in Nat
  /\ MinFrames \in Nat /\ MaxFrames \in Nat /\ MinFrames <= MaxFrames

(* Updates are at least a frame and less than a whole cycle of frame       *)
(* numbers apart.                                                          *)
ASSUME FrameAssumption ==
  DefaultIdle > 0 /\ MinFrames > 0 /\ MaxFrames <= LastFrame

NoMotion  == [a \in Axis |-> 0]
NoReport  == [motion |-> NoMotion, buttons |-> {}]
Report    == [motion : [Axis -> Velocity], buttons : SUBSET Button]

(* Control requests; the argument is the configuration, the idle period or *)
(* the protocol.                                                           *)
Request(kind, arg) == [kind |-> kind, arg |-> arg]
NoRequest == Request("None", 0)

VARIABLES
  at,             \* the step the Timer 4 handler is at, "main" between two
  (* mouse.c *)
  mouse_report_data, needs_update,
  prevReport,     \* PrevMouseHIDReportBuffer
  (* the State of Mouse_HID_Interface *)
  prevFrameNum, idleCount, idleRemaining, usingReportProtocol,
  (* the LUFA device core *)
  deviceState,    \* USB_DeviceState
  configNumber,   \* USB_Device_ConfigurationNumber
  awaitWake,      \* WAKEUPI is enabled and SUSPI is not, or the reverse
  sofEnabled,     \* SOFI is enabled
  (* the USB controller (external) *)
  frame,          \* UDFNUM
  framesSince,    \* frames since the last update
  sofi, suspi, wakeupi, eorsti,   \* interrupt flags in UDINT
  addressed,      \* UDADDR.ADDEN
  epReady,        \* the report endpoint is configured
  bank,           \* its only bank: the set of the reports in it
  setup,          \* the control request that is pending
  (* the host (external) *)
  busActive,      \* the bus is not suspended
  host,           \* how far it has enumerated the adapter
  hostButtons,    \* the buttons of the last report it received
  (* history *)
  prompt,         \* it found each report read before the next, since it
                  \* was configured and awake
  undelivered,    \* while that is so: velocities handed over less received
  lost,           \* and what was handed over in an update that was missed
  first,          \* "due" until it has received a report since it configured
                  \* the adapter, "missed" from an update that was not sent
  overtaken       \* GetReport came while an older report was in the bank

reportVars  == <<mouse_report_data, needs_update, prevReport>>
stateVars   == <<prevFrameNum, idleCount, idleRemaining, usingReportProtocol>>
coreVars    == <<deviceState, configNumber, awaitWake, sofEnabled>>
frameVars   == <<frame, framesSince>>
flagVars    == <<sofi, suspi, wakeupi, eorsti>>
epVars      == <<addressed, epReady, bank, setup>>
hostVars    == <<busActive, host, hostButtons>>
lossVars    == <<lost, first>>
historyVars == <<prompt, undelivered, lossVars, overtaken>>
vars == <<at, reportVars, stateVars, coreVars, frameVars, flagVars, epVars,
          hostVars, historyVars>>

-----------------------------------------------------------------------------
(***************************************************************************)
(* setupUsbMouse(): the report is empty, needs_update is still set by its  *)
(* initialiser, handleUsb() finds no attached device, and USB_Init leaves  *)
(* the controller waiting.  The adapter is then plugged in and powered.    *)
(***************************************************************************)
Init ==
  /\ at = "main"
  /\ mouse_report_data = NoReport /\ needs_update = TRUE /\ prevReport = NoReport
  /\ prevFrameNum = 0 /\ idleCount = 0 /\ idleRemaining = 0
  /\ usingReportProtocol = FALSE
  /\ deviceState = "Powered" /\ configNumber = 0
  /\ awaitWake = FALSE /\ sofEnabled = FALSE
  /\ frame \in 0 .. LastFrame /\ framesSince = 0
  /\ sofi = FALSE /\ suspi = FALSE /\ wakeupi = FALSE /\ eorsti = FALSE
  /\ addressed = FALSE /\ epReady = FALSE /\ bank = {} /\ setup = NoRequest
  /\ busActive = TRUE /\ host = "attached" /\ hostButtons = {}
  /\ prompt = FALSE /\ undelivered = NoMotion /\ overtaken = FALSE
  /\ lost = NoMotion /\ first = "done"

(* The interrupts of the bus that are enabled and pending.  Their handler  *)
(* comes before that of Timer 4.                                           *)
SuspendSeen == suspi /\ ~awaitWake
WakeSeen    == wakeupi /\ (awaitWake \/ SuspendSeen)
UsbGenPending == (sofi /\ sofEnabled) \/ SuspendSeen \/ WakeSeen \/ eorsti

(* Mutant: a velocity that is the same as the last is no reason to report. *)
ReportChangesOnly(motion, buttons) ==
  \/ \E a \in Axis : motion[a] # mouse_report_data.motion[a]
  \/ buttons # mouse_report_data.buttons

ReportNeeded(motion, buttons) ==
  \/ \E a \in Axis : motion[a] # 0 \/ motion[a] # mouse_report_data.motion[a]
  \/ buttons # mouse_report_data.buttons

(***************************************************************************)
(* setUsbMouse(x, y, button), called by updateUsbMouse.  A velocity other  *)
(* than 0 is always a reason to report; a 0 only when it replaces another. *)
(***************************************************************************)
SetUsbMouse(motion, buttons) ==
  /\ at = "main" /\ at' = "hid"
  /\ ~UsbGenPending
  /\ busActive => framesSince >= MinFrames
  /\ mouse_report_data' = [motion |-> motion, buttons |-> buttons]
  /\ needs_update' = (needs_update \/ ReportNeeded(motion, buttons))
  /\ prompt' = (prompt /\ bank = {} /\ busActive /\ deviceState = "Configured")
  /\ undelivered' = IF prompt'
                      THEN [a \in Axis |-> undelivered[a] + motion[a]]
                      ELSE NoMotion
  /\ lost' = IF prompt' THEN lost ELSE NoMotion
  /\ UNCHANGED <<first, overtaken>>
  /\ UNCHANGED <<prevReport, stateVars, coreVars, frameVars, flagVars, epVars,
                 hostVars>>

IdlePeriodElapsed == idleCount # 0 /\ idleRemaining = 0

(***************************************************************************)
(* HID_Device_USBTask, with CALLBACK_HID_Device_CreateHIDReport inlined:   *)
(* the report is created (and needs_update consumed) whenever the bank is  *)
(* free, and sent if it is forced, has changed, or the idle period is over.*)
(*                                                                         *)
(* A frame sees one report at most.  As PrevFrameNum is cleared to 0 when  *)
(* the interface is configured, the first update after that is passed over *)
(* if it falls into frame 0; the next setUsbMouse overwrites its motion.   *)
(***************************************************************************)
CanReport ==
  /\ deviceState = "Configured"
  /\ prevFrameNum # frame
  /\ epReady /\ bank = {}

Missed ==
  /\ first = "due"
  /\ deviceState = "Configured" /\ prevFrameNum = frame /\ epReady /\ bank = {}

(* Mutant: only a report that differs from the last is sent, forced or not. *)
MustSendChanges == mouse_report_data # prevReport \/ IdlePeriodElapsed

MustSend ==
  needs_update \/ mouse_report_data # prevReport \/ IdlePeriodElapsed

HidTask ==
  /\ at = "hid" /\ at' = "usb"
  /\ framesSince' = 0
  /\ IF CanReport
       THEN /\ needs_update' = FALSE
            /\ prevReport' = mouse_report_data
            /\ prevFrameNum' = frame
            /\ IF MustSend
                 THEN /\ bank' = {mouse_report_data} /\ idleRemaining' = idleCount
                      /\ overtaken' = FALSE
                 ELSE UNCHANGED <<bank, idleRemaining, overtaken>>
       ELSE UNCHANGED <<needs_update, prevReport, prevFrameNum, bank,
                        idleRemaining, overtaken>>
  /\ first' = IF Missed THEN "missed" ELSE first
  /\ lost' = IF Missed /\ prompt THEN mouse_report_data.motion ELSE lost
  /\ UNCHANGED <<mouse_report_data, idleCount, usingReportProtocol, coreVars,
                 frame, flagVars, addressed, epReady, setup, hostVars, prompt,
                 undelivered>>

-----------------------------------------------------------------------------
(***************************************************************************)
(* USB_USBTask: at most one control request is served.  Standard requests  *)
(* are served by USB_Device_ProcessControlRequest after the HID driver has *)
(* declined them; the driver serves the class requests.                    *)
(***************************************************************************)
Serve(r) ==
  /\ at = "usb" /\ at' = "main"
  /\ setup = r /\ setup' = NoRequest

(* No request, or one that only reads: descriptors, status, idle period... *)
ServeNothing ==
  /\ Serve(NoRequest) \/ Serve(Request("Query", 0))
  /\ UNCHANGED <<reportVars, stateVars, coreVars, frameVars, flagVars, addressed,
                 epReady, bank, hostVars, historyVars>>

SetAddress ==
  /\ Serve(Request("SetAddress", 0))
  /\ addressed' = TRUE
  /\ deviceState' = "Addressed"
  /\ host' = "addressed"
  /\ prompt' = FALSE /\ undelivered' = NoMotion /\ lost' = NoMotion
  /\ UNCHANGED <<reportVars, stateVars, configNumber, awaitWake, sofEnabled,
                 frameVars, flagVars, epReady, bank, busActive, hostButtons,
                 first, overtaken>>

(* Mutant: the idle period that the host had set is kept.                  *)
ConfigureKeepingIdle ==
  /\ usingReportProtocol' = TRUE
  /\ prevFrameNum' = 0
  /\ epReady' = TRUE /\ bank' = {}
  /\ UNCHANGED <<idleCount, idleRemaining>>

(* HID_Device_ConfigureEndpoints: the State is cleared and has its         *)
(* defaults; the endpoint is configured, which empties its bank.           *)
ConfigureEndpoints ==
  /\ usingReportProtocol' = TRUE
  /\ idleCount' = DefaultIdle /\ idleRemaining' = 0 /\ prevFrameNum' = 0
  /\ epReady' = TRUE /\ bank' = {}

(* SetConfiguration, and EVENT_USB_Device_ConfigurationChanged: the        *)
(* interface is configured and start of frame events are enabled.          *)
SetConfiguration(c) ==
  /\ Serve(Request("SetConfiguration", c))
  /\ configNumber' = c
  /\ deviceState' = IF c # 0 \/ addressed THEN "Configured" ELSE "Powered"
  /\ ConfigureEndpoints
  /\ sofEnabled' = TRUE
  /\ host' = IF c # 0 THEN "configured" ELSE "addressed"
  /\ hostButtons' = {}
  /\ prompt' = (c # 0) /\ undelivered' = NoMotion /\ overtaken' = FALSE
  /\ lost' = NoMotion /\ first' = "due"
  /\ UNCHANGED <<reportVars, awaitWake, frameVars, flagVars, addressed,
                 busActive>>

(* GetReport creates a report of its own for the host, and makes it the    *)
(* one that later reports are compared with.                               *)
GetReport ==
  /\ Serve(Request("GetReport", 0))
  /\ needs_update' = FALSE
  /\ prevReport' = mouse_report_data
  /\ hostButtons' = mouse_report_data.buttons
  /\ overtaken' = (bank \ {mouse_report_data} # {})
  /\ first' = IF first = "missed" THEN "done" ELSE first
  /\ UNCHANGED <<mouse_report_data, stateVars, coreVars, frameVars, flagVars,
                 addressed, epReady, bank, busActive, host, prompt, undelivered,
                 lost>>

SetIdle(i) ==
  /\ Serve(Request("SetIdle", i))
  /\ idleCount' = i
  /\ UNCHANGED <<reportVars, prevFrameNum, idleRemaining, usingReportProtocol,
                 coreVars, frameVars, flagVars, addressed, epReady, bank,
                 hostVars, historyVars>>

SetProtocol(p) ==
  /\ Serve(Request("SetProtocol", p))
  /\ usingReportProtocol' = (p # 0)
  /\ UNCHANGED <<reportVars, prevFrameNum, idleCount, idleRemaining, coreVars,
                 frameVars, flagVars, addressed, epReady, bank, hostVars,
                 historyVars>>

UsbTask ==
  \/ ServeNothing
  \/ SetAddress
  \/ \E c \in {0, 1} : SetConfiguration(c)
  \/ GetReport
  \/ \E i \in IdleValues : SetIdle(i)
  \/ \E p \in {0, 1} : SetProtocol(p)

-----------------------------------------------------------------------------
(* Mutant: the idle period is counted down below zero. *)
MillisecondElapsedUnguarded == idleRemaining - 1

(* HID_Device_MillisecondElapsed *)
MillisecondElapsed == IF idleRemaining # 0 THEN idleRemaining - 1 ELSE 0

(* Mutant: the adapter forgets that it is configured when it sleeps. *)
UnconfiguredAfterWake == IF addressed THEN "Addressed" ELSE "Powered"

StateAfterWake ==
  IF configNumber # 0 THEN "Configured"
  ELSE IF addressed THEN "Addressed" ELSE "Powered"

(***************************************************************************)
(* ISR(USB_GEN_vect): one pass over the flags, in this order.  A start of  *)
(* frame counts down the idle period.                                      *)
(***************************************************************************)
UsbGenIsr ==
  /\ at = "main"
  /\ UsbGenPending
  /\ idleRemaining' = IF sofi /\ sofEnabled THEN MillisecondElapsed
                                            ELSE idleRemaining
  /\ sofi' = IF sofEnabled THEN FALSE ELSE sofi
  /\ deviceState' = CASE eorsti -> "Default"
                      [] WakeSeen /\ ~eorsti -> StateAfterWake
                      [] SuspendSeen /\ ~WakeSeen /\ ~eorsti -> "Suspended"
                      [] OTHER -> deviceState
  /\ configNumber' = IF eorsti THEN 0 ELSE configNumber
  /\ awaitWake' = (eorsti \/ (~WakeSeen /\ (SuspendSeen \/ awaitWake)))
  /\ suspi' = IF eorsti THEN FALSE ELSE suspi
  /\ wakeupi' = IF WakeSeen THEN FALSE ELSE wakeupi
  /\ eorsti' = FALSE
  /\ UNCHANGED <<at, reportVars, prevFrameNum, idleCount, usingReportProtocol,
                 sofEnabled, frameVars, epVars, hostVars, historyVars>>

-----------------------------------------------------------------------------
(* The USB controller: a frame begins; the bus is suspended, resumed or    *)
(* reset, and a reset disables all endpoints and the address.              *)
NextFrame(f) == IF f = LastFrame THEN 0 ELSE f + 1

StartOfFrame ==
  /\ busActive /\ framesSince < MaxFrames
  /\ frame' = NextFrame(frame) /\ framesSince' = framesSince + 1
  /\ sofi' = TRUE
  /\ UNCHANGED <<at, reportVars, stateVars, coreVars, suspi, wakeupi, eorsti,
                 epVars, hostVars, historyVars>>

Suspend ==
  /\ "suspend" \in BusEvents
  /\ busActive /\ setup = NoRequest
  /\ busActive' = FALSE
  /\ suspi' = TRUE
  /\ UNCHANGED <<at, reportVars, stateVars, coreVars, frameVars, sofi, wakeupi,
                 eorsti, epVars, host, hostButtons, historyVars>>

(* Activity on the bus: the host resumes a suspended adapter, or the       *)
(* handler of a reset has begun to wait for what is there anyway.  Resume  *)
(* signalling outlasts any handler, so that the adapter is awake before    *)
(* the bus carries frames and requests again.                              *)
BusActivity ==
  /\ awaitWake /\ ~wakeupi
  /\ wakeupi' = TRUE /\ suspi' = FALSE
  /\ UNCHANGED <<at, reportVars, stateVars, coreVars, frameVars, sofi, eorsti,
                 epVars, hostVars, historyVars>>

Resume ==
  /\ ~busActive /\ ~suspi /\ ~wakeupi /\ ~awaitWake
  /\ busActive' = TRUE
  /\ UNCHANGED <<at, reportVars, stateVars, coreVars, frameVars, flagVars,
                 epVars, host, hostButtons, historyVars>>

BusReset ==
  /\ busActive
  /\ host = "attached" \/ "reset" \in BusEvents
  /\ host' = "reset" /\ hostButtons' = {}
  /\ eorsti' = TRUE
  /\ addressed' = FALSE /\ epReady' = FALSE
  /\ bank' = {} /\ setup' = NoRequest
  /\ prompt' = FALSE /\ undelivered' = NoMotion /\ overtaken' = FALSE
  /\ lost' = NoMotion /\ first' = "done"
  /\ UNCHANGED <<at, reportVars, stateVars, coreVars, frameVars, sofi, suspi,
                 wakeupi, busActive>>

-----------------------------------------------------------------------------
(* The host enumerates the adapter, makes the requests it wants to make,   *)
(* one at a time and not while the adapter recovers from a reset, and      *)
(* reads the report endpoint when the adapter is configured.               *)
Post(r) ==
  /\ setup = NoRequest /\ busActive /\ ~eorsti
  /\ \/ host = "reset"      /\ r.kind \in {"SetAddress", "Query"}
     \/ host = "addressed"  /\ r.kind \in {"SetConfiguration", "Query"}
     \/ host = "configured"
  /\ setup' = r
  /\ UNCHANGED <<at, reportVars, stateVars, coreVars, frameVars, flagVars,
                 addressed, epReady, bank, hostVars, historyVars>>

Poll ==
  /\ host = "configured" /\ busActive /\ epReady
  /\ \E report \in bank :
       /\ hostButtons' = report.buttons
       /\ undelivered' = IF prompt
                           THEN [a \in Axis |-> undelivered[a] - report.motion[a]]
                           ELSE undelivered
  /\ bank' = {} /\ first' = "done"
  /\ UNCHANGED <<at, reportVars, stateVars, coreVars, frameVars, flagVars,
                 addressed, epReady, setup, busActive, host, prompt, lost,
                 overtaken>>

-----------------------------------------------------------------------------
Update == \E motion \in [Axis -> Velocity], buttons \in SUBSET Button :
            SetUsbMouse(motion, buttons)

Next ==
  \/ Update
  \/ HidTask
  \/ UsbTask
  \/ UsbGenIsr
  \/ StartOfFrame
  \/ Suspend
  \/ BusActivity
  \/ Resume
  \/ BusReset
  \/ \E r \in Requests : Post(r)
  \/ Poll

Spec == Init /\ [][Next]_vars

(* The timer and the hardware go on, and the host keeps reading.  An update *)
(* that is due stays due while the bus is suspended and resumed.           *)
Fairness ==
  /\ SF_vars(Update) /\ WF_vars(HidTask) /\ WF_vars(UsbTask)
  /\ WF_vars(UsbGenIsr) /\ WF_vars(StartOfFrame) /\ WF_vars(Poll)

FairSpec == Spec /\ Fairness

-----------------------------------------------------------------------------
TypeOK ==
  /\ at \in {"main", "hid", "usb"}
  /\ mouse_report_data \in Report /\ prevReport \in Report
  /\ needs_update \in BOOLEAN
  /\ prevFrameNum \in 0 .. LastFrame
  /\ idleCount \in {0, DefaultIdle} \cup IdleValues /\ idleRemaining \in Nat
  /\ usingReportProtocol \in BOOLEAN
  /\ deviceState \in {"Powered", "Default", "Addressed", "Configured", "Suspended"}
  /\ configNumber \in {0, 1}
  /\ awaitWake \in BOOLEAN /\ sofEnabled \in BOOLEAN
  /\ frame \in 0 .. LastFrame /\ framesSince \in 0 .. MaxFrames
  /\ sofi \in BOOLEAN /\ suspi \in BOOLEAN /\ wakeupi \in BOOLEAN /\ eorsti \in BOOLEAN
  /\ addressed \in BOOLEAN /\ epReady \in BOOLEAN
  /\ bank = {} \/ \E r \in Report : bank = {r}
  /\ setup \in Requests \cup {NoRequest}
  /\ busActive \in BOOLEAN
  /\ host \in {"attached", "reset", "addressed", "configured"}
  /\ hostButtons \in SUBSET Button
  /\ prompt \in BOOLEAN /\ undelivered \in [Axis -> Int] /\ overtaken \in BOOLEAN
  /\ lost \in [Axis -> Int] /\ first \in {"due", "missed", "done"}

InBank(a) == IF bank = {} THEN 0 ELSE (CHOOSE r \in bank : TRUE).motion[a]

(* With a host that reads each report before the next update, every        *)
(* velocity handed over reaches it through the endpoint exactly once: what *)
(* is owed to it is what lies in the bank or is about to be put there, and *)
(* what it never gets is the motion of at most one update, the first since *)
(* it configured the adapter.                                              *)
MotionConserved ==
  prompt =>
    /\ lost # NoMotion => first # "due"
    /\ \A a \in Axis :
         undelivered[a] = InBank(a) + lost[a]
                        + (IF at = "hid" THEN mouse_report_data.motion[a] ELSE 0)

(* The driver has no reason left to send a report, and none is waiting. *)
Quiet ==
  /\ host = "configured" /\ deviceState = "Configured" /\ at = "main"
  /\ bank = {} /\ ~MustSend

(* "report changes must be sent immediately to the host"                   *)
(* (PrevReportINBuffer, HIDClassDevice.h): when the driver is quiet, the   *)
(* host knows the buttons, if its first update was not missed.             *)
ChangesAreSent ==
  Quiet /\ first # "missed" => hostButtons = mouse_report_data.buttons

(* So it is, unless GetReport came while an older report was waiting:      *)
(* after any resets, suspends, updates that found a report unread, updates *)
(* that changed nothing and requests of the host.                          *)
QuietMeansKnown ==
  Quiet /\ ~overtaken /\ first # "missed" => hostButtons = mouse_report_data.buttons

(* To a host that keeps up, the adapter is a channel that delivers every   *)
(* update before the next one is handed over, and never holds it back; it  *)
(* may miss the first.                                                     *)
Channel ==
  INSTANCE MouseChannel
    WITH up      <- prompt,
         full    <- prompt /\ (at = "hid" \/ bank # {}),
         owed    <- [a \in Axis |-> undelivered[a] - lost[a]],
         first   <- first,
         current <- mouse_report_data.buttons,
         known   <- hostButtons

ChannelSpec == Channel!Spec

(* Buttons that stay as they are become known to the host and stay known,  *)
(* once it has done with its requests (see QuietMeansKnown for overtaken   *)
(* and missed).                                                            *)
HostLearnsButtons ==
  \A B \in SUBSET Button :
    <>[](host = "configured" /\ busActive /\ setup = NoRequest
           /\ ~overtaken /\ first # "missed" /\ mouse_report_data.buttons = B)
      => <>[](hostButtons = B)
=============================================================================
