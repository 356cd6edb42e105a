--------------------------- MODULE UsbMouse_proofs ---------------------------
(***************************************************************************)
(* Proofs about UsbMouse, for any axes, velocities and buttons, any idle   *)
(* periods and requests, and frames that FrameAssumption allows.           *)
(***************************************************************************)
EXTENDS UsbMouse, TLAPS

(* A host that keeps up is one that has configured the adapter; to another *)
(* nothing is owed.                                                        *)
PromptHost ==
  /\ prompt => host = "configured" /\ epReady /\ ~overtaken
  /\ ~prompt => undelivered = NoMotion /\ lost = NoMotion

(* It has read the endpoint before an update, and afterwards only the      *)
(* report of this update can be there.                                     *)
PromptBank ==
  prompt =>
    /\ at = "hid" => bank = {} /\ deviceState = "Configured" /\ framesSince >= 1
    /\ at # "hid" => bank \subseteq {mouse_report_data}

(* An update that is no reason to report has no motion.                    *)
NoNeedNoMotion ==
  at = "hid" /\ ~needs_update => mouse_report_data.motion = NoMotion

FrameCycle == LastFrame + 1

(* The frame of the last report, or that of the update that was missed, is *)
(* framesSince frames ago.                                                 *)
FrameKnown ==
  prompt =>
    \/ first = "due" /\ bank = {}
    \/ frame - prevFrameNum = framesSince
    \/ frame - prevFrameNum = framesSince - FrameCycle

(* Between the events of the bus and their handler.                        *)
BusSeen ==
  /\ eorsti => host = "reset"
  /\ setup # NoRequest => busActive /\ ~eorsti
  /\ suspi => ~busActive
  /\ deviceState = "Suspended" => awaitWake /\ ~busActive

HostConfigured ==
  host = "configured" =>
    /\ configNumber # 0 /\ deviceState \in {"Configured", "Suspended"}
    /\ epReady

(* A configuration with nothing sent yet: the idle period is over.         *)
Fresh ==
  /\ idleCount = DefaultIdle /\ idleRemaining = 0
  /\ prevFrameNum = 0
  /\ at = "usb" => deviceState = "Suspended"

FirstIsDue ==
  host = "configured" /\ first = "due" /\ bank = {} => Fresh

(* The buttons that the host knows, or will when it has read the endpoint, *)
(* are those that changes are compared with.                               *)
HostTold ==
  host = "configured" /\ ~overtaken =>
    \/ bank = {} /\ first \in {"due", "missed"}
    \/ bank = {} /\ hostButtons = prevReport.buttons
    \/ \E r \in bank : r.buttons = prevReport.buttons

IInv ==
  /\ TypeOK
  /\ MotionConserved
  /\ PromptHost
  /\ PromptBank
  /\ NoNeedNoMotion
  /\ FrameKnown
  /\ BusSeen
  /\ HostConfigured
  /\ FirstIsDue /\ HostTold

-----------------------------------------------------------------------------
(* The type invariant in four parts: mouse.c and the HID driver, the device*)
(* core and the controller, the endpoints, the host.                       *)
DriverType ==
  /\ at \in {"main", "hid", "usb"}
  /\ mouse_report_data \in Report /\ prevReport \in Report
  /\ needs_update \in BOOLEAN
  /\ prevFrameNum \in 0 .. LastFrame
  /\ idleCount \in {0, DefaultIdle} \cup IdleValues /\ idleRemaining \in Nat
  /\ usingReportProtocol \in BOOLEAN

CoreType ==
  /\ deviceState \in {"Powered", "Default", "Addressed", "Configured", "Suspended"}
  /\ configNumber \in {0, 1}
  /\ awaitWake \in BOOLEAN /\ sofEnabled \in BOOLEAN
  /\ frame \in 0 .. LastFrame /\ framesSince \in 0 .. MaxFrames
  /\ sofi \in BOOLEAN /\ suspi \in BOOLEAN /\ wakeupi \in BOOLEAN
  /\ eorsti \in BOOLEAN

EndpointType ==
  /\ addressed \in BOOLEAN /\ epReady \in BOOLEAN
  /\ bank = {} \/ \E r \in Report : bank = {r}
  /\ setup \in Requests \cup {NoRequest}

HostType ==
  /\ busActive \in BOOLEAN
  /\ host \in {"attached", "reset", "addressed", "configured"}
  /\ hostButtons \in SUBSET Button
  /\ prompt \in BOOLEAN /\ undelivered \in [Axis -> Int]
  /\ overtaken \in BOOLEAN
  /\ lost \in [Axis -> Int] /\ first \in {"due", "missed", "done"}

LEMMA TypeParts ==
  /\ TypeOK <=> DriverType /\ CoreType /\ EndpointType /\ HostType
  /\ TypeOK' <=> DriverType' /\ CoreType' /\ EndpointType' /\ HostType'
  BY DEF TypeOK, DriverType, CoreType, EndpointType, HostType
-----------------------------------------------------------------------------
LEMMA ReportFacts ==
  /\ NoMotion \in [Axis -> Velocity] /\ NoMotion \in [Axis -> Int] /\ NoReport \in Report
  /\ \A r \in Report :
       r.motion \in [Axis -> Velocity] /\ r.buttons \in SUBSET Button
  /\ \A m \in [Axis -> Velocity], b \in SUBSET Button :
       /\ [motion |-> m, buttons |-> b] \in Report
       /\ [motion |-> m, buttons |-> b].motion = m
       /\ [motion |-> m, buttons |-> b].buttons = b
  /\ \A m \in [Axis -> Velocity], a \in Axis : m[a] \in Int
  BY UsbAssumption DEF NoMotion, NoReport, Report

LEMMA RequestFacts ==
  \A arg : \A k \in {"SetAddress", "SetConfiguration", "GetReport", "SetIdle",
                     "SetProtocol", "Query"} : Request(k, arg) # NoRequest
  <1> TAKE arg
  <1> TAKE k \in {"SetAddress", "SetConfiguration", "GetReport", "SetIdle",
                  "SetProtocol", "Query"}
  <1>1. Request(k, arg).kind = k /\ NoRequest.kind = "None" BY DEF Request, NoRequest
  <1>2. k # "None" OBVIOUS
  <1> QED BY <1>1, <1>2

(* What a bank with one report holds. *)
LEMMA BankFacts ==
  ASSUME TypeOK
  PROVE  /\ \A r \in bank : r \in Report /\ bank = {r}
         /\ bank = {} => \A a \in Axis : InBank(a) = 0
         /\ \A r \in bank : \A a \in Axis : InBank(a) = r.motion[a]
  <1>1. \A r \in bank : r \in Report /\ bank = {r} BY DEF TypeOK
  <1>2. ASSUME NEW r \in bank, NEW a \in Axis PROVE InBank(a) = r.motion[a]
    <2>1. bank = {r} BY <1>1
    <2>2. (CHOOSE x \in {r} : TRUE) = r OBVIOUS
    <2> QED BY <2>1, <2>2 DEF InBank
  <1> QED BY <1>1, <1>2 DEF InBank

LEMMA InitIInv == Init => IInv
  <1> SUFFICES ASSUME Init PROVE IInv OBVIOUS
  <1> USE DEF Init
  <1>1. TypeOK
    <2>1. NoReport \in Report /\ NoMotion \in [Axis -> Int] BY ReportFacts
    <2>2. 0 \in 0 .. MaxFrames /\ 0 \in 0 .. LastFrame BY UsbAssumption
    <2>3. DriverType BY <2>1, <2>2 DEF DriverType
    <2>4. CoreType BY <2>2 DEF CoreType
    <2>5. EndpointType /\ HostType BY <2>1 DEF EndpointType, HostType
    <2> QED BY <2>3, <2>4, <2>5, TypeParts
  <1>2. MotionConserved BY DEF MotionConserved
  <1>3. PromptHost /\ PromptBank /\ FrameKnown BY DEF PromptHost, PromptBank, FrameKnown
  <1>4. NoNeedNoMotion BY DEF NoNeedNoMotion
  <1>5. BusSeen /\ HostConfigured /\ FirstIsDue /\ HostTold
    BY DEF BusSeen, HostConfigured, FirstIsDue, HostTold
  <1> QED BY <1>1, <1>2, <1>3, <1>4, <1>5 DEF IInv

-----------------------------------------------------------------------------
(* Each step of the adapter keeps IInv: a lemma for each action, with a    *)
(* step for each conjunct.                                                 *)
LEMMA UpdateStep ==
  ASSUME IInv, NEW motion \in [Axis -> Velocity], NEW buttons \in SUBSET Button,
         SetUsbMouse(motion, buttons)
  PROVE  IInv'
  <1> USE DEF IInv, SetUsbMouse, stateVars, coreVars, frameVars,
             flagVars, epVars, hostVars
  <1> DEFINE new == [motion |-> motion, buttons |-> buttons]
  <1>a. new \in Report /\ new.motion = motion /\ new.buttons = buttons BY ReportFacts
  <1>b. \A a \in Axis : motion[a] \in Int BY ReportFacts
  <1>c. TypeOK /\ NoMotion \in [Axis -> Int] /\ mouse_report_data' = new BY ReportFacts
  <1> HIDE DEF new
  <1>1. TypeOK'
    <2>1. undelivered' \in [Axis -> Int] /\ lost' \in [Axis -> Int] BY <1>b, <1>c DEF TypeOK
    <2>2. needs_update' \in BOOLEAN /\ prompt' \in BOOLEAN BY DEF TypeOK, ReportNeeded
    <2> QED BY <1>a, <1>c, <2>1, <2>2 DEF TypeOK
  <1>2. MotionConserved'
    <2>0. prompt' => prompt /\ at = "main" /\ bank = {} /\ bank' = {} /\ lost' = lost OBVIOUS
    <2> SUFFICES ASSUME prompt', NEW a \in Axis
                 PROVE  undelivered'[a] = InBank(a)' + lost[a] + mouse_report_data'.motion[a]
      BY <2>0 DEF MotionConserved
    <2>1. undelivered[a] = lost[a] /\ lost[a] \in Int
      <3>1. InBank(a) = 0 BY <2>0 DEF InBank
      <3>2. undelivered[a] = InBank(a) + lost[a] + 0 BY <2>0 DEF MotionConserved
      <3>3. lost[a] \in Int BY DEF TypeOK
      <3> QED BY <3>1, <3>2, <3>3
    <2>2. InBank(a)' = 0 BY <2>0 DEF InBank
    <2>3. undelivered'[a] = undelivered[a] + motion[a] BY DEF TypeOK
    <2> QED BY <1>a, <1>b, <1>c, <2>1, <2>2, <2>3
  <1>3. PromptHost' BY DEF PromptHost
  <1>4. PromptBank'
    <2>1. prompt' => framesSince >= 1 BY UsbAssumption, FrameAssumption DEF TypeOK
    <2> QED BY <2>1 DEF PromptBank
  <1>5. NoNeedNoMotion'
    <2> SUFFICES ASSUME ~needs_update' PROVE motion = NoMotion
      BY <1>a, <1>c DEF NoNeedNoMotion
    <2>1. \A a \in Axis : motion[a] = 0 BY <1>b DEF ReportNeeded, TypeOK
    <2> QED BY <2>1 DEF NoMotion
  <1>6. FrameKnown' BY DEF FrameKnown, FrameCycle
  <1>7. BusSeen' BY DEF BusSeen
  <1>8. HostConfigured' BY DEF HostConfigured
  <1>9. FirstIsDue' /\ HostTold' BY DEF FirstIsDue, HostTold, Fresh
  <1> QED BY <1>1, <1>2, <1>3, <1>4, <1>5, <1>6, <1>7, <1>8, <1>9

(* With a host that keeps up, an update always finds the endpoint free and *)
(* a new frame, unless it is the first.                                    *)
LEMMA PromptCanReport ==
  ASSUME IInv, at = "hid", prompt
  PROVE  bank = {} /\ (CanReport \/ Missed)
  <1>1. deviceState = "Configured" /\ epReady /\ bank = {} /\ framesSince >= 1
    BY DEF IInv, PromptBank, PromptHost
  <1>2. /\ framesSince \in Nat /\ framesSince <= LastFrame /\ LastFrame \in Nat
        /\ frame \in Int /\ prevFrameNum \in Int
    BY UsbAssumption, FrameAssumption DEF IInv, TypeOK
  <1>3. first # "due" => prevFrameNum # frame
    BY <1>1, <1>2 DEF IInv, FrameKnown, FrameCycle
  <1> QED BY <1>1, <1>3 DEF CanReport, Missed

LEMMA HidStep ==
  ASSUME IInv, HidTask
  PROVE  IInv'
  <1> USE DEF IInv, HidTask, stateVars, coreVars, frameVars, flagVars, epVars,
             hostVars
  <1>a. prompt => bank = {} /\ (CanReport \/ Missed) BY PromptCanReport
  <1>b. mouse_report_data \in Report /\ mouse_report_data.motion \in [Axis -> Int]
        /\ \A a \in Axis : mouse_report_data.motion[a] \in Int /\ lost[a] \in Int
    BY ReportFacts, UsbAssumption DEF TypeOK
  <1>c. CanReport => ~Missed BY DEF CanReport, Missed
  <1>1. TypeOK'
    <2>1. bank' = {} \/ \E r \in Report : bank' = {r} BY <1>b DEF TypeOK
    <2>2. 0 \in 0 .. MaxFrames BY UsbAssumption
    <2>3. idleRemaining' \in Nat BY UsbAssumption, FrameAssumption DEF TypeOK
    <2>4. /\ prevReport' \in Report /\ needs_update' \in BOOLEAN /\ overtaken' \in BOOLEAN
          /\ prevFrameNum' \in 0 .. LastFrame
      BY <1>b DEF TypeOK
    <2>5. lost' \in [Axis -> Int] /\ first' \in {"due", "missed", "done"}
      BY <1>b DEF TypeOK
    <2> QED BY <2>1, <2>2, <2>3, <2>4, <2>5 DEF TypeOK
  <1>2. MotionConserved'
    <2>0. lost' # NoMotion => first' # "due" \/ ~prompt
      BY DEF MotionConserved, Missed
    <2> SUFFICES ASSUME prompt, NEW a \in Axis PROVE undelivered[a] = InBank(a)' + lost'[a]
      <3>1. \A a \in Axis : InBank(a)' + lost'[a] + 0 = InBank(a)' + lost'[a]
        <4> TAKE a \in Axis
        <4>1. InBank(a)' \in Int
          <5>1. TypeOK' => (\A r \in bank : r \in Report /\ bank = {r})'
            BY <1>1 DEF TypeOK
          <5>2. CASE bank' = {} BY <5>2 DEF InBank
          <5>3. ASSUME NEW r \in Report, bank' = {r} PROVE InBank(a)' \in Int
            <6>1. (CHOOSE x \in {r} : TRUE) = r OBVIOUS
            <6> QED BY <5>3, <6>1, ReportFacts DEF InBank
          <5> QED BY <1>1, <5>2, <5>3 DEF TypeOK
        <4>2. lost'[a] \in Int BY <1>1 DEF TypeOK
        <4> QED BY <4>1, <4>2
      <3> QED BY <2>0, <3>1 DEF MotionConserved
    <2>1. undelivered[a] = lost[a] + mouse_report_data.motion[a]
      BY <1>a, <1>b DEF MotionConserved, InBank
    <2>2. CASE CanReport /\ MustSend
      <3>1. bank' = {mouse_report_data} /\ lost' = lost BY <1>c, <2>2
      <3>2. (CHOOSE r \in {mouse_report_data} : TRUE) = mouse_report_data OBVIOUS
      <3>3. InBank(a)' = mouse_report_data.motion[a] BY <3>1, <3>2 DEF InBank
      <3> QED BY <1>b, <2>1, <3>1, <3>3
    <2>3. CASE CanReport /\ ~MustSend
      <3>1. bank' = {} /\ lost' = lost BY <1>c, <2>3 DEF CanReport
      <3>2. mouse_report_data.motion = NoMotion BY <2>3 DEF MustSend, NoNeedNoMotion, TypeOK
      <3> QED BY <1>b, <2>1, <3>1, <3>2 DEF InBank, NoMotion
    <2>4. CASE Missed
      <3>1. bank' = {} /\ lost' = mouse_report_data.motion
        BY <1>a, <1>c, <2>4
      <3>2. lost = NoMotion BY <2>4 DEF MotionConserved, Missed
      <3> QED BY <1>b, <2>1, <3>1, <3>2 DEF InBank, NoMotion
    <2> QED BY <1>a, <2>2, <2>3, <2>4
  <1>3. PromptHost' BY DEF PromptHost
  <1>4. PromptBank' BY <1>a DEF PromptBank, CanReport
  <1>5. NoNeedNoMotion' BY DEF NoNeedNoMotion
  <1>6. FrameKnown'
    <2>1. prompt => prevFrameNum' = frame /\ framesSince' = 0 /\ frame \in Int
      BY <1>a DEF TypeOK, Missed
    <2> QED BY <2>1 DEF FrameKnown
  <1>7. BusSeen' BY DEF BusSeen
  <1>8. HostConfigured' BY DEF HostConfigured
  <1>9. FirstIsDue' /\ HostTold'
    <2> SUFFICES ASSUME host = "configured"
                 PROVE  /\ first' = "due" /\ bank' = {} => Fresh'
                        /\ ~overtaken' =>
                             \/ bank' = {} /\ first' \in {"due", "missed"}
                             \/ bank' = {} /\ hostButtons' = prevReport'.buttons
                             \/ \E r \in bank' : r.buttons = prevReport'.buttons
      BY DEF FirstIsDue, HostTold
    <2>1. CASE CanReport /\ MustSend BY <2>1
    <2>2. CASE CanReport /\ ~MustSend
      <3>1. bank = {} /\ bank' = {} /\ prevReport' = mouse_report_data
            /\ prevReport = mouse_report_data /\ overtaken' = overtaken /\ first' = first
            /\ hostButtons' = hostButtons
        BY <1>c, <2>2 DEF CanReport, MustSend
      <3>2. first # "due"
        BY <2>2, <3>1, FrameAssumption, UsbAssumption
           DEF FirstIsDue, Fresh, MustSend, IdlePeriodElapsed
      <3> QED BY <3>1, <3>2 DEF HostTold
    <2>3. CASE ~CanReport
      <3>1. overtaken' = overtaken
            /\ UNCHANGED <<bank, prevReport, hostButtons, idleCount, idleRemaining,
                           prevFrameNum, deviceState>>
        BY <2>3
      <3>2. first' = "due" => first = "due" BY DEF TypeOK
      <3>3. ASSUME first' = "due", bank' = {} PROVE Fresh'
        <4>1. Fresh /\ epReady /\ bank = {} /\ ~Missed
          BY <3>1, <3>2, <3>3 DEF FirstIsDue, HostConfigured
        <4>2. deviceState = "Suspended"
          BY <2>3, <3>2, <3>3, <4>1 DEF CanReport, Missed, HostConfigured
        <4> QED BY <3>1, <4>1, <4>2 DEF Fresh
      <3>4. first' \in {first, "missed"} OBVIOUS
      <3> QED BY <3>1, <3>3, <3>4 DEF HostTold
    <2> QED BY <2>1, <2>2, <2>3
  <1> QED BY <1>1, <1>2, <1>3, <1>4, <1>5, <1>6, <1>7, <1>8, <1>9

LEMMA QuietServeStep ==
  ASSUME IInv, ServeNothing \/ \E p \in {0, 1} : SetProtocol(p)
  PROVE  IInv'
  <1> USE DEF IInv, ServeNothing, SetProtocol, Serve, reportVars, stateVars,
             coreVars, frameVars, flagVars, hostVars, historyVars, lossVars
  <1>a. at = "usb" /\ at' = "main" /\ setup' = NoRequest
        /\ UNCHANGED <<reportVars, prevFrameNum, idleCount, idleRemaining, coreVars, frameVars,
                       flagVars, addressed, epReady, bank, hostVars, historyVars>>
    OBVIOUS
  <1>b. usingReportProtocol' \in BOOLEAN BY DEF TypeOK
  <1>1. TypeOK' BY <1>a, <1>b DEF TypeOK
  <1>2. MotionConserved' BY DEF MotionConserved, InBank
  <1>3. PromptHost' BY DEF PromptHost
  <1>4. PromptBank' BY DEF PromptBank
  <1>5. NoNeedNoMotion' BY DEF NoNeedNoMotion
  <1>6. FrameKnown' BY DEF FrameKnown, FrameCycle
  <1>7. BusSeen' BY DEF BusSeen
  <1>8. HostConfigured' BY DEF HostConfigured
  <1>9. FirstIsDue' /\ HostTold' BY DEF FirstIsDue, HostTold, Fresh
  <1> QED BY <1>1, <1>2, <1>3, <1>4, <1>5, <1>6, <1>7, <1>8, <1>9

LEMMA SetAddressStep ==
  ASSUME IInv, SetAddress
  PROVE  IInv'
  <1> USE DEF IInv, SetAddress, Serve, reportVars, stateVars, frameVars, flagVars
  <1>a. setup # NoRequest BY RequestFacts
  <1>b. ~eorsti /\ busActive BY <1>a DEF BusSeen
  <1>1. TypeOK'
    <2>1. DriverType' BY ReportFacts DEF TypeOK, DriverType
    <2>2. CoreType' BY ReportFacts DEF TypeOK, CoreType
    <2>3. EndpointType' BY ReportFacts DEF TypeOK, EndpointType
    <2>4. HostType' BY ReportFacts DEF TypeOK, HostType
    <2> QED BY <2>1, <2>2, <2>3, <2>4, TypeParts
  <1>2. MotionConserved' BY DEF MotionConserved, InBank
  <1>3. PromptHost' BY DEF PromptHost
  <1>4. PromptBank' BY DEF PromptBank
  <1>5. NoNeedNoMotion' BY DEF NoNeedNoMotion
  <1>6. FrameKnown' BY DEF FrameKnown, FrameCycle
  <1>7. BusSeen' BY <1>b DEF BusSeen
  <1>8. HostConfigured' BY DEF HostConfigured
  <1>9. FirstIsDue' /\ HostTold' BY DEF FirstIsDue, HostTold, Fresh
  <1> QED BY <1>1, <1>2, <1>3, <1>4, <1>5, <1>6, <1>7, <1>8, <1>9

LEMMA SetConfigurationStep ==
  ASSUME IInv, NEW c \in {0, 1}, SetConfiguration(c)
  PROVE  IInv'
  <1> USE DEF IInv, SetConfiguration, ConfigureEndpoints, Serve, reportVars,
             frameVars, flagVars
  <1>a. setup # NoRequest BY RequestFacts
  <1>b. ~eorsti /\ busActive BY <1>a DEF BusSeen
  <1>1. TypeOK'
    <2>0. TypeOK /\ 0 \in 0 .. LastFrame /\ NoMotion \in [Axis -> Int]
      BY ReportFacts, UsbAssumption
    <2>1. DriverType' BY <2>0 DEF TypeOK, DriverType
    <2>2. CoreType' BY <2>0 DEF TypeOK, CoreType
    <2>3. EndpointType' BY <2>0 DEF TypeOK, EndpointType
    <2>4. HostType' BY <2>0 DEF TypeOK, HostType
    <2> QED BY <2>1, <2>2, <2>3, <2>4, TypeParts
  <1>2. MotionConserved' BY DEF MotionConserved, InBank, NoMotion
  <1>3. PromptHost' BY DEF PromptHost
  <1>4. PromptBank' BY DEF PromptBank
  <1>5. NoNeedNoMotion' BY DEF NoNeedNoMotion
  <1>6. FrameKnown' BY DEF FrameKnown, FrameCycle
  <1>7. BusSeen' BY <1>b DEF BusSeen
  <1>8. HostConfigured' BY DEF HostConfigured
  <1>9. FirstIsDue' /\ HostTold' BY DEF FirstIsDue, HostTold, Fresh
  <1> QED BY <1>1, <1>2, <1>3, <1>4, <1>5, <1>6, <1>7, <1>8, <1>9

LEMMA GetReportStep ==
  ASSUME IInv, GetReport
  PROVE  IInv'
  <1> USE DEF IInv, GetReport, Serve, stateVars, coreVars, frameVars, flagVars
  <1>a. setup # NoRequest BY RequestFacts
  <1>b. prompt => bank \subseteq {mouse_report_data} BY DEF PromptBank
  <1>c. mouse_report_data.buttons \in SUBSET Button BY ReportFacts DEF TypeOK
  <1>1. TypeOK'
    <2>1. DriverType' BY <1>c DEF TypeOK, DriverType
    <2>2. CoreType' BY <1>c DEF TypeOK, CoreType
    <2>3. EndpointType' BY <1>c DEF TypeOK, EndpointType
    <2>4. HostType' BY <1>c DEF TypeOK, HostType
    <2> QED BY <2>1, <2>2, <2>3, <2>4, TypeParts
  <1>2. MotionConserved' BY DEF MotionConserved, InBank
  <1>3. PromptHost' BY <1>b DEF PromptHost
  <1>4. PromptBank' BY DEF PromptBank
  <1>5. NoNeedNoMotion' BY DEF NoNeedNoMotion
  <1>6. FrameKnown' BY DEF FrameKnown, FrameCycle
  <1>7. BusSeen' BY DEF BusSeen
  <1>8. HostConfigured' BY DEF HostConfigured
  <1>9. FirstIsDue' /\ HostTold'
    <2>0. FirstIsDue'
      <3>1. deviceState # "Suspended" BY <1>a DEF BusSeen
      <3> QED BY <3>1 DEF FirstIsDue, Fresh
    <2> SUFFICES ASSUME ~overtaken'
                 PROVE  \/ bank' = {} /\ hostButtons' = prevReport'.buttons
                        \/ \E r \in bank' : r.buttons = prevReport'.buttons
      BY <2>0 DEF HostTold
    <2>1. bank \subseteq {mouse_report_data} BY DEF TypeOK
    <2> QED BY <2>1
  <1> QED BY <1>1, <1>2, <1>3, <1>4, <1>5, <1>6, <1>7, <1>8, <1>9

LEMMA SetIdleStep ==
  ASSUME IInv, NEW i \in IdleValues, SetIdle(i)
  PROVE  IInv'
  <1> USE DEF IInv, SetIdle, Serve, reportVars, coreVars, frameVars, flagVars, hostVars,
             historyVars, lossVars
  <1>a. setup # NoRequest BY RequestFacts
  <1>b. deviceState # "Suspended" BY <1>a DEF BusSeen
  <1>1. TypeOK' BY UsbAssumption DEF TypeOK
  <1>2. MotionConserved' BY DEF MotionConserved, InBank
  <1>3. PromptHost' BY DEF PromptHost
  <1>4. PromptBank' BY DEF PromptBank
  <1>5. NoNeedNoMotion' BY DEF NoNeedNoMotion
  <1>6. FrameKnown' BY DEF FrameKnown, FrameCycle
  <1>7. BusSeen' BY DEF BusSeen
  <1>8. HostConfigured' BY DEF HostConfigured
  <1>9. FirstIsDue' /\ HostTold' BY <1>b DEF FirstIsDue, HostTold, Fresh
  <1> QED BY <1>1, <1>2, <1>3, <1>4, <1>5, <1>6, <1>7, <1>8, <1>9

LEMMA UsbGenStep ==
  ASSUME IInv, UsbGenIsr
  PROVE  IInv'
  <1> USE DEF IInv, UsbGenIsr, reportVars, frameVars, epVars, hostVars, historyVars, lossVars
  <1>a. idleRemaining' \in Nat /\ (idleRemaining = 0 => idleRemaining' = 0)
    BY DEF TypeOK, MillisecondElapsed
  <1>b. eorsti => host # "configured" /\ ~prompt BY DEF BusSeen, PromptHost
  <1>1. TypeOK'
    <2>1. DriverType' BY <1>a DEF TypeOK, DriverType, StateAfterWake
    <2>2. CoreType' BY <1>a DEF TypeOK, CoreType, StateAfterWake
    <2>3. EndpointType' BY <1>a DEF TypeOK, EndpointType, StateAfterWake
    <2>4. HostType' BY <1>a DEF TypeOK, HostType, StateAfterWake
    <2> QED BY <2>1, <2>2, <2>3, <2>4, TypeParts
  <1>2. MotionConserved' BY DEF MotionConserved, InBank
  <1>3. PromptHost' BY DEF PromptHost
  <1>4. PromptBank' BY DEF PromptBank
  <1>5. NoNeedNoMotion' BY DEF NoNeedNoMotion
  <1>6. FrameKnown' BY DEF FrameKnown, FrameCycle
  <1>7. BusSeen' BY DEF BusSeen, SuspendSeen, WakeSeen, StateAfterWake
  <1>8. HostConfigured' BY <1>b DEF HostConfigured, StateAfterWake
  <1>9. FirstIsDue' /\ HostTold' BY <1>a, <1>b DEF FirstIsDue, HostTold, Fresh
  <1> QED BY <1>1, <1>2, <1>3, <1>4, <1>5, <1>6, <1>7, <1>8, <1>9

LEMMA StartOfFrameStep ==
  ASSUME IInv, StartOfFrame
  PROVE  IInv'
  <1> USE DEF IInv, StartOfFrame, reportVars, stateVars, coreVars, epVars, hostVars,
             historyVars, lossVars
  <1>1. TypeOK' BY UsbAssumption DEF TypeOK, NextFrame
  <1>2. MotionConserved' BY DEF MotionConserved, InBank
  <1>3. PromptHost' BY DEF PromptHost
  <1>4. PromptBank' BY UsbAssumption DEF PromptBank, TypeOK
  <1>5. NoNeedNoMotion' BY DEF NoNeedNoMotion
  <1>6. FrameKnown'
    <2> SUFFICES ASSUME prompt, ~(first = "due" /\ bank = {})
                 PROVE  \/ frame' - prevFrameNum = framesSince'
                        \/ frame' - prevFrameNum = framesSince' - FrameCycle
      BY DEF FrameKnown
    <2>1. /\ LastFrame \in Nat /\ framesSince \in Nat /\ framesSince < LastFrame
          /\ frame \in Nat /\ prevFrameNum \in Nat /\ prevFrameNum <= LastFrame
      BY UsbAssumption, FrameAssumption DEF TypeOK
    <2>2. CASE frame = LastFrame
      <3>1. frame - prevFrameNum = framesSince BY <2>1, <2>2 DEF FrameKnown, FrameCycle
      <3> QED BY <2>1, <2>2, <3>1 DEF FrameCycle, NextFrame
    <2>3. CASE frame # LastFrame
      BY <2>1, <2>3 DEF FrameKnown, FrameCycle, NextFrame
    <2> QED BY <2>2, <2>3
  <1>7. BusSeen' BY DEF BusSeen
  <1>8. HostConfigured' BY DEF HostConfigured
  <1>9. FirstIsDue' /\ HostTold' BY DEF FirstIsDue, HostTold, Fresh
  <1> QED BY <1>1, <1>2, <1>3, <1>4, <1>5, <1>6, <1>7, <1>8, <1>9

LEMMA BusStep ==
  ASSUME IInv, Suspend \/ BusActivity \/ Resume
  PROVE  IInv'
  <1> USE DEF IInv, Suspend, BusActivity, Resume, reportVars, stateVars, coreVars,
             frameVars, flagVars, epVars, hostVars, historyVars, lossVars
  <1>a. UNCHANGED <<at, reportVars, stateVars, coreVars, frameVars, sofi, eorsti, epVars, host,
                    hostButtons, historyVars>> OBVIOUS
  <1>1. TypeOK'
    <2>1. DriverType' BY <1>a DEF TypeOK, DriverType
    <2>2. CoreType' BY <1>a DEF TypeOK, CoreType
    <2>3. EndpointType' BY <1>a DEF TypeOK, EndpointType
    <2>4. HostType' BY <1>a DEF TypeOK, HostType
    <2> QED BY <2>1, <2>2, <2>3, <2>4, TypeParts
  <1>2. MotionConserved' BY <1>a DEF MotionConserved, InBank
  <1>3. PromptHost' BY <1>a DEF PromptHost
  <1>4. PromptBank' BY <1>a DEF PromptBank
  <1>5. NoNeedNoMotion' BY <1>a DEF NoNeedNoMotion
  <1>6. FrameKnown' BY <1>a DEF FrameKnown, FrameCycle
  <1>7. BusSeen' BY DEF BusSeen
  <1>8. HostConfigured' BY <1>a DEF HostConfigured
  <1>9. FirstIsDue' /\ HostTold' BY <1>a DEF FirstIsDue, HostTold, Fresh
  <1> QED BY <1>1, <1>2, <1>3, <1>4, <1>5, <1>6, <1>7, <1>8, <1>9

LEMMA BusResetStep ==
  ASSUME IInv, BusReset
  PROVE  IInv'
  <1> USE DEF IInv, BusReset, reportVars, stateVars, coreVars, frameVars
  <1>1. TypeOK'
    <2>1. DriverType' BY ReportFacts DEF TypeOK, DriverType
    <2>2. CoreType' BY ReportFacts DEF TypeOK, CoreType
    <2>3. EndpointType' BY ReportFacts DEF TypeOK, EndpointType
    <2>4. HostType' BY ReportFacts DEF TypeOK, HostType
    <2> QED BY <2>1, <2>2, <2>3, <2>4, TypeParts
  <1>2. MotionConserved' BY DEF MotionConserved, InBank
  <1>3. PromptHost' BY DEF PromptHost
  <1>4. PromptBank' BY DEF PromptBank
  <1>5. NoNeedNoMotion' BY DEF NoNeedNoMotion
  <1>6. FrameKnown' BY DEF FrameKnown, FrameCycle
  <1>7. BusSeen' BY DEF BusSeen
  <1>8. HostConfigured' BY DEF HostConfigured
  <1>9. FirstIsDue' /\ HostTold' BY DEF FirstIsDue, HostTold, Fresh
  <1> QED BY <1>1, <1>2, <1>3, <1>4, <1>5, <1>6, <1>7, <1>8, <1>9

LEMMA PostStep ==
  ASSUME IInv, NEW r \in Requests, Post(r)
  PROVE  IInv'
  <1> USE DEF IInv, Post, reportVars, stateVars, coreVars, frameVars, flagVars, hostVars,
             historyVars, lossVars
  <1>1. TypeOK' BY DEF TypeOK
  <1>2. MotionConserved' BY DEF MotionConserved, InBank
  <1>3. PromptHost' BY DEF PromptHost
  <1>4. PromptBank' BY DEF PromptBank
  <1>5. NoNeedNoMotion' BY DEF NoNeedNoMotion
  <1>6. FrameKnown' BY DEF FrameKnown, FrameCycle
  <1>7. BusSeen' BY DEF BusSeen
  <1>8. HostConfigured' BY DEF HostConfigured
  <1>9. FirstIsDue' /\ HostTold' BY DEF FirstIsDue, HostTold, Fresh
  <1> QED BY <1>1, <1>2, <1>3, <1>4, <1>5, <1>6, <1>7, <1>8, <1>9

LEMMA PollStep ==
  ASSUME IInv, Poll
  PROVE  IInv'
  <1> USE DEF IInv, Poll, reportVars, stateVars, coreVars, frameVars, flagVars
  <1> PICK report \in bank :
        /\ hostButtons' = report.buttons
        /\ undelivered' = IF prompt THEN [a \in Axis |-> undelivered[a] - report.motion[a]]
                          ELSE undelivered
    OBVIOUS
  <1>a. report \in Report /\ bank = {report} /\ bank' = {}
        /\ \A a \in Axis : InBank(a) = report.motion[a]
    BY BankFacts
  <1>b. report.motion \in [Axis -> Velocity] /\ report.buttons \in SUBSET Button
        /\ \A a \in Axis : report.motion[a] \in Int
    BY <1>a, ReportFacts
  <1>c. prompt => at # "hid" BY <1>a DEF PromptBank
  <1>1. TypeOK'
    <2>1. undelivered' \in [Axis -> Int] BY <1>b DEF TypeOK
    <2> QED BY <1>a, <1>b, <2>1 DEF TypeOK
  <1>2. MotionConserved'
    <2>0. \A a \in Axis : lost[a] \in Int BY DEF TypeOK
    <2> SUFFICES ASSUME prompt, NEW a \in Axis PROVE undelivered'[a] = lost[a]
      BY <1>a, <1>c, <2>0 DEF MotionConserved, InBank
    <2>1. undelivered[a] = report.motion[a] + lost[a] + 0 BY <1>a, <1>c DEF MotionConserved
    <2> QED BY <1>b, <2>0, <2>1 DEF TypeOK
  <1>3. PromptHost' BY DEF PromptHost
  <1>4. PromptBank' BY <1>a, <1>c DEF PromptBank
  <1>5. NoNeedNoMotion' BY DEF NoNeedNoMotion
  <1>6. FrameKnown' BY DEF FrameKnown, FrameCycle
  <1>7. BusSeen' BY DEF BusSeen
  <1>8. HostConfigured' BY DEF HostConfigured
  <1>9. FirstIsDue' /\ HostTold' BY <1>a DEF FirstIsDue, HostTold, Fresh
  <1> QED BY <1>1, <1>2, <1>3, <1>4, <1>5, <1>6, <1>7, <1>8, <1>9

LEMMA Stutter ==
  ASSUME IInv, UNCHANGED vars
  PROVE  IInv'
  <1> USE DEF IInv, vars, reportVars, stateVars, coreVars, frameVars, flagVars, epVars, hostVars,
             historyVars, lossVars
  <1>1. TypeOK' BY DEF TypeOK
  <1>2. MotionConserved' BY DEF MotionConserved, InBank
  <1>3. PromptHost' BY DEF PromptHost
  <1>4. PromptBank' BY DEF PromptBank
  <1>5. NoNeedNoMotion' BY DEF NoNeedNoMotion
  <1>6. FrameKnown' BY DEF FrameKnown, FrameCycle
  <1>7. BusSeen' BY DEF BusSeen
  <1>8. HostConfigured' BY DEF HostConfigured
  <1>9. FirstIsDue' /\ HostTold' BY DEF FirstIsDue, HostTold, Fresh
  <1> QED BY <1>1, <1>2, <1>3, <1>4, <1>5, <1>6, <1>7, <1>8, <1>9

THEOREM Invariance == Spec => []IInv
  <1>1. IInv /\ [Next]_vars => IInv'
    <2> SUFFICES ASSUME IInv, [Next]_vars PROVE IInv' OBVIOUS
    <2>1. CASE Update BY <2>1, UpdateStep DEF Update
    <2>2. CASE HidTask BY <2>2, HidStep
    <2>3. CASE UsbTask
      BY <2>3, QuietServeStep, SetAddressStep, SetConfigurationStep, GetReportStep, SetIdleStep
      DEF UsbTask
    <2>4. CASE UsbGenIsr BY <2>4, UsbGenStep
    <2>5. CASE StartOfFrame BY <2>5, StartOfFrameStep
    <2>6. CASE Suspend \/ BusActivity \/ Resume BY <2>6, BusStep
    <2>7. CASE BusReset BY <2>7, BusResetStep
    <2>8. CASE \E r \in Requests : Post(r) BY <2>8, PostStep
    <2>9. CASE Poll BY <2>9, PollStep
    <2>10. CASE UNCHANGED vars BY <2>10, Stutter
    <2> QED BY <2>1, <2>2, <2>3, <2>4, <2>5, <2>6, <2>7, <2>8, <2>9, <2>10 DEF Next
  <1> QED BY <1>1, InitIInv, PTL DEF Spec

(* The report, the driver's state and the controller keep their types: the *)
(* idle period is not counted below zero, the bank holds a report at most. *)
THEOREM TypeCorrect == Spec => []TypeOK
  <1>1. IInv => TypeOK BY DEF IInv
  <1> QED BY <1>1, Invariance, PTL

(* Every velocity handed to setUsbMouse reaches a host that keeps up       *)
(* through the endpoint exactly once.                                      *)
THEOREM MotionIsConserved == Spec => []MotionConserved
  <1>1. IInv => MotionConserved BY DEF IInv
  <1> QED BY <1>1, Invariance, PTL

(* When the driver has nothing to send the host knows the buttons, whatever*)
(* resets, suspends, requests and unread reports came before, unless       *)
(* GetReport overtook a report in the endpoint or the first was missed.    *)
THEOREM QuietDriverHasTold == Spec => []QuietMeansKnown
  <1>1. IInv => QuietMeansKnown
    <2> SUFFICES ASSUME IInv, Quiet, ~overtaken, first # "missed"
                 PROVE  hostButtons = mouse_report_data.buttons
      BY DEF QuietMeansKnown
    <2>1. host = "configured" /\ bank = {} /\ ~IdlePeriodElapsed
          /\ mouse_report_data = prevReport
      BY DEF Quiet, MustSend
    <2>2. ~Fresh BY <2>1, UsbAssumption, FrameAssumption DEF Fresh, IdlePeriodElapsed
    <2>3. first # "due" BY <2>1, <2>2 DEF IInv, FirstIsDue
    <2> QED BY <2>1, <2>3 DEF IInv, HostTold
  <1> QED BY <1>1, Invariance, PTL

(* HID_Device_USBTask passes over a first update in frame 0 only, to which *)
(* HID_Device_ConfigureEndpoints clears PrevFrameNum.                      *)
THEOREM OnlyFrameZeroIsMissed ==
  Spec => [][host = "configured" /\ first = "due" /\ first' = "missed" => frame = 0]_vars
  <1>1. ASSUME IInv, [Next]_vars, host = "configured", first = "due", first' = "missed"
        PROVE  frame = 0
    <2>1. CASE HidTask
      <3>1. Missed BY <2>1, <1>1 DEF HidTask
      <3>2. Fresh BY <3>1, <1>1 DEF Missed, IInv, FirstIsDue
      <3> QED BY <3>1, <3>2 DEF Missed, Fresh
    <2>2. CASE UsbTask
      BY <1>1, <2>2 DEF UsbTask, ServeNothing, SetAddress, SetConfiguration, GetReport,
                        SetIdle, SetProtocol, historyVars, lossVars
    <2>3. CASE Update BY <1>1, <2>3 DEF Update, SetUsbMouse
    <2>4. CASE \/ UsbGenIsr \/ StartOfFrame \/ Suspend \/ BusActivity \/ Resume
               \/ (\E r \in Requests : Post(r)) \/ UNCHANGED vars
      BY <1>1, <2>4 DEF UsbGenIsr, StartOfFrame, Suspend, BusActivity, Resume, Post, vars,
                        historyVars, lossVars
    <2>5. CASE BusReset \/ Poll BY <1>1, <2>5 DEF BusReset, Poll
    <2> QED BY <1>1, <2>1, <2>2, <2>3, <2>4, <2>5 DEF Next
  <1> QED BY <1>1, Invariance, PTL DEF Spec

-----------------------------------------------------------------------------
(* The refinement: each step of the adapter is one of the channel, or none.*)
Full == prompt /\ (at = "hid" \/ bank # {})
Owed == [a \in Axis |-> undelivered[a] - lost[a]]

LEMMA SameChannel ==
  ASSUME UNCHANGED <<prompt, Full, undelivered, lost, first, mouse_report_data, hostButtons>>
  PROVE  UNCHANGED Channel!channelVars
  BY DEF Full, Channel!channelVars

(* Nothing is owed when all that was not delivered was missed.             *)
LEMMA NothingOwed ==
  /\ (\A a \in Axis : undelivered[a] = lost[a] /\ lost[a] \in Int) => Owed = NoMotion
  /\ undelivered = NoMotion /\ lost = NoMotion => Owed = NoMotion
  BY DEF Owed, NoMotion

LEMMA NothingOwedNext ==
  /\ (\A a \in Axis : undelivered'[a] = lost'[a] /\ lost'[a] \in Int) => Owed' = NoMotion
  /\ undelivered' = NoMotion /\ lost' = NoMotion => Owed' = NoMotion
  BY DEF Owed, NoMotion

(* A host that falls behind is owed nothing. *)
LEMMA FallsBehind ==
  ASSUME prompt' = FALSE, undelivered' = NoMotion, lost' = NoMotion
  PROVE  Channel!Down
  BY NothingOwedNext DEF Owed, Channel!Down, Channel!NoMotion, NoMotion

LEMMA UpdateHandsOver ==
  ASSUME IInv, NEW motion \in [Axis -> Velocity], NEW buttons \in SUBSET Button,
         SetUsbMouse(motion, buttons)
  PROVE  Channel!HandOver(motion, buttons) \/ Channel!Down
  <1> USE DEF SetUsbMouse
  <1>1. CASE prompt'
    <2>1. prompt /\ at = "main" /\ bank = {} /\ at' = "hid" BY <1>1
    <2>2. undelivered' = [a \in Axis |-> undelivered[a] + motion[a]] /\ lost' = lost BY <1>1
    <2>3. mouse_report_data'.buttons = buttons /\ first' = first OBVIOUS
    <2>4. hostButtons' = hostButtons BY DEF hostVars
    <2>5. Owed' = [a \in Axis |-> Owed[a] + motion[a]]
      <3>1. \A a \in Axis : undelivered[a] \in Int /\ lost[a] \in Int /\ motion[a] \in Int
        BY ReportFacts DEF IInv, TypeOK
      <3>2. \A a \in Axis : (undelivered[a] + motion[a]) - lost[a] = Owed[a] + motion[a]
        BY <3>1 DEF Owed
      <3>3. \A a \in Axis : undelivered'[a] - lost'[a] = Owed[a] + motion[a]
        BY <2>2, <3>2
      <3> QED BY <3>3 DEF Owed
    <2> QED BY <1>1, <2>1, <2>3, <2>4, <2>5 DEF Owed, Channel!HandOver
  <1>2. CASE ~prompt'
    <2>1. prompt' = FALSE BY <1>2
    <2>2. undelivered' = NoMotion /\ lost' = NoMotion BY <1>2
    <2> QED BY <2>1, <2>2, FallsBehind
  <1> QED BY <1>1, <1>2

LEMMA HidDelivers ==
  ASSUME IInv, HidTask
  PROVE  Channel!Miss \/ Channel!NothingNew \/ Channel!Down \/ UNCHANGED Channel!channelVars
  <1> USE DEF HidTask
  <1>1. UNCHANGED <<prompt, undelivered, mouse_report_data, hostButtons>> BY DEF hostVars
  <1>2. CASE ~prompt
    <2>1. undelivered' = NoMotion /\ lost' = NoMotion /\ prompt' = FALSE
      BY <1>1, <1>2 DEF IInv, TypeOK, PromptHost
    <2> QED BY <2>1, FallsBehind
  <1>3. CASE prompt /\ bank' # {}
    <2>1. Full /\ Full' BY <1>1, <1>3 DEF Full
    <2>2. ~Missed BY <1>3 DEF Missed, CanReport
    <2>3. UNCHANGED <<lost, first>> BY <2>2
    <2> QED BY <1>1, <2>1, <2>3, SameChannel
  <1>4. CASE prompt /\ bank' = {}
    <2>1. host = "configured" /\ ~overtaken /\ bank = {} BY <1>4 DEF IInv, PromptHost, PromptBank
    <2>2. \A a \in Axis : undelivered[a] = lost[a] + mouse_report_data.motion[a]
      <3>1. \A a \in Axis : undelivered[a] = 0 + lost[a] + mouse_report_data.motion[a]
        BY <1>4, <2>1 DEF IInv, MotionConserved, InBank
      <3>2. \A a \in Axis : lost[a] \in Int BY DEF IInv, TypeOK
      <3> QED BY <3>1, <3>2
    <2>3. at' = "usb" OBVIOUS
    <2>4. \A a \in Axis : mouse_report_data.motion[a] \in Int /\ lost[a] \in Int
      BY ReportFacts DEF IInv, TypeOK
    <2>5. CASE Missed
      <3>1. first = "due" /\ first' = "missed" /\ lost' = mouse_report_data.motion
        BY <1>4, <2>5 DEF Missed
      <3>2. lost = NoMotion BY <1>4, <3>1 DEF IInv, MotionConserved
      <3>3. \A a \in Axis : undelivered'[a] = lost'[a] /\ lost'[a] \in Int
        BY <1>1, <2>2, <2>4, <3>1, <3>2 DEF NoMotion
      <3>4. Owed' = NoMotion BY <3>3, NothingOwedNext
      <3> QED BY <1>1, <1>4, <2>3, <3>1, <3>4
          DEF Owed, Channel!Miss, Channel!NoMotion, NoMotion
    <2>6. CASE ~Missed
      <3>1. CanReport BY <1>4, <2>6, PromptCanReport
      <3>2. ~MustSend BY <1>4, <3>1
      <3>3. mouse_report_data = prevReport /\ ~IdlePeriodElapsed /\ ~needs_update
        BY <3>2 DEF MustSend
      <3>4. mouse_report_data.motion = NoMotion BY <3>3 DEF IInv, NoNeedNoMotion
      <3>5. \A a \in Axis : undelivered[a] = lost[a] /\ lost[a] \in Int
        BY <2>2, <2>4, <3>4 DEF NoMotion
      <3>6. Owed = NoMotion BY <3>5, NothingOwed
      <3>7. UNCHANGED <<lost, first>> BY <2>6
      <3>8. Owed' = Owed BY <1>1, <3>7 DEF Owed
      <3>9. ~Fresh BY <3>3, UsbAssumption, FrameAssumption DEF Fresh, IdlePeriodElapsed
      <3>10. first # "due" BY <2>1, <3>9 DEF IInv, FirstIsDue
      <3>11. hostButtons = mouse_report_data.buttons \/ first = "missed"
        BY <2>1, <3>3, <3>10 DEF IInv, HostTold
      <3> QED BY <1>1, <1>4, <2>3, <3>6, <3>7, <3>8, <3>11
          DEF Owed, Channel!NothingNew, Channel!NoMotion, NoMotion
    <2> QED BY <2>5, <2>6
  <1> QED BY <1>2, <1>3, <1>4

LEMMA RequestsKeepTheChannel ==
  ASSUME IInv, UsbTask
  PROVE  \/ Channel!Ask \/ Channel!Connect \/ Channel!Down
         \/ UNCHANGED Channel!channelVars
  <1> USE DEF Serve
  <1>1. CASE ServeNothing \/ (\E p \in {0, 1} : SetProtocol(p)) \/ \E i \in IdleValues : SetIdle(i)
    <2>1. /\ at = "usb" /\ at' = "main"
          /\ UNCHANGED <<prompt, undelivered, lost, first, mouse_report_data, hostButtons,
                         bank>>
      BY <1>1 DEF ServeNothing, SetProtocol, SetIdle, reportVars, hostVars, historyVars, lossVars
    <2> QED BY <2>1, SameChannel DEF Full
  <1>2. CASE SetAddress
    <2>1. prompt' = FALSE /\ undelivered' = NoMotion /\ lost' = NoMotion
      BY <1>2 DEF SetAddress
    <2> QED BY <2>1, FallsBehind
  <1>3. ASSUME NEW c \in {0, 1}, SetConfiguration(c)
        PROVE  Channel!Connect \/ Channel!Down
    <2>1. /\ at' = "main" /\ bank' = {} /\ hostButtons' = {} /\ undelivered' = NoMotion
          /\ lost' = NoMotion /\ first' = "due"
          /\ mouse_report_data' = mouse_report_data /\ prompt' = (c # 0)
      BY <1>3 DEF SetConfiguration, ConfigureEndpoints, reportVars
    <2>2. Owed' = NoMotion BY <2>1, NothingOwedNext
    <2> QED
      BY <2>1, <2>2 DEF Owed, Channel!Connect, Channel!Down, Channel!NoMotion, NoMotion
  <1>4. CASE GetReport
    <2>1. /\ at = "usb" /\ at' = "main"
          /\ UNCHANGED <<prompt, undelivered, lost, mouse_report_data, bank>>
          /\ hostButtons' = mouse_report_data.buttons
          /\ first' = IF first = "missed" THEN "done" ELSE first
      BY <1>4 DEF GetReport
    <2> QED BY <2>1 DEF Channel!Ask
  <1> QED BY <1>1, <1>2, <1>3, <1>4 DEF UsbTask

LEMMA PollDelivers ==
  ASSUME IInv, Poll
  PROVE  Channel!Deliver \/ Channel!Down
  <1> PICK report \in bank :
        /\ hostButtons' = report.buttons
        /\ undelivered' = IF prompt THEN [a \in Axis |-> undelivered[a] - report.motion[a]]
                          ELSE undelivered
    BY DEF Poll
  <1>1. /\ bank # {} /\ bank' = {} /\ first' = "done"
        /\ UNCHANGED <<at, prompt, lost, mouse_report_data>>
    BY DEF Poll, reportVars
  <1>2. CASE prompt
    <2>1. at # "hid" /\ report = mouse_report_data BY <1>1, <1>2 DEF IInv, PromptBank
    <2>2. Owed' = NoMotion
      <3>1. \A a \in Axis : undelivered'[a] = lost'[a] /\ lost'[a] \in Int
        <4> TAKE a \in Axis
        <4>1. report \in Report /\ InBank(a) = report.motion[a] BY BankFacts DEF IInv
        <4>2. report.motion[a] \in Int /\ lost[a] \in Int
          BY <4>1, ReportFacts DEF IInv, TypeOK
        <4>3. undelivered[a] = report.motion[a] + lost[a] + 0
          BY <1>2, <2>1, <4>1 DEF IInv, MotionConserved
        <4>4. undelivered'[a] = undelivered[a] - report.motion[a] BY <1>2
        <4> QED BY <1>1, <4>2, <4>3, <4>4
      <3> QED BY <3>1, NothingOwedNext
    <2> QED BY <1>1, <1>2, <2>1, <2>2 DEF Owed, Channel!Deliver, Channel!NoMotion, NoMotion
  <1>3. CASE ~prompt
    <2>1. prompt' = FALSE /\ undelivered' = NoMotion /\ lost' = NoMotion
      BY <1>1, <1>3 DEF IInv, TypeOK, PromptHost
    <2> QED BY <2>1, FallsBehind
  <1> QED BY <1>2, <1>3

(* The adapter is a channel that delivers each update to a host that keeps *)
(* up before the next is handed over, except that it may miss the first    *)
(* (the safety part of ChannelSpec).                                       *)
THEOREM AdapterIsAChannel == Spec => Channel!SafeSpec
  <1>1. Init => Channel!Init
    BY NothingOwed DEF Init, NoReport, Owed, Channel!Init, Channel!NoMotion, NoMotion
  <1>2. IInv /\ [Next]_vars => [Channel!Next]_Channel!channelVars
    <2> SUFFICES ASSUME IInv, [Next]_vars
                 PROVE  Channel!Next \/ UNCHANGED Channel!channelVars
      OBVIOUS
    <2>1. CASE Update BY <2>1, UpdateHandsOver DEF Update, Channel!Next
    <2>2. CASE HidTask BY <2>2, HidDelivers DEF Channel!Next
    <2>3. CASE UsbTask BY <2>3, RequestsKeepTheChannel DEF Channel!Next
    <2>4. CASE \/ UsbGenIsr \/ StartOfFrame \/ Suspend \/ BusActivity \/ Resume
               \/ (\E r \in Requests : Post(r)) \/ UNCHANGED vars
      <3>1. UNCHANGED <<at, bank, prompt, undelivered, lost, first, mouse_report_data,
                        hostButtons>>
        BY <2>4 DEF UsbGenIsr, StartOfFrame, Suspend, BusActivity, Resume, Post, vars,
                    reportVars, epVars, hostVars, historyVars, lossVars
      <3> QED BY <3>1, SameChannel DEF Full
    <2>5. CASE BusReset
      <3>1. prompt' = FALSE /\ undelivered' = NoMotion /\ lost' = NoMotion
        BY <2>5 DEF BusReset
      <3> QED BY <3>1, FallsBehind DEF Channel!Next
    <2>6. CASE Poll BY <2>6, PollDelivers DEF Channel!Next
    <2> QED BY <2>1, <2>2, <2>3, <2>4, <2>5, <2>6 DEF Next
  <1> QED BY <1>1, <1>2, Invariance, PTL DEF Spec, Channel!SafeSpec

=============================================================================
