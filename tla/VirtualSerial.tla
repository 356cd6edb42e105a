---------------------------- MODULE VirtualSerial ----------------------------
(***************************************************************************)
(* The virtual serial port of the debug build (ENABLE_VIRTUAL_SERIAL): at  *)
(* each update handleUsb() sends a line with the velocity to the host on   *)
(* the LUFA CDC class driver, throws away a byte from the host, and goes on*)
(* to the HID driver and USB_USBTask().                                    *)
(*                                                                         *)
(* All of it is in the Timer 4 handler.  CDC_Device_SendString waits there *)
(* for the host to read the line before, for a number of frames, and with  *)
(* interrupts off: USB_DeviceState does not change in the wait, whatever   *)
(* happens on the bus, and it lasts through a suspend, which has no frames.*)
(* A line (6 characters at most) and what is left of the line before never *)
(* fill the bank (16 bytes), so that there is one such wait and a packet is*)
(* a line.  Left out: the host halts the endpoint (which ends the wait), or*)
(* asks for configuration 0.                                               *)
(***************************************************************************)
EXTENDS Naturals

CONSTANTS
  Timeout,              \* USB_STREAM_TIMEOUT_MS (100)
  MinGap, MaxGap,       \* ms from an update to the next (19 to 21)
  ServiceLimit,         \* USB_USBTask must be serviced in so many ms (30)
  MaxOut,               \* bytes in a packet from the host
  MaxSuspend,           \* bound: ms for which the bus is suspended in a wait
  BusEvents             \* the events that occur: "reset", "suspend"

ASSUME SerialAssumption ==
  /\ Timeout \in Nat /\ MinGap \in Nat /\ MaxGap \in Nat /\ MaxOut \in Nat
  /\ MinGap <= MaxGap /\ MaxGap <= ServiceLimit /\ ServiceLimit \in Nat
  /\ MaxSuspend \in Nat

VARIABLES
  at,             \* the step the handler is at, "main" between two updates
  timeoutMSRem,   \* TimeoutMSRem in Endpoint_WaitUntilReady, 0 in "main"
  frameChanged,   \* the frame number is not PreviousFrameNumber
  deviceState,    \* USB_DeviceState
  configured,     \* USB_Device_ConfigurationNumber is not 0
  baudRate,       \* State.LineEncoding.BaudRateBPS is not 0
  (* the USB controller (external) *)
  up,             \* the reset has not disabled the endpoints
  written,        \* a line is in the bank of the data IN endpoint,
  sent,           \* and it is left to the host
  out,            \* the set of the packets in the data OUT endpoint
  setup,          \* the control request that is pending
  eorsti,         \* the bus has been reset
  busActive,      \* the bus is not suspended
  (* history *)
  msSince,        \* ms since the handler returned from the last update
  serviceAge,     \* ms since USB_USBTask was called
  suspended,      \* ms of the present wait in which the bus was suspended
  unread          \* ms for which the last line sent waited

coreVars    == <<deviceState, configured, baudRate>>
epVars      == <<up, written, sent, out>>
busVars     == <<setup, eorsti, busActive>>
historyVars == <<msSince, serviceAge, suspended, unread>>
vars == <<at, timeoutMSRem, frameChanged, coreVars, epVars, busVars, historyVars>>

Init ==
  /\ at = "main" /\ timeoutMSRem = 0 /\ frameChanged = FALSE
  /\ deviceState = "Default" /\ configured = FALSE /\ baudRate = FALSE
  /\ up = TRUE /\ written = FALSE /\ sent = FALSE /\ out = {}
  /\ setup = "None" /\ eorsti = FALSE /\ busActive = TRUE
  /\ msSince = 0 /\ serviceAge = 0 /\ suspended = 0 /\ unread = 0

-----------------------------------------------------------------------------
(* USB_GEN_vect runs between two updates and before the Timer 4 handler.   *)
StateOnBus ==
  IF ~busActive THEN "Suspended" ELSE IF configured THEN "Configured" ELSE "Default"

UsbGenPending == eorsti \/ deviceState # StateOnBus

UsbGenIsr ==
  /\ at = "main" /\ UsbGenPending
  /\ eorsti' = FALSE
  /\ configured' = (configured /\ ~eorsti)
  /\ deviceState' = IF eorsti THEN "Default" ELSE StateOnBus
  /\ up' = (up \/ eorsti)
  /\ UNCHANGED <<at, timeoutMSRem, frameChanged, baudRate, written, sent, out,
                 setup, busActive, historyVars>>

(* The test at the head of all functions of the CDC driver.                *)
Connected == deviceState = "Configured" /\ baudRate

INReady == up /\ ~sent

(* An update: serialPrintNum() and the beginning of handleUsb().           *)
Update ==
  /\ at = "main" /\ ~UsbGenPending
  /\ msSince >= MinGap
  /\ at' = IF Connected THEN "send" ELSE "receive"
  /\ timeoutMSRem' = Timeout /\ frameChanged' = FALSE
  /\ UNCHANGED <<coreVars, epVars, busVars, historyVars>>

(* CDC_Device_SendString: the bank is free, and the line goes in.          *)
WriteLine ==
  /\ at = "send" /\ INReady
  /\ at' = "receive" /\ written' = TRUE
  /\ UNCHANGED <<timeoutMSRem, frameChanged, coreVars, up, sent, out, busVars,
                 historyVars>>

(* Mutant: the rest of the time-out is never looked at.                    *)
NoTimeout == FALSE

(* if (!(TimeoutMSRem--)) *)
TimedOut == timeoutMSRem = 0

(* Endpoint_WaitUntilReady: a frame has gone by and the bank is not free.  *)
WaitForHost ==
  /\ at = "send" /\ ~INReady /\ frameChanged
  /\ frameChanged' = FALSE
  /\ IF TimedOut THEN at' = "receive" /\ UNCHANGED timeoutMSRem
                 ELSE timeoutMSRem' = timeoutMSRem - 1 /\ UNCHANGED at
  /\ UNCHANGED <<coreVars, epVars, busVars, historyVars>>

(* Mutant: the packet is released with its last byte only, an empty one is *)
(* not.                                                                    *)
LeftAfterByteOnly(n) == IF n = 1 THEN {} ELSE IF n = 0 THEN {0} ELSE {n - 1}

(* What is left of a packet of n bytes: Endpoint_ClearOUT releases it when *)
(* no byte is left.                                                        *)
LeftAfter(n) == IF n <= 1 THEN {} ELSE {n - 1}

(* CDC_Device_ReceiveByte *)
ReceiveByte ==
  /\ at = "receive" /\ at' = "flush"
  /\ IF Connected THEN out' = UNION {LeftAfter(n) : n \in out} ELSE UNCHANGED out
  /\ UNCHANGED <<timeoutMSRem, frameChanged, coreVars, up, written, sent, busVars,
                 historyVars>>

(* Mutant: NO_CLASS_DRIVER_AUTOFLUSH.                                      *)
NoAutoflush == FALSE

CanFlush == Connected /\ INReady /\ written

(* CDC_Device_USBTask, CDC_Device_Flush *)
Flush ==
  /\ at = "flush" /\ at' = "usb"
  /\ IF CanFlush THEN sent' = TRUE /\ written' = FALSE /\ unread' = 0
                 ELSE UNCHANGED <<sent, written, unread>>
  /\ UNCHANGED <<timeoutMSRem, frameChanged, coreVars, up, out, busVars, msSince,
                 serviceAge, suspended>>

(* USB_USBTask: a configuration clears the driver's State and configures   *)
(* the endpoints, which empties them; a line encoding brings a baud rate.  *)
UsbTask ==
  /\ at = "usb" /\ at' = "main"
  /\ setup' = "None"
  /\ msSince' = 0 /\ serviceAge' = 0 /\ suspended' = 0
  /\ CASE setup = "SetConfiguration" ->
            /\ deviceState' = "Configured" /\ configured' = TRUE /\ baudRate' = FALSE
            /\ up' = TRUE /\ written' = FALSE /\ sent' = FALSE /\ out' = {}
       [] setup = "SetLineEncoding" ->
            baudRate' \in BOOLEAN /\ UNCHANGED <<deviceState, configured, epVars>>
       [] OTHER -> UNCHANGED <<coreVars, epVars>>
  /\ timeoutMSRem' = 0 /\ unread' = IF sent' THEN unread ELSE 0
  /\ UNCHANGED <<frameChanged, eorsti, busActive>>

-----------------------------------------------------------------------------
(* A millisecond, and a frame unless the bus is suspended: the steps of the *)
(* handler and the rounds of its wait are short against it.                *)
Millisecond ==
  /\ \/ /\ at = "main" /\ msSince < MaxGap
        /\ msSince' = msSince + 1
        /\ UNCHANGED <<frameChanged, suspended>>
     \/ /\ at = "send" /\ ~INReady /\ ~frameChanged
        /\ frameChanged' = busActive
        /\ busActive \/ suspended < MaxSuspend
        /\ suspended' = IF busActive THEN suspended ELSE suspended + 1
        /\ UNCHANGED msSince
  /\ serviceAge' = serviceAge + 1
  /\ unread' = IF sent /\ unread < ServiceLimit THEN unread + 1 ELSE unread
  /\ UNCHANGED <<at, timeoutMSRem, coreVars, epVars, busVars>>

(* The host reads a line.                                                  *)
ReadLine ==
  /\ busActive /\ up /\ sent /\ sent' = FALSE
  /\ UNCHANGED <<at, timeoutMSRem, frameChanged, coreVars, up, written, out, busVars,
                 historyVars>>

SendPacket(n) ==
  /\ busActive /\ up /\ configured
  /\ out = {} /\ out' = {n}
  /\ UNCHANGED <<at, timeoutMSRem, frameChanged, coreVars, up, written, sent, busVars,
                 historyVars>>

Post(r) ==
  /\ busActive /\ ~eorsti /\ up /\ setup = "None"
  /\ r = "SetLineEncoding" => configured
  /\ setup' = r
  /\ UNCHANGED <<at, timeoutMSRem, frameChanged, coreVars, epVars, eorsti, busActive,
                 historyVars>>

BusReset ==
  /\ "reset" \in BusEvents /\ busActive
  /\ eorsti' = TRUE
  /\ up' = FALSE /\ written' = FALSE /\ sent' = FALSE /\ out' = {} /\ setup' = "None"
  /\ UNCHANGED <<at, timeoutMSRem, frameChanged, coreVars, busActive, historyVars>>

Suspend ==
  /\ "suspend" \in BusEvents /\ busActive /\ setup = "None"
  /\ busActive' = FALSE
  /\ UNCHANGED <<at, timeoutMSRem, frameChanged, coreVars, epVars, setup, eorsti,
                 historyVars>>

Resume ==
  /\ ~busActive /\ busActive' = TRUE
  /\ UNCHANGED <<at, timeoutMSRem, frameChanged, coreVars, epVars, setup, eorsti,
                 historyVars>>

Next ==
  \/ UsbGenIsr
  \/ Update
  \/ WriteLine
  \/ WaitForHost
  \/ ReceiveByte
  \/ Flush
  \/ UsbTask
  \/ Millisecond
  \/ ReadLine
  \/ \E n \in 0 .. MaxOut : SendPacket(n)
  \/ \E r \in {"SetConfiguration", "SetLineEncoding", "Query"} : Post(r)
  \/ BusReset
  \/ Suspend
  \/ Resume

Spec == Init /\ [][Next]_vars

(* The handlers and the time go on, and the host reads.                    *)
Fairness ==
  /\ WF_vars(UsbGenIsr) /\ WF_vars(Update) /\ WF_vars(WriteLine) /\ WF_vars(WaitForHost)
  /\ WF_vars(ReceiveByte) /\ WF_vars(Flush) /\ WF_vars(UsbTask)
  /\ WF_vars(Millisecond) /\ WF_vars(ReadLine)

FairSpec == Spec /\ Fairness

-----------------------------------------------------------------------------
(* "The USB task must be serviced within 30ms while in device mode"        *)
(* (src/mouse.c, handleUsb).                                               *)
UsbTaskInTime == serviceAge <= ServiceLimit

(* What holds of it: it is serviced within an update's distance and the    *)
(* time-out, counted as the code counts it, which leaves out the time of a *)
(* suspend; and late only if the host has left a line unread for as long,  *)
(* or reset the bus in the wait.                                           *)
ServiceDelay ==
  /\ serviceAge <= MaxGap + Timeout + 1 + suspended
  /\ at = "send" /\ serviceAge > ServiceLimit => unread = ServiceLimit \/ eorsti

(* The host that has opened the port, on a bus that is not reset or        *)
(* suspended.                                                              *)
Usable == Connected /\ busActive /\ ~eorsti /\ setup = "None"

(* It gets lines for ever.                                                 *)
LinesReachHost == <>[]Usable => []<><<ReadLine>>_vars

(* "Must throw away unused bytes from the host, or it will lock up while   *)
(* waiting for the device" (src/mouse.c, handleUsb): its packets, empty    *)
(* ones among them, are taken in the end.                                  *)
HostNotLocked == <>[]Usable => []<>(out = {})
=============================================================================
