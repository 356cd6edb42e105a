--------------------------- MODULE EndpointMemory ---------------------------
(***************************************************************************)
(* How LUFA gives the endpoints their windows in the memory of the USB     *)
(* controller (Endpoint_AVR8.c): at start-up and after each bus reset for  *)
(* the control endpoint, and when the host sets a configuration for those  *)
(* of the HID and, in debug builds, the CDC interface (src/mouse.c).       *)
(*                                                                         *)
(* The controller does not keep windows apart by itself.  The window of an *)
(* endpoint is put on top of those of the lower endpoints; the next higher *)
(* endpoint slides up to make room, and down when the window is freed; the *)
(* ones above that stay where they are.  So the driver takes an endpoint   *)
(* and all that are higher through the same steps, one after the other,    *)
(* with interrupts off; the host may reset the bus in the middle.          *)
(***************************************************************************)
EXTENDS Integers, Sequences

CONSTANTS
  TotalEndpoints, \* ENDPOINT_TOTAL_ENDPOINTS (7)
  Size,           \* what the bank of each endpoint takes of the memory
  Interfaces,     \* for each interface its endpoints, as they are configured
  Memories        \* the sizes of memory that occur

Endpoint == 0 .. TotalEndpoints - 1

(* There is memory for the control endpoint; the mouse, which is configured*)
(* first, has the lowest number.                                           *)
ASSUME EndpointAssumption ==
  /\ TotalEndpoints \in Nat \ {0}
  /\ Size \in [Endpoint -> Nat \ {0}]
  /\ Interfaces \in Seq(Seq(Endpoint)) /\ Interfaces # <<>>
  /\ \A i \in DOMAIN Interfaces :
       /\ Interfaces[i] # <<>>
       /\ \A n \in DOMAIN Interfaces[i] :
            Interfaces[i][n] # 0 /\ Interfaces[1][1] <= Interfaces[i][n]
  /\ Memories \subseteq Nat /\ \A m \in Memories : Size[0] <= m

VARIABLES
  memory,         \* the size of the controller's memory
  (* the endpoint registers *)
  allocated,      \* UECFG1X.ALLOC is set
  enabled,        \* UECONX.EPEN is set
  configured,     \* UESTA0X.CFGOK is set: the endpoint has a window,
  base,           \* which begins here
  eorsti,         \* the bus has been reset
  (* the calls of Endpoint_ConfigureEndpoint that a handler still makes *)
  caller,         \* that handler, "none" between two
  interface, entry, \* the call is for this endpoint of this interface
  epNum,          \* EPNum in it
  configSuccess,  \* ConfigSuccess
  leds            \* what the LEDs would show of it

endpointVars == <<allocated, enabled, configured, base>>
callVars     == <<caller, interface, entry, epNum, configSuccess>>
vars == <<memory, endpointVars, eorsti, callVars, leds>>

-----------------------------------------------------------------------------
(* Reset by USB_ResetInterface, the controller has forgotten what a        *)
(* bootloader configured; USB_Init_Device configures the control endpoint. *)
Init ==
  /\ memory \in Memories
  /\ allocated = {} /\ enabled = {} /\ configured = {}
  /\ base = [k \in Endpoint |-> 0]
  /\ eorsti = FALSE
  /\ caller = "USB_Init" /\ interface = 1 /\ entry = 1 /\ epNum = 0
  /\ configSuccess = TRUE /\ leds = "notready"

(* USB_GEN_vect: the control endpoint is configured again. *)
EndOfReset ==
  /\ eorsti /\ eorsti' = FALSE
  /\ caller = "none" /\ caller' = "USB_GEN_vect"
  /\ epNum' = 0
  /\ UNCHANGED <<memory, endpointVars, interface, entry, configSuccess, leds>>

(* EVENT_USB_Device_ConfigurationChanged, in USB_Device_SetConfiguration.  *)
ConfigurationChanged ==
  /\ caller = "none" /\ caller' = "ConfigurationChanged"
  /\ interface' = 1 /\ entry' = 1 /\ epNum' = Interfaces[1][1]
  /\ configSuccess' = TRUE
  /\ UNCHANGED <<memory, endpointVars, eorsti, leds>>

-----------------------------------------------------------------------------
(* The call that runs: Endpoint_ConfigureEndpoint_Prv(Number, ...).        *)
Configuring == caller = "ConfigurationChanged"

Number == IF Configuring THEN Interfaces[interface][entry] ELSE 0

(* Mutant: only the first endpoint of an interface is configured.          *)
FirstEntriesOnly == FALSE

MoreEntries == Configuring /\ entry < Len(Interfaces[interface])

(* The next endpoint of the interface, when the call has returned true.    *)
NextEntry ==
  /\ entry' = entry + 1 /\ epNum' = Interfaces[interface][entry + 1]
  /\ UNCHANGED <<caller, interface, configSuccess, leds>>

(* The interface is done, or one of its endpoints has failed and the rest  *)
(* are left out.  ConfigSuccess &= ..., and after the last it is shown.    *)
InterfaceDone(result) ==
  /\ entry' = 1
  /\ configSuccess' = IF Configuring THEN configSuccess /\ result ELSE configSuccess
  /\ IF Configuring /\ interface < Len(Interfaces)
       THEN /\ interface' = interface + 1
            /\ epNum' = Interfaces[interface + 1][1]
            /\ UNCHANGED <<caller, leds>>
       ELSE /\ caller' = "none" /\ interface' = 1 /\ epNum' = 0
            /\ leds' = IF ~Configuring THEN leds
                       ELSE IF configSuccess' THEN "ready" ELSE "error"

(* Mutant: ORDERED_EP_CONFIG, only the endpoint itself is configured.      *)
OnlyNumber(k) == k = Number

(* Mutant: endpoints that are not allocated are given a window, too.       *)
Every(k) == TRUE

(* The endpoint itself, and the higher ones that are allocated.            *)
TakenThrough(k) == k = Number \/ k \in allocated

(* Mutant: the loop runs once too often.                                   *)
InLoopOncePast == caller # "none" /\ epNum <= TotalEndpoints

InLoop == caller # "none" /\ epNum < TotalEndpoints

SkipEndpoint ==
  /\ InLoop
  /\ ~TakenThrough(epNum)
  /\ epNum' = epNum + 1
  /\ UNCHANGED <<memory, endpointVars, eorsti, caller, interface, entry, configSuccess,
                 leds>>

-----------------------------------------------------------------------------
End(k) == base[k] + Size[k]

(* Endpoint k is disabled, freed, enabled and given a window at b, if      *)
(* there is room (the controller).  Endpoint k + 1 slides.                 *)
Allocate(k, b) ==
  LET fits  == b + Size[k] <= memory
      slide == IF fits THEN b + Size[k] ELSE base[k]
  IN  /\ allocated' = allocated \cup {k}
      /\ enabled' = enabled \cup {k}
      /\ configured' = IF fits THEN configured \cup {k} ELSE configured \ {k}
      /\ base' = [j \in Endpoint |->
                    IF j = k THEN b
                    ELSE IF j = k + 1 /\ (fits \/ k \in configured) THEN slide
                    ELSE base[j]]

(* Its window is put on top of those of the lower endpoints.               *)
Lower(k) == {End(j) : j \in {i \in configured : i < k}}

TakeWindow(k) ==
  \E b \in Lower(k) \cup {0} : (\A e \in Lower(k) : e <= b) /\ Allocate(k, b)

(* The body of the loop, for an endpoint that gets its window.             *)
ConfigureEndpoint ==
  /\ InLoop /\ TakenThrough(epNum)
  /\ TakeWindow(epNum)
  /\ epNum \in configured'
  /\ epNum' = epNum + 1
  /\ UNCHANGED <<memory, eorsti, caller, interface, entry, configSuccess,
                 leds>>

(* ... and for one that does not: Endpoint_IsConfigured() is false.        *)
EndpointFails ==
  /\ InLoop /\ TakenThrough(epNum)
  /\ TakeWindow(epNum)
  /\ epNum \notin configured'
  /\ InterfaceDone(FALSE)
  /\ UNCHANGED <<memory, eorsti>>

EndpointsDone ==
  /\ caller # "none" /\ epNum = TotalEndpoints
  /\ IF MoreEntries THEN NextEntry ELSE InterfaceDone(TRUE)
  /\ UNCHANGED <<memory, endpointVars, eorsti>>

(* The bus is reset: the controller disables all endpoints but the control *)
(* endpoint, and they keep their configuration.                            *)
BusReset ==
  /\ caller # "USB_Init"
  /\ eorsti' = TRUE
  /\ enabled' = enabled \cap {0}
  /\ UNCHANGED <<memory, allocated, configured, base, callVars, leds>>

Next ==
  \/ EndOfReset
  \/ ConfigurationChanged
  \/ SkipEndpoint
  \/ ConfigureEndpoint
  \/ EndpointFails
  \/ EndpointsDone
  \/ BusReset

Spec == Init /\ [][Next]_vars

-----------------------------------------------------------------------------
TypeOK ==
  /\ memory \in Memories
  /\ allocated \subseteq Endpoint /\ enabled \subseteq Endpoint
  /\ configured \subseteq allocated
  /\ base \in [Endpoint -> Nat]
  /\ eorsti \in BOOLEAN
  /\ caller \in {"none", "USB_Init", "USB_GEN_vect", "ConfigurationChanged"}
  /\ interface \in DOMAIN Interfaces /\ entry \in DOMAIN Interfaces[interface]
  /\ epNum \in 0 .. TotalEndpoints
  /\ configSuccess \in BOOLEAN
  /\ leds \in {"notready", "ready", "error"}

Apart(i, j) == End(i) <= base[j] \/ End(j) <= base[i]

Working(k) == k \in configured \cap enabled /\ End(k) <= memory

Used ==
  {0} \cup UNION {{Interfaces[i][n] : n \in DOMAIN Interfaces[i]} :
                   i \in DOMAIN Interfaces}

(* ConfigSuccess tells the truth, and goes on telling it after bus resets  *)
(* (which take every endpoint down), also those that come in the middle of *)
(* the calls: when it is true all endpoints work.                          *)
ReadyIsTrue ==
  caller = "none" /\ ~eorsti /\ leds = "ready" =>
    \A k \in Used : Working(k) /\ \A j \in Used : j # k => Apart(j, k)

(* A layout puts the windows of the endpoints on top of each other, in the *)
(* order of their numbers and with or without gaps, and fits in m.  There  *)
(* is one exactly when the banks add up to no more than m.                 *)
Layout(top, m) ==
  \A k \in Used : /\ top[k] + Size[k] <= m
                  /\ \A j \in Used : j < k => top[j] + Size[j] <= top[k]

(* When it is false, the memory is too small for the endpoints: nothing is *)
(* lost to gaps, however often the host configures the adapter.            *)
ErrorIsReal ==
  leds = "error" => ~\E top \in [Used -> 0 .. memory] : Layout(top, memory)

(* The mouse works when there is memory for it and the control endpoint,   *)
(* and shares it with nothing, whatever becomes of the serial port.        *)
MouseFirst ==
  caller = "none" /\ ~eorsti /\ leds # "notready" /\ memory >= Size[0] + Size[1]
    => \A k \in {0, 1} :
         Working(k) /\ \A j \in configured : j # k => Apart(j, k)
=============================================================================
