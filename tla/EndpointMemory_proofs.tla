------------------------ MODULE EndpointMemory_proofs ------------------------
(***************************************************************************)
(* Proofs about EndpointMemory, for any number of endpoints, any interfaces*)
(* and sizes of banks, and any memory.                                     *)
(***************************************************************************)
EXTENDS EndpointMemory, TLAPS

(* The endpoints below e that are allocated have windows in memory, each   *)
(* above those of the lower ones, and are up but for a bus reset.          *)
Laid(e) ==
  \A k \in allocated : k < e =>
    /\ k \in configured /\ End(k) <= memory
    /\ eorsti \/ k \in enabled
    /\ \A i \in configured : i < k => End(i) <= base[k]

(* So have all of them, up or not. *)
Whole ==
  \A k \in allocated :
    /\ k \in configured /\ End(k) <= memory
    /\ \A i \in configured : i < k => End(i) <= base[k]

OnlyUsed == allocated \subseteq Used

(* Once configured, the control endpoint has its window at the bottom.     *)
ControlFirst ==
  caller # "USB_Init" \/ epNum > 0 =>
    0 \in configured /\ 0 \in enabled /\ base[0] = 0

(* A call that has come past its own endpoint has allocated it.            *)
NumberTaken ==
  caller # "none" => Number <= epNum /\ (Number < epNum => Number \in allocated)

(* As long as no call of a configuration has failed, the loop has put      *)
(* everything it came past in order, and the endpoints before are allocated*)
NoFailure ==
  Configuring /\ configSuccess =>
    /\ Laid(epNum)
    /\ \A i \in DOMAIN Interfaces : \A n \in DOMAIN Interfaces[i] :
         i < interface \/ (i = interface /\ n < entry) => Interfaces[i][n] \in allocated

(* What has been shown to be ready stays in order through bus resets, and  *)
(* their handler brings the endpoints up again one after the other.        *)
ReadyKept ==
  leds = "ready" /\ ~Configuring =>
    /\ caller # "USB_Init"
    /\ Used \subseteq allocated
    /\ Whole
    /\ ~eorsti => \A k \in allocated : caller = "none" \/ k < epNum => k \in enabled

IInv ==
  /\ TypeOK
  /\ OnlyUsed
  /\ ControlFirst
  /\ NumberTaken
  /\ NoFailure
  /\ ReadyKept

-----------------------------------------------------------------------------
(* Facts about the constants: every entry of every interface is an endpoint*)
(* other than 0 and not below the first.                                   *)
LEMMA InterfaceFacts ==
  /\ Len(Interfaces) \in Nat /\ DOMAIN Interfaces = 1 .. Len(Interfaces)
  /\ 1 \in DOMAIN Interfaces
  /\ \A i \in DOMAIN Interfaces :
       /\ Len(Interfaces[i]) \in Nat
       /\ DOMAIN Interfaces[i] = 1 .. Len(Interfaces[i])
       /\ 1 \in DOMAIN Interfaces[i]
       /\ \A n \in DOMAIN Interfaces[i] :
            /\ Interfaces[i][n] \in Endpoint /\ Interfaces[i][n] # 0
            /\ Interfaces[1][1] <= Interfaces[i][n]
            /\ Interfaces[i][n] \in Used
<1>1. Interfaces \in Seq(Seq(Endpoint)) /\ Interfaces # <<>>
  BY EndpointAssumption
<1>2. Len(Interfaces) \in Nat /\ DOMAIN Interfaces = 1 .. Len(Interfaces) /\ 1 \in DOMAIN Interfaces
  BY <1>1
<1>3. ASSUME NEW i \in DOMAIN Interfaces
      PROVE  /\ Len(Interfaces[i]) \in Nat
             /\ DOMAIN Interfaces[i] = 1 .. Len(Interfaces[i])
             /\ 1 \in DOMAIN Interfaces[i]
             /\ \A n \in DOMAIN Interfaces[i] : Interfaces[i][n] \in Endpoint
  <2>1. Interfaces[i] \in Seq(Endpoint) /\ Interfaces[i] # <<>>
    BY <1>1, EndpointAssumption
  <2>. QED  BY <2>1
<1>4. \A i \in DOMAIN Interfaces : \A n \in DOMAIN Interfaces[i] :
        /\ Interfaces[i][n] # 0 /\ Interfaces[1][1] <= Interfaces[i][n]
        /\ Interfaces[i][n] \in Used
  BY EndpointAssumption DEF Used
<1>. QED  BY <1>2, <1>3, <1>4

(* 0 is an endpoint, it is used, and its bank fits in the memory.          *)
LEMMA ControlFacts ==
  /\ TotalEndpoints \in Nat /\ 0 \in Endpoint /\ Endpoint \subseteq Nat
  /\ 0 \in Used /\ Used \subseteq Endpoint
  /\ \A k \in Endpoint : Size[k] \in Nat /\ Size[k] > 0
  /\ \A m \in Memories : m \in Nat /\ Size[0] <= m
<1>1. TotalEndpoints \in Nat /\ 0 \in Endpoint /\ Endpoint \subseteq Nat
  BY EndpointAssumption DEF Endpoint
<1>2. Used \subseteq Endpoint
  BY <1>1, InterfaceFacts DEF Used
<1>3. 0 \in Used
  BY DEF Used
<1>. QED  BY <1>1, <1>2, <1>3, EndpointAssumption

(* What TakeWindow does: the window begins at b, at the top of the lower   *)
(* ones; the lower endpoints keep theirs, and so do those from k + 2 on.   *)
LEMMA Window ==
  ASSUME TypeOK, NEW k \in Endpoint, TakeWindow(k)
  PROVE  \E b \in Nat :
           /\ \A i \in configured : i < k => End(i) <= b
           /\ b = 0 \/ \E i \in configured : i < k /\ b = End(i)
           /\ Allocate(k, b)
           /\ base' \in [Endpoint -> Nat]
           /\ base'[k] = b
           /\ \A j \in Endpoint : j < k \/ j > k + 1 => base'[j] = base[j]
<1>1. PICK b \in Lower(k) \cup {0} : (\A e \in Lower(k) : e <= b) /\ Allocate(k, b)
  BY DEF TakeWindow
<1>2. \A i \in configured : i \in Endpoint /\ i \in Nat /\ End(i) \in Nat
  BY ControlFacts DEF TypeOK, End
<1>3. b \in Nat /\ (b = 0 \/ \E i \in configured : i < k /\ b = End(i))
  BY <1>1, <1>2 DEF Lower
<1>4. \A i \in configured : i < k => End(i) <= b
  BY <1>1 DEF Lower
<1>5. base' \in [Endpoint -> Nat]
  BY <1>1, <1>3, ControlFacts DEF Allocate, TypeOK
<1>6. base'[k] = b /\ \A j \in Endpoint : j < k \/ j > k + 1 => base'[j] = base[j]
  BY <1>1, ControlFacts DEF Allocate
<1>. QED  BY <1>1, <1>3, <1>4, <1>5, <1>6

-----------------------------------------------------------------------------
LEMMA InitIInv == Init => IInv
<1>. SUFFICES ASSUME Init PROVE IInv
  OBVIOUS
<1>1. TypeOK
  BY ControlFacts, InterfaceFacts DEF Init, TypeOK
<1>2. OnlyUsed /\ ControlFirst /\ NoFailure /\ ReadyKept
  BY DEF Init, OnlyUsed, ControlFirst, NoFailure, ReadyKept, Configuring
<1>3. NumberTaken
  BY DEF Init, NumberTaken, Number, Configuring
<1>. QED  BY <1>1, <1>2, <1>3 DEF IInv

(* The end of an interface or of the calls keeps the types.                *)
LEMMA InterfaceDoneType ==
  ASSUME TypeOK, NEW result \in BOOLEAN, InterfaceDone(result)
  PROVE  /\ caller' \in {"none", "USB_Init", "USB_GEN_vect", "ConfigurationChanged"}
         /\ interface' \in DOMAIN Interfaces /\ entry' \in DOMAIN Interfaces[interface']
         /\ epNum' \in 0 .. TotalEndpoints
         /\ configSuccess' \in BOOLEAN
         /\ leds' \in {"notready", "ready", "error"}
<1>1. CASE Configuring /\ interface < Len(Interfaces)
  <2>1. interface + 1 \in DOMAIN Interfaces
    BY <1>1, InterfaceFacts DEF TypeOK
  <2>2. Interfaces[interface + 1][1] \in 0 .. TotalEndpoints
    BY <2>1, InterfaceFacts, ControlFacts DEF Endpoint
  <2>. QED  BY <1>1, <2>1, <2>2, InterfaceFacts DEF InterfaceDone, TypeOK
<1>2. CASE ~(Configuring /\ interface < Len(Interfaces))
  BY <1>2, InterfaceFacts, ControlFacts DEF InterfaceDone, TypeOK
<1>. QED  BY <1>1, <1>2

(* After it, the call that runs, if any, is at its own endpoint.           *)
LEMMA InterfaceDoneNumber ==
  ASSUME TypeOK, NEW result \in BOOLEAN, InterfaceDone(result)
  PROVE  NumberTaken'
<1>1. CASE Configuring /\ interface < Len(Interfaces)
  <2>1. interface + 1 \in DOMAIN Interfaces
    BY <1>1, InterfaceFacts DEF TypeOK
  <2>2. Interfaces[interface + 1][1] \in Nat
    BY <2>1, InterfaceFacts, ControlFacts
  <2>3. Number' = Interfaces[interface + 1][1] /\ epNum' = Number'
    BY <1>1 DEF InterfaceDone, Number, Configuring
  <2>. QED  BY <2>2, <2>3 DEF NumberTaken
<1>2. CASE ~(Configuring /\ interface < Len(Interfaces))
  BY <1>2 DEF InterfaceDone, NumberTaken
<1>. QED  BY <1>1, <1>2

-----------------------------------------------------------------------------
(* One step of the loop, for an endpoint that is left out.                 *)
LEMMA SkipStep ==
  ASSUME IInv, SkipEndpoint
  PROVE  IInv'
<1>. USE DEF IInv
<1>1. epNum \in Endpoint /\ epNum \in Nat /\ epNum' = epNum + 1
  BY ControlFacts DEF SkipEndpoint, InLoop, TypeOK, Endpoint
<1>2. epNum \notin allocated /\ epNum # Number
  BY DEF SkipEndpoint, TakenThrough
<1>3. Number' = Number /\ Configuring' = Configuring
  BY DEF SkipEndpoint, Number, Configuring
<1>4. TypeOK'
  BY <1>1, ControlFacts DEF SkipEndpoint, InLoop, TypeOK, endpointVars
<1>5. OnlyUsed'
  BY DEF SkipEndpoint, OnlyUsed, endpointVars
<1>6. Number \in Nat
  BY ControlFacts, InterfaceFacts DEF Number, TypeOK, Configuring
<1>7. NumberTaken'
  BY <1>1, <1>2, <1>3, <1>6 DEF SkipEndpoint, NumberTaken, endpointVars, InLoop
<1>8. ControlFirst'
  <2>1. caller # "USB_Init" \/ epNum > 0
    BY <1>1, <1>2, <1>6 DEF NumberTaken, Number, Configuring, SkipEndpoint, InLoop
  <2>. QED  BY <2>1 DEF ControlFirst, SkipEndpoint, endpointVars
<1>9. \A k \in allocated : k < epNum + 1 => k < epNum
  BY <1>1, <1>2, ControlFacts DEF TypeOK
<1>10. NoFailure'
  BY <1>1, <1>3, <1>9 DEF NoFailure, Laid, SkipEndpoint, endpointVars, End
<1>11. ReadyKept'
  <2>1. Whole' = Whole
    BY DEF Whole, SkipEndpoint, endpointVars, End
  <2>. QED  BY <1>1, <1>3, <1>9, <2>1 DEF ReadyKept, SkipEndpoint, endpointVars
<1>. QED  BY <1>4, <1>5, <1>7, <1>8, <1>10, <1>11

(* One step of the loop, for an endpoint that gets its window.             *)
LEMMA ConfigureStep ==
  ASSUME IInv, ConfigureEndpoint
  PROVE  IInv'
<1>. USE DEF IInv
<1>0. epNum \in Endpoint
  BY ControlFacts DEF ConfigureEndpoint, InLoop, TypeOK, Endpoint
<1>. PICK e \in Endpoint : e = epNum
  BY <1>0
<1>1. e \in Endpoint /\ e \in Nat /\ epNum' = e + 1
  BY ControlFacts DEF ConfigureEndpoint
<1>2. PICK b \in Nat :
        /\ \A i \in configured : i < e => End(i) <= b
        /\ b = 0 \/ \E i \in configured : i < e /\ b = End(i)
        /\ Allocate(e, b)
        /\ base' \in [Endpoint -> Nat]
        /\ base'[e] = b
        /\ \A j \in Endpoint : j < e \/ j > e + 1 => base'[j] = base[j]
  BY <1>1, Window DEF ConfigureEndpoint
<1>3. /\ allocated' = allocated \cup {e} /\ enabled' = enabled \cup {e}
      /\ configured' = configured \cup {e} /\ b + Size[e] <= memory
  BY <1>2 DEF ConfigureEndpoint, Allocate
<1>4. /\ caller' = caller /\ interface' = interface /\ entry' = entry
      /\ configSuccess' = configSuccess /\ leds' = leds
      /\ memory' = memory /\ eorsti' = eorsti
      /\ Number' = Number /\ Configuring' = Configuring
  BY DEF ConfigureEndpoint, Number, Configuring
<1>5. TypeOK'
  BY <1>1, <1>2, <1>3, <1>4, ControlFacts DEF ConfigureEndpoint, InLoop, TypeOK
<1>6. Number \in Nat /\ Number \in Used
  BY ControlFacts, InterfaceFacts DEF Number, TypeOK, Configuring
<1>7. e \in Used
  BY <1>6 DEF ConfigureEndpoint, TakenThrough, OnlyUsed
<1>8. OnlyUsed'
  BY <1>3, <1>7 DEF OnlyUsed
<1>9. ControlFirst'
  <2>1. CASE e = 0
    BY <2>1, <1>1, <1>2, <1>3, ControlFacts DEF ControlFirst, TypeOK
  <2>2. CASE e # 0
    BY <2>2, <1>1, <1>2, <1>3, <1>4, ControlFacts DEF ControlFirst
  <2>. QED  BY <2>1, <2>2
<1>10. NumberTaken'
  BY <1>1, <1>3, <1>4, <1>6 DEF NumberTaken, ConfigureEndpoint, InLoop
<1>11. /\ \A k \in allocated : k \in Endpoint /\ k \in Nat
       /\ configured \subseteq allocated
       /\ End(e)' = b + Size[e]
       /\ \A k \in Endpoint : k < e \/ k > e + 1 => End(k)' = End(k)
  BY <1>1, <1>2, ControlFacts DEF TypeOK, End
<1>12. NoFailure'
  <2>. SUFFICES ASSUME Configuring, configSuccess
                PROVE  NoFailure'
    BY <1>4 DEF NoFailure
  <2>1. ASSUME NEW k \in allocated', k < e + 1
        PROVE  /\ k \in configured' /\ End(k)' <= memory'
               /\ eorsti' \/ k \in enabled'
               /\ \A i \in configured' : i < k => End(i)' <= base'[k]
    <3>1. CASE k = e
      BY <3>1, <1>1, <1>2, <1>3, <1>4, <1>11
    <3>2. CASE k # e
      <4>1. k \in allocated /\ k < e
        BY <3>2, <2>1, <1>1, <1>3, <1>11
      <4>2. \A i \in configured' : i < k => i \in configured /\ i < e
        BY <4>1, <1>1, <1>3, <1>11
      <4>. QED  BY <4>1, <4>2, <1>1, <1>2, <1>3, <1>4, <1>11 DEF NoFailure, Laid
    <3>. QED  BY <3>1, <3>2
  <2>2. Laid(epNum)'
    BY <2>1, <1>1 DEF Laid
  <2>. QED  BY <2>2, <1>3, <1>4 DEF NoFailure
<1>13. ReadyKept'
  <2>. SUFFICES ASSUME leds = "ready", ~Configuring
                PROVE  ReadyKept'
    BY <1>4 DEF ReadyKept
  <2>1. Used \subseteq allocated /\ Whole
    BY DEF ReadyKept
  <2>2. e \in allocated /\ allocated' = allocated /\ configured' = configured
    BY <2>1, <1>3, <1>7 DEF Whole
  <2>3. b <= base[e]
    BY <2>1, <2>2, <1>1, <1>2 DEF Whole, TypeOK
  <2>4. \A k \in allocated : base'[k] <= base[k] /\ base'[k] \in Nat
    <3>1. ASSUME e + 1 \in allocated PROVE base'[e + 1] <= base[e + 1]
      <4>1. base'[e + 1] = b + Size[e]
        BY <3>1, <1>1, <1>2, <1>3, <1>11 DEF Allocate
      <4>2. base[e] + Size[e] <= base[e + 1]
        BY <3>1, <2>1, <2>2, <1>1 DEF Whole, End
      <4>. QED  BY <4>1, <4>2, <2>3, <3>1, <1>1, <1>11, ControlFacts DEF TypeOK
    <3>. QED  BY <3>1, <2>3, <1>1, <1>2, <1>11 DEF TypeOK
  <2>5. \A k \in allocated : End(k)' <= End(k)
    BY <2>4, <1>11, ControlFacts DEF End, TypeOK
  <2>6. ASSUME NEW k \in allocated, NEW i \in configured, i < k
        PROVE  End(i)' <= base'[k]
    <3>1. i \in allocated /\ i \in Endpoint /\ k \in Endpoint /\ i \in Nat /\ k \in Nat
      BY <1>11
    <3>2. End(i) <= base[k]
      BY <2>1, <2>6 DEF Whole
    <3>3. CASE k = e
      BY <3>3, <3>1, <2>6, <1>1, <1>2, <1>11
    <3>4. CASE k = e + 1
      <4>1. base'[k] = b + Size[e]
        BY <3>4, <3>1, <1>1, <1>2, <1>3 DEF Allocate
      <4>2. i = e \/ (i < e /\ End(i)' = End(i) /\ End(i) <= b)
        BY <3>1, <3>4, <2>6, <1>1, <1>2, <1>11
      <4>. QED  BY <4>1, <4>2, <3>1, <1>1, <1>11, ControlFacts DEF End, TypeOK
    <3>5. CASE k # e /\ k # e + 1
      <4>1. base'[k] = base[k]
        BY <3>5, <3>1, <1>1, <1>2
      <4>2. End(i)' <= End(i) /\ End(i) \in Nat /\ End(i)' \in Nat /\ base[k] \in Nat
        BY <2>5, <3>1, <1>2, ControlFacts DEF End, TypeOK
      <4>. QED  BY <4>1, <4>2, <3>2
    <3>. QED  BY <3>3, <3>4, <3>5
  <2>7. Whole'
    <3>1. \A k \in allocated : End(k) <= memory /\ End(k) \in Nat /\ End(k)' \in Nat /\ memory \in Nat
      BY <2>1, <1>2, <1>11, ControlFacts DEF Whole, End, TypeOK
    <3>2. \A k \in allocated : End(k)' <= memory'
      BY <3>1, <2>5, <1>4
    <3>. QED  BY <3>2, <2>1, <2>2, <2>6 DEF Whole
  <2>8. ~eorsti' => \A k \in allocated' : caller' = "none" \/ k < epNum' => k \in enabled'
    BY <2>2, <1>1, <1>3, <1>4, <1>11 DEF ReadyKept, ConfigureEndpoint, InLoop
  <2>9. caller' # "USB_Init" /\ Used \subseteq allocated'
    BY <2>1, <2>2, <1>4 DEF ReadyKept
  <2>. QED  BY <2>7, <2>8, <2>9 DEF ReadyKept
<1>. QED  BY <1>5, <1>8, <1>9, <1>10, <1>12, <1>13

(* One step of the loop, for an endpoint that gets none.  This happens     *)
(* neither to the control endpoint nor after the adapter was ready.        *)
LEMMA FailStep ==
  ASSUME IInv, EndpointFails
  PROVE  IInv'
<1>. USE DEF IInv
<1>0. epNum \in Endpoint
  BY ControlFacts DEF EndpointFails, InLoop, TypeOK, Endpoint
<1>. PICK e \in Endpoint : e = epNum
  BY <1>0
<1>1. e \in Endpoint /\ e \in Nat
  BY ControlFacts
<1>2. PICK b \in Nat :
        /\ \A i \in configured : i < e => End(i) <= b
        /\ b = 0 \/ \E i \in configured : i < e /\ b = End(i)
        /\ Allocate(e, b)
        /\ base' \in [Endpoint -> Nat]
        /\ base'[e] = b
        /\ \A j \in Endpoint : j < e \/ j > e + 1 => base'[j] = base[j]
  BY <1>1, Window DEF EndpointFails
<1>3. /\ allocated' = allocated \cup {e} /\ enabled' = enabled \cup {e}
      /\ configured' = configured \ {e} /\ ~(b + Size[e] <= memory)
  BY <1>2 DEF EndpointFails, Allocate
<1>4. memory' = memory /\ eorsti' = eorsti /\ InterfaceDone(FALSE)
  BY DEF EndpointFails
<1>5. memory \in Nat /\ Size[e] \in Nat /\ Size[0] <= memory
  BY <1>1, ControlFacts DEF TypeOK
<1>6. /\ \A k \in allocated : k \in Endpoint /\ k \in Nat
      /\ configured \subseteq allocated
      /\ \A k \in Endpoint : base[k] \in Nat /\ End(k) \in Nat
  BY ControlFacts DEF TypeOK, End
<1>7. e # 0
  <2>1. SUFFICES ASSUME e = 0 PROVE FALSE
    OBVIOUS
  <2>2. b = 0
    BY <2>1, <1>2, <1>6
  <2>. QED  BY <2>1, <2>2, <1>3, <1>5
<1>8. Number \in Nat /\ Number \in Used
  BY ControlFacts, InterfaceFacts DEF Number, TypeOK, Configuring
<1>9. e \in Used
  BY <1>8 DEF EndpointFails, TakenThrough, OnlyUsed
<1>10. ~(leds = "ready" /\ ~Configuring)
  <2>1. SUFFICES ASSUME leds = "ready", ~Configuring PROVE FALSE
    OBVIOUS
  <2>2. e \in configured /\ End(e) <= memory /\ \A i \in configured : i < e => End(i) <= base[e]
    BY <2>1, <1>9 DEF ReadyKept, Whole
  <2>3. b <= base[e]
    BY <2>2, <1>1, <1>2, <1>6
  <2>. QED  BY <2>2, <2>3, <1>1, <1>3, <1>5, <1>6 DEF End
<1>11. TypeOK'
  <2>1. allocated' \subseteq Endpoint /\ enabled' \subseteq Endpoint /\ configured' \subseteq allocated'
    BY <1>1, <1>3 DEF TypeOK
  <2>. QED  BY <2>1, <1>2, <1>4, InterfaceDoneType DEF TypeOK
<1>12. OnlyUsed'
  BY <1>3, <1>9 DEF OnlyUsed
<1>13. ControlFirst'
  <2>1. 0 \in configured /\ 0 \in enabled /\ base[0] = 0
    BY <1>1, <1>7 DEF ControlFirst
  <2>. QED  BY <2>1, <1>1, <1>2, <1>3, <1>7, ControlFacts DEF ControlFirst
<1>14. NumberTaken'
  BY <1>4, InterfaceDoneNumber
<1>15. ASSUME Configuring
       PROVE  configSuccess' = FALSE /\ (caller' = "none" => leds' = "error")
  BY <1>4, <1>15 DEF InterfaceDone, Configuring
<1>16. NoFailure'
  <2>1. Configuring' => Configuring
    BY <1>4 DEF InterfaceDone, Configuring
  <2>. QED  BY <2>1, <1>15 DEF NoFailure
<1>17. ReadyKept'
  <2>1. ~Configuring => leds' = leds
    BY <1>4 DEF InterfaceDone
  <2>2. Configuring => Configuring' \/ caller' = "none"
    BY <1>4 DEF InterfaceDone, Configuring
  <2>. QED  BY <2>1, <2>2, <1>10, <1>15 DEF ReadyKept
<1>. QED  BY <1>11, <1>12, <1>13, <1>14, <1>16, <1>17

(* A call has returned true: the next of the same interface, or its end.   *)
LEMMA DoneStep ==
  ASSUME IInv, EndpointsDone
  PROVE  IInv'
<1>. USE DEF IInv
<1>1. /\ caller # "none" /\ epNum = TotalEndpoints /\ TotalEndpoints \in Nat
      /\ \A k \in allocated : k \in Endpoint /\ k \in Nat /\ k < epNum
  BY ControlFacts DEF EndpointsDone, TypeOK, Endpoint
<1>2. /\ UNCHANGED <<memory, allocated, enabled, configured, base, eorsti>>
      /\ OnlyUsed' /\ Whole' = Whole
      /\ \A k : End(k)' = End(k)
  BY DEF EndpointsDone, endpointVars, OnlyUsed, Whole, End
<1>3. Number \in Endpoint /\ Number \in allocated
  <2>1. Number \in Endpoint
    BY InterfaceFacts, ControlFacts DEF Number, TypeOK, Configuring
  <2>. QED  BY <2>1, <1>1, ControlFacts DEF NumberTaken, Endpoint
<1>4. 0 \in configured /\ 0 \in enabled /\ base[0] = 0
  <2>1. epNum > 0
    BY <1>1, ControlFacts DEF Endpoint
  <2>. QED  BY <2>1 DEF ControlFirst
<1>5. ControlFirst'
  BY <1>2, <1>4 DEF ControlFirst
<1>6. ASSUME Configuring, configSuccess
      PROVE  Laid(TotalEndpoints) /\ \A k \in Nat : Laid(k)'
  <2>1. Laid(TotalEndpoints)
    BY <1>1, <1>6 DEF NoFailure
  <2>. QED  BY <2>1, <1>1, <1>2 DEF Laid
<1>7. ASSUME Configuring, configSuccess, NEW i \in DOMAIN Interfaces,
             NEW n \in DOMAIN Interfaces[i],
             i < interface \/ (i = interface /\ n < entry + 1)
      PROVE  Interfaces[i][n] \in allocated
  <2>1. n \in Nat /\ entry \in Nat
    BY InterfaceFacts DEF TypeOK
  <2>2. CASE i = interface /\ n = entry
    BY <2>2, <1>3, <1>7 DEF Number
  <2>3. CASE ~(i = interface /\ n = entry)
    BY <2>3, <2>1, <1>7 DEF NoFailure
  <2>. QED  BY <2>2, <2>3
<1>8. CASE MoreEntries
  <2>1. /\ NextEntry /\ Configuring
        /\ caller' = caller /\ interface' = interface /\ entry' = entry + 1
        /\ configSuccess' = configSuccess /\ leds' = leds
    BY <1>8 DEF EndpointsDone, NextEntry, MoreEntries
  <2>2. entry + 1 \in DOMAIN Interfaces[interface]
    BY <1>8, InterfaceFacts DEF MoreEntries, TypeOK
  <2>3. Interfaces[interface][entry + 1] \in Endpoint /\ epNum' = Interfaces[interface][entry + 1]
    BY <2>1, <2>2, InterfaceFacts DEF NextEntry, TypeOK
  <2>4. TypeOK'
    <3>1. epNum' \in 0 .. TotalEndpoints
      BY <2>3, <1>1, ControlFacts DEF Endpoint
    <3>2. interface' \in DOMAIN Interfaces /\ entry' \in DOMAIN Interfaces[interface']
      BY <2>1, <2>2 DEF TypeOK
    <3>. QED  BY <3>1, <3>2, <1>2, <2>1 DEF TypeOK
  <2>5. NumberTaken'
    <3>1. Number' = epNum' /\ epNum' \in Nat
      BY <2>1, <2>3, ControlFacts DEF Number, Configuring
    <3>. QED  BY <3>1 DEF NumberTaken
  <2>6. NoFailure'
    <3>. SUFFICES ASSUME configSuccess PROVE NoFailure'
      BY <2>1 DEF NoFailure
    <3>1. Laid(epNum)'
      BY <1>2, <1>6, <1>1, <2>1, <2>3, ControlFacts DEF Laid
    <3>. QED  BY <3>1, <1>2, <1>7, <2>1 DEF NoFailure
  <2>7. ReadyKept'
    BY <2>1 DEF ReadyKept, Configuring
  <2>. QED  BY <1>2, <1>5, <2>4, <2>5, <2>6, <2>7
<1>9. CASE ~MoreEntries
  <2>1. InterfaceDone(TRUE)
    BY <1>9 DEF EndpointsDone
  <2>2. TypeOK'
    BY <1>2, <2>1, InterfaceDoneType DEF TypeOK
  <2>3. NumberTaken'
    BY <2>1, InterfaceDoneNumber
  <2>4. ASSUME Configuring, configSuccess, NEW i \in DOMAIN Interfaces,
               NEW n \in DOMAIN Interfaces[i], i < interface + 1
        PROVE  Interfaces[i][n] \in allocated
    <3>1. i \in Nat /\ interface \in Nat /\ n \in Nat /\ entry \in Nat
      BY InterfaceFacts DEF TypeOK
    <3>2. i = interface => n < entry + 1
      BY <1>9, <3>1, <2>4, InterfaceFacts DEF MoreEntries, TypeOK
    <3>. QED  BY <3>1, <3>2, <1>7, <2>4
  <2>5. NoFailure'
    <3>. SUFFICES ASSUME Configuring', configSuccess' PROVE NoFailure'
      BY DEF NoFailure
    <3>1. /\ Configuring /\ configSuccess /\ interface < Len(Interfaces)
          /\ interface' = interface + 1 /\ entry' = 1
          /\ epNum' = Interfaces[interface + 1][1]
      BY <2>1 DEF InterfaceDone, Configuring
    <3>2. interface' \in DOMAIN Interfaces /\ epNum' \in Nat
      BY <2>2, <3>1, InterfaceFacts, ControlFacts DEF TypeOK
    <3>3. Laid(epNum)'
      BY <1>2, <1>6, <1>1, <3>1, <3>2 DEF Laid
    <3>4. ASSUME NEW i \in DOMAIN Interfaces, NEW n \in DOMAIN Interfaces[i],
                 i < interface' \/ (i = interface' /\ n < entry')
          PROVE  Interfaces[i][n] \in allocated'
      <4>1. n \in Nat /\ n >= 1
        BY InterfaceFacts
      <4>. QED  BY <4>1, <3>1, <3>4, <2>4, <1>2
    <3>. QED  BY <3>3, <3>4 DEF NoFailure
  <2>6. ReadyKept'
    <3>. SUFFICES ASSUME leds' = "ready", ~Configuring'
                  PROVE  ReadyKept'
      BY DEF ReadyKept
    <3>1. CASE Configuring
      <4>1. /\ ~(interface < Len(Interfaces)) /\ configSuccess /\ caller' = "none"
        BY <3>1, <2>1 DEF InterfaceDone, Configuring, TypeOK
      <4>2. \A i \in DOMAIN Interfaces : \A n \in DOMAIN Interfaces[i] :
              Interfaces[i][n] \in allocated
        BY <4>1, <3>1, <2>4, InterfaceFacts DEF TypeOK
      <4>3. Used \subseteq allocated'
        BY <4>2, <1>2, <1>4 DEF Used, TypeOK
      <4>4. Laid(TotalEndpoints)
        BY <1>6, <3>1, <4>1
      <4>5. Whole /\ (~eorsti => \A k \in allocated : k \in enabled)
        BY <4>4, <1>1 DEF Laid, Whole
      <4>. QED  BY <4>1, <4>3, <4>5, <1>2 DEF ReadyKept
    <3>2. CASE ~Configuring
      <4>1. leds = "ready" /\ caller' = "none"
        BY <3>2, <2>1 DEF InterfaceDone
      <4>. QED  BY <4>1, <1>1, <1>2, <3>2 DEF ReadyKept
    <3>. QED  BY <3>1, <3>2
  <2>. QED  BY <1>2, <1>5, <2>2, <2>3, <2>5, <2>6
<1>. QED  BY <1>8, <1>9

(* The steps that make no call. *)
LEMMA OtherSteps ==
  ASSUME IInv, EndOfReset \/ ConfigurationChanged \/ BusReset
  PROVE  IInv'
<1>. USE DEF IInv
<1>1. UNCHANGED <<memory, allocated, configured, base>> /\ OnlyUsed' /\ Whole' = Whole
  BY DEF EndOfReset, ConfigurationChanged, BusReset, endpointVars, OnlyUsed, Whole, End
<1>2. \A k \in allocated : k \in Nat
  BY ControlFacts DEF TypeOK
<1>3. CASE EndOfReset
  <2>1. /\ caller = "none" /\ caller' = "USB_GEN_vect" /\ epNum' = 0 /\ eorsti' = FALSE
        /\ UNCHANGED <<enabled, interface, entry, configSuccess, leds>>
        /\ ~Configuring /\ ~Configuring'
    BY <1>3 DEF EndOfReset, endpointVars, Configuring
  <2>2. TypeOK'
    <3>1. epNum' \in 0 .. TotalEndpoints
      BY <2>1, ControlFacts
    <3>2. interface' = interface /\ entry' = entry /\ enabled' = enabled
          /\ configSuccess' = configSuccess /\ leds' = leds /\ memory' = memory
          /\ allocated' = allocated /\ configured' = configured /\ base' = base
      BY <1>1, <2>1
    <3>. QED  BY <2>1, <3>1, <3>2 DEF TypeOK
  <2>3. ControlFirst' /\ NoFailure'
    BY <1>1, <2>1 DEF ControlFirst, NoFailure
  <2>4. NumberTaken'
    BY <2>1 DEF NumberTaken, Number, Configuring
  <2>5. ReadyKept'
    BY <1>1, <1>2, <2>1 DEF ReadyKept
  <2>. QED  BY <1>1, <2>2, <2>3, <2>4, <2>5
<1>4. CASE ConfigurationChanged
  <2>1. /\ caller = "none" /\ Configuring' /\ caller' = "ConfigurationChanged"
        /\ interface' = 1 /\ entry' = 1 /\ epNum' = Interfaces[1][1]
        /\ configSuccess' = TRUE /\ UNCHANGED <<enabled, eorsti, leds>>
    BY <1>4 DEF ConfigurationChanged, endpointVars, Configuring
  <2>2. Interfaces[1][1] \in Endpoint /\ 1 \in DOMAIN Interfaces /\ 1 \in DOMAIN Interfaces[1]
    BY InterfaceFacts
  <2>3. TypeOK'
    BY <1>1, <2>1, <2>2, ControlFacts DEF TypeOK, Endpoint
  <2>4. 0 \in configured /\ 0 \in enabled /\ base[0] = 0
    BY <2>1 DEF ControlFirst
  <2>5. ControlFirst'
    BY <1>1, <2>1, <2>4 DEF ControlFirst
  <2>6. NumberTaken'
    <3>1. Number' = Interfaces[interface'][entry']
      BY <2>1 DEF Number
    <3>2. Number' = epNum' /\ epNum' \in Nat
      BY <3>1, <2>1, <2>2, ControlFacts
    <3>. QED  BY <3>2 DEF NumberTaken
  <2>7. ASSUME NEW k \in allocated, k < Interfaces[1][1]
        PROVE  k = 0
    <3>1. k \in Used
      BY DEF OnlyUsed
    <3>2. k = 0 \/ \E i \in DOMAIN Interfaces : \E n \in DOMAIN Interfaces[i] : k = Interfaces[i][n]
      BY <3>1 DEF Used
    <3>3. k = 0 \/ Interfaces[1][1] <= k
      BY <3>2, InterfaceFacts
    <3>4. Interfaces[1][1] \in Nat /\ k \in Nat
      BY <2>2, <1>2, ControlFacts
    <3>. QED  BY <3>3, <3>4, <2>7
  <2>8. End(0) <= memory /\ \A i \in configured : ~(i < 0)
    BY <1>2, <2>4, ControlFacts DEF End, TypeOK
  <2>9. Laid(epNum)'
    BY <1>1, <2>1, <2>4, <2>7, <2>8 DEF Laid, End
  <2>10. NoFailure'
    <3>1. ASSUME NEW i \in DOMAIN Interfaces, NEW n \in DOMAIN Interfaces[i]
          PROVE  ~(i < interface' \/ (i = interface' /\ n < entry'))
      BY <2>1, InterfaceFacts
    <3>. QED  BY <3>1, <2>9 DEF NoFailure
  <2>11. ReadyKept'
    BY <2>1 DEF ReadyKept
  <2>. QED  BY <1>1, <2>3, <2>5, <2>6, <2>10, <2>11
<1>5. CASE BusReset
  <2>1. /\ eorsti' = TRUE /\ enabled' = enabled \cap {0}
        /\ UNCHANGED <<caller, interface, entry, epNum, configSuccess, leds>>
        /\ Configuring' = Configuring /\ Number' = Number
    BY <1>5 DEF BusReset, callVars, Configuring, Number
  <2>2. TypeOK'
    BY <1>1, <2>1 DEF TypeOK
  <2>3. ControlFirst' /\ NumberTaken'
    BY <1>1, <2>1 DEF ControlFirst, NumberTaken
  <2>4. NoFailure'
    BY <1>1, <2>1 DEF NoFailure, Laid, End
  <2>5. ReadyKept'
    BY <1>1, <2>1 DEF ReadyKept
  <2>. QED  BY <1>1, <2>2, <2>3, <2>4, <2>5
<1>. QED  BY <1>3, <1>4, <1>5

LEMMA Stutter == ASSUME IInv, UNCHANGED vars PROVE IInv'
  BY DEF IInv, vars, endpointVars, callVars, TypeOK, OnlyUsed, ControlFirst,
         NumberTaken, NoFailure, ReadyKept, Laid, Whole, End, Number, Configuring

(* IInv holds in every reachable state.                                    *)
THEOREM Invariance == Spec => []IInv
<1>1. IInv /\ [Next]_vars => IInv'
  BY SkipStep, ConfigureStep, FailStep, DoneStep, OtherSteps, Stutter DEF Next
<1>. QED  BY InitIInv, <1>1, PTL DEF Spec

(* Registers and calls keep their types, for any endpoints and interfaces: *)
(* no index runs out of the tables of ConfigureEndpoints.                  *)
THEOREM TypeCorrect == Spec => []TypeOK
  BY Invariance, PTL DEF IInv

(* A successful configuration has given every endpoint that is used a      *)
(* window of its own, and it still has it, enabled, after bus resets at any*)
(* time, for any sizes, interfaces and memory (ConfigSuccess in            *)
(* EVENT_USB_Device_ConfigurationChanged).                                 *)
THEOREM SuccessfulConfigurationsWork == Spec => []ReadyIsTrue
<1>1. IInv => ReadyIsTrue
  <2>. SUFFICES ASSUME IInv, caller = "none", ~eorsti, leds = "ready"
                PROVE  ReadyIsTrue
    BY DEF ReadyIsTrue
  <2>1. Used \subseteq allocated /\ Whole /\ \A k \in allocated : k \in enabled
    BY DEF IInv, ReadyKept, Configuring
  <2>2. \A k \in Used : Working(k) /\ k \in configured
    BY <2>1 DEF Whole, Working
  <2>3. ASSUME NEW k \in Used, NEW j \in Used, j # k
        PROVE  Apart(j, k)
    <3>1. j \in Nat /\ k \in Nat /\ (j < k \/ k < j)
      BY <2>3, ControlFacts
    <3>. QED  BY <3>1, <2>1, <2>2 DEF Whole, Apart
  <2>. QED  BY <2>2, <2>3 DEF ReadyIsTrue
<1>. QED  BY Invariance, <1>1, PTL

-----------------------------------------------------------------------------
(* The mouse.  Its window is on that of the control endpoint and under all *)
(* others.                                                                 *)
MouseWindow ==
  /\ 1 \in allocated => 1 \in configured /\ base[1] = Size[0]
  /\ \A k \in allocated : k > 1 => 1 \in allocated
  /\ \A k \in configured : k > 1 => base[k] >= Size[0] + Size[1]

(* It is up but for a bus reset, whose handler brings it up again.         *)
MouseUp ==
  1 \in allocated =>
    /\ caller # "USB_Init"
    /\ eorsti \/ 1 \in enabled \/ (caller = "USB_GEN_vect" /\ epNum <= 1)

(* Its call is the first of a configuration, and does not fail.            *)
MouseTaken ==
  (Configuring /\ ~(interface = 1 /\ entry = 1)) \/ leds # "notready" =>
    1 \in allocated

MouseInv == memory >= Size[0] + Size[1] => MouseWindow /\ MouseUp /\ MouseTaken

(* The mouse's endpoint is configured first.                               *)
LEMMA MouseFacts ==
  ASSUME TypeOK, Interfaces[1][1] = 1
  PROVE  /\ 1 \in Endpoint /\ 1 \in Nat /\ memory \in Nat
         /\ Size[0] \in Nat /\ Size[0] > 0 /\ Size[1] \in Nat /\ Size[1] > 0
         /\ Number = 0 \/ (Number \in Nat /\ Number >= 1)
         /\ interface = 1 /\ entry = 1 /\ Configuring => Number = 1
<1>1. 1 \in Endpoint
  BY InterfaceFacts
<1>2. memory \in Nat /\ Size[0] \in Nat /\ Size[0] > 0 /\ Size[1] \in Nat /\ Size[1] > 0
  BY <1>1, ControlFacts DEF TypeOK
<1>3. Number = 0 \/ (Number \in Nat /\ Number >= 1)
  <2>1. CASE Configuring
    <3>1. Interfaces[interface][entry] \in Endpoint /\ 1 <= Interfaces[interface][entry]
      BY InterfaceFacts DEF TypeOK
    <3>. QED  BY <3>1, <2>1, ControlFacts DEF Number
  <2>2. CASE ~Configuring
    BY <2>2 DEF Number
  <2>. QED  BY <2>1, <2>2
<1>4. interface = 1 /\ entry = 1 /\ Configuring => Number = 1
  BY DEF Number
<1>. QED  BY <1>1, <1>2, <1>3, <1>4

(* The loop leaves the windows so, and fails for neither of the first two. *)
LEMMA MouseKept ==
  ASSUME IInv, Interfaces[1][1] = 1, memory >= Size[0] + Size[1],
         MouseWindow, MouseUp, MouseTaken,
         InLoop, TakenThrough(epNum), TakeWindow(epNum)
  PROVE  /\ MouseWindow'
         /\ epNum <= 1 => epNum \in configured'
         /\ allocated' = allocated \cup {epNum} /\ enabled' = enabled \cup {epNum}
         /\ epNum > 1 => 1 \in allocated
<1>. USE DEF IInv
<1>0. epNum \in Endpoint
  BY ControlFacts DEF InLoop, TypeOK, Endpoint
<1>. PICK e \in Endpoint : e = epNum
  BY <1>0
<1>1. PICK b \in Nat :
        /\ \A i \in configured : i < e => End(i) <= b
        /\ b = 0 \/ \E i \in configured : i < e /\ b = End(i)
        /\ Allocate(e, b)
        /\ base' \in [Endpoint -> Nat]
        /\ base'[e] = b
        /\ \A j \in Endpoint : j < e \/ j > e + 1 => base'[j] = base[j]
  BY Window
<1>2. /\ allocated' = allocated \cup {e} /\ enabled' = enabled \cup {e}
      /\ configured' = IF b + Size[e] <= memory THEN configured \cup {e}
                       ELSE configured \ {e}
  BY <1>1 DEF Allocate
<1>3. /\ e \in Nat /\ 0 \in Endpoint /\ 1 \in Endpoint
      /\ \A k \in allocated : k \in Endpoint
      /\ configured \subseteq allocated
      /\ \A k \in Endpoint : /\ k \in Nat /\ base[k] \in Nat /\ base'[k] \in Nat
                             /\ Size[k] \in Nat /\ End(k) = base[k] + Size[k]
      /\ Size[0] > 0 /\ memory \in Nat
  BY <1>1, ControlFacts, MouseFacts DEF TypeOK, End
<1>4. \A k \in configured : k \in Endpoint /\ k \in Nat
  BY ControlFacts DEF TypeOK
<1>5. CASE e = 0
  <2>1. b = 0 /\ b + Size[0] <= memory
    BY <1>1, <1>3, <1>5
  <2>2. base'[1] = Size[0] /\ configured' = configured \cup {0}
    BY <2>1, <1>1, <1>2, <1>3, <1>5 DEF Allocate
  <2>3. \A k \in configured : k > 1 => base'[k] = base[k]
    BY <1>1, <1>3, <1>5
  <2>4. MouseWindow'
    BY <2>2, <2>3, <1>2, <1>3, <1>5 DEF MouseWindow
  <2>. QED  BY <2>2, <2>4, <1>2, <1>3, <1>5
<1>6. CASE e = 1
  <2>1. 0 \in configured /\ base[0] = 0
    BY <1>6 DEF ControlFirst
  <2>2. \A i \in configured : i < 1 => i = 0
    BY <1>4
  <2>3. b = Size[0] /\ b + Size[1] <= memory
    BY <2>1, <2>2, <1>1, <1>3, <1>6
  <2>4. base'[1] = Size[0] /\ configured' = configured \cup {1}
    BY <2>3, <1>1, <1>2, <1>6
  <2>5. ASSUME NEW k \in configured', k > 1
        PROVE  base'[k] >= Size[0] + Size[1]
    <3>1. k \in configured /\ k \in Endpoint /\ k \in Nat
      BY <2>4, <2>5, <1>4
    <3>2. CASE k = 2
      <4>1. base'[2] = b + Size[1]
        BY <3>1, <3>2, <2>3, <1>1, <1>6 DEF Allocate
      <4>. QED  BY <4>1, <3>2, <2>3, <1>3
    <3>3. CASE k # 2
      BY <3>1, <3>3, <2>5, <1>1, <1>3, <1>6 DEF MouseWindow
    <3>. QED  BY <3>2, <3>3
  <2>6. MouseWindow'
    BY <2>4, <2>5, <1>2, <1>6 DEF MouseWindow
  <2>. QED  BY <2>4, <2>6, <1>2, <1>3, <1>6
<1>7. CASE e > 1
  <2>1. 1 \in allocated
    <3>1. CASE e \in allocated
      BY <3>1, <1>7 DEF MouseWindow
    <3>2. CASE e = Number
      BY <3>2, <1>3, <1>7, MouseFacts DEF MouseTaken, Number
    <3>. QED  BY <3>1, <3>2 DEF TakenThrough
  <2>2. 1 \in configured /\ base[1] = Size[0] /\ End(1) = Size[0] + Size[1]
    BY <2>1, <1>3 DEF MouseWindow
  <2>3. b >= Size[0] + Size[1]
    BY <2>2, <1>1, <1>3, <1>7
  <2>4. 1 \in configured' /\ base'[1] = Size[0]
    BY <2>2, <1>1, <1>2, <1>3, <1>7
  <2>5. ASSUME NEW k \in configured', k > 1
        PROVE  base'[k] >= Size[0] + Size[1]
    <3>1. k \in Endpoint /\ k \in Nat /\ (k = e \/ k \in configured)
      BY <2>5, <1>2, <1>3
    <3>2. CASE k = e
      BY <3>2, <2>3, <1>1
    <3>3. CASE k # e /\ k # e + 1
      <4>1. base'[k] = base[k]
        BY <3>1, <3>3, <1>1, <1>3
      <4>. QED  BY <4>1, <3>1, <3>3, <2>5 DEF MouseWindow
    <3>4. CASE k = e + 1
      <4>1. k \in configured /\ base[k] >= Size[0] + Size[1]
        BY <3>1, <3>4, <2>5, <1>3 DEF MouseWindow
      <4>2. e \in configured => base[e] >= Size[0] + Size[1]
        BY <1>7 DEF MouseWindow
      <4>3. base'[k] = base[k] \/ base'[k] = b + Size[e]
            \/ (e \in configured /\ base'[k] = base[e])
        BY <3>1, <3>4, <1>1, <1>3 DEF Allocate
      <4>. QED  BY <4>1, <4>2, <4>3, <2>3, <3>1, <1>3
    <3>. QED  BY <3>2, <3>3, <3>4
  <2>6. MouseWindow'
    BY <2>1, <2>4, <2>5, <1>2 DEF MouseWindow
  <2>. QED  BY <2>1, <2>6, <1>2, <1>3, <1>7
<1>. QED  BY <1>3, <1>5, <1>6, <1>7

(* The mouse's part of an interface's end: the first endpoint is behind.   *)
LEMMA MouseInterfaceDone ==
  ASSUME TypeOK, NEW result \in BOOLEAN, InterfaceDone(result),
         MouseTaken, Configuring => 1 \in allocated, 1 \in allocated => 1 \in allocated'
  PROVE  /\ MouseTaken'
         /\ caller' \in {caller, "none"}
         /\ caller' = "USB_GEN_vect" => caller = "none"
<1>1. caller \in {"USB_GEN_vect", "USB_Init"} => ~Configuring
  BY DEF Configuring
<1>2. caller' \in {caller, "none"} /\ (~Configuring => caller' = "none")
  BY DEF InterfaceDone
<1>3. Configuring' => Configuring
  BY <1>2 DEF Configuring
<1>4. ~Configuring => leds' = leds
  BY DEF InterfaceDone
<1>5. MouseTaken'
  BY <1>3, <1>4 DEF MouseTaken
<1>. QED  BY <1>1, <1>2, <1>5 DEF Configuring, TypeOK

LEMMA MouseStep ==
  ASSUME Interfaces[1][1] = 1, IInv, IInv', MouseInv, [Next]_vars
  PROVE  MouseInv'
<1>. USE DEF IInv
<1>1. memory' = memory
  BY DEF Next, vars, EndOfReset, ConfigurationChanged, SkipEndpoint, ConfigureEndpoint,
         EndpointFails, EndpointsDone, BusReset
<1>. SUFFICES ASSUME memory >= Size[0] + Size[1], MouseWindow, MouseUp, MouseTaken
              PROVE  MouseWindow' /\ MouseUp' /\ MouseTaken'
  BY <1>1 DEF MouseInv
<1>2. epNum \in Nat /\ Number \in Nat /\ 1 \in Endpoint
      /\ \A k \in allocated : k \in Nat
  BY MouseFacts, ControlFacts DEF TypeOK
<1>3. CASE SkipEndpoint
  <2>1. /\ UNCHANGED <<allocated, enabled, configured, base, eorsti, caller,
                       interface, entry, configSuccess, leds>>
        /\ epNum' = epNum + 1 /\ epNum \notin allocated
    BY <1>3 DEF SkipEndpoint, endpointVars, TakenThrough
  <2>2. epNum = 0 => caller = "USB_Init" \/ 0 \in allocated
    BY DEF ControlFirst, TypeOK
  <2>. QED
    BY <2>1, <2>2, <1>2 DEF MouseWindow, MouseUp, MouseTaken, Configuring
<1>4. CASE ConfigureEndpoint
  <2>1. /\ MouseWindow' /\ allocated' = allocated \cup {epNum}
        /\ enabled' = enabled \cup {epNum} /\ (epNum > 1 => 1 \in allocated)
    BY <1>4, MouseKept DEF ConfigureEndpoint
  <2>2. /\ UNCHANGED <<eorsti, caller, interface, entry, configSuccess, leds>>
        /\ epNum' = epNum + 1
    BY <1>4 DEF ConfigureEndpoint
  <2>3. MouseTaken'
    BY <2>1, <2>2 DEF MouseTaken, Configuring
  <2>4. MouseUp'
    <3>1. CASE epNum = 1
      <4>1. caller # "USB_Init"
        <5>1. TakenThrough(1)
          BY <1>4, <3>1 DEF ConfigureEndpoint
        <5>. QED  BY <5>1 DEF TakenThrough, Number, Configuring, MouseUp
      <4>. QED  BY <4>1, <3>1, <2>1, <2>2 DEF MouseUp
    <3>2. CASE epNum # 1
      BY <3>2, <2>1, <2>2, <1>2 DEF MouseUp
    <3>. QED  BY <3>1, <3>2
  <2>. QED  BY <2>1, <2>3, <2>4
<1>5. CASE EndpointFails
  <2>1. /\ MouseWindow' /\ allocated' = allocated \cup {epNum}
        /\ enabled' = enabled \cup {epNum} /\ (epNum > 1 => 1 \in allocated)
        /\ epNum > 1
    BY <1>2, <1>5, MouseKept DEF EndpointFails
  <2>2. eorsti' = eorsti /\ InterfaceDone(FALSE)
    BY <1>5 DEF EndpointFails
  <2>3. MouseTaken' /\ caller' \in {caller, "none"}
        /\ (caller' = "USB_GEN_vect" => caller = "none")
    BY <2>1, <2>2, MouseInterfaceDone
  <2>4. MouseUp'
    BY <2>1, <2>2, <2>3, <1>2 DEF MouseUp
  <2>. QED  BY <2>1, <2>3, <2>4
<1>6. CASE EndpointsDone
  <2>1. /\ UNCHANGED <<allocated, enabled, configured, base, eorsti>>
        /\ epNum = TotalEndpoints /\ caller # "none"
    BY <1>6 DEF EndpointsDone, endpointVars
  <2>2. epNum > 1
    BY <2>1, <1>2, EndpointAssumption DEF Endpoint
  <2>3. MouseWindow'
    BY <2>1 DEF MouseWindow
  <2>4. Configuring => 1 \in allocated
    <3>1. CASE interface = 1 /\ entry = 1 /\ Configuring
      <4>1. Number = 1
        BY <3>1, MouseFacts
      <4>. QED  BY <4>1, <2>1, <2>2 DEF NumberTaken
    <3>. QED  BY <3>1 DEF MouseTaken
  <2>5. CASE MoreEntries
    <3>1. NextEntry /\ Configuring
      BY <1>6, <2>5 DEF EndpointsDone, MoreEntries
    <3>2. caller' = caller /\ leds' = leds
      BY <3>1 DEF NextEntry
    <3>. QED  BY <3>1, <3>2, <2>1, <2>3, <2>4 DEF MouseTaken, MouseUp, Configuring
  <2>6. CASE ~MoreEntries
    <3>1. InterfaceDone(TRUE)
      BY <1>6, <2>6 DEF EndpointsDone
    <3>2. MouseTaken' /\ caller' \in {caller, "none"}
          /\ (caller' = "USB_GEN_vect" => caller = "none")
      BY <3>1, <2>1, <2>4, MouseInterfaceDone
    <3>3. MouseUp'
      BY <3>2, <2>1, <2>2, <1>2 DEF MouseUp
    <3>. QED  BY <3>2, <3>3, <2>3
  <2>. QED  BY <2>5, <2>6
<1>7. CASE EndOfReset
  BY <1>7 DEF EndOfReset, endpointVars, MouseWindow, MouseUp, MouseTaken, Configuring
<1>8. CASE ConfigurationChanged
  BY <1>8 DEF ConfigurationChanged, endpointVars, MouseWindow, MouseUp, MouseTaken,
              Configuring
<1>9. CASE BusReset
  BY <1>9 DEF BusReset, callVars, MouseWindow, MouseUp, MouseTaken, Configuring
<1>10. CASE UNCHANGED vars
  BY <1>10 DEF vars, endpointVars, callVars, MouseWindow, MouseUp, MouseTaken,
               Configuring
<1>. QED  BY <1>3, <1>4, <1>5, <1>6, <1>7, <1>8, <1>9, <1>10 DEF Next

(* The mouse, whose endpoint is number 1 and whose interface is configured *)
(* first (MOUSE_EPADDR, EVENT_USB_Device_ConfigurationChanged), works with *)
(* memory for it and the control endpoint, and shares it with none of the  *)
(* other endpoints, whatever their number and sizes and however many of    *)
(* them fail.                                                              *)
THEOREM MouseWorksFirst ==
  ASSUME Interfaces[1][1] = 1
  PROVE  Spec => []MouseFirst
<1>1. Init => MouseInv
  BY DEF Init, MouseInv, MouseWindow, MouseUp, MouseTaken, Configuring
<1>2. IInv /\ MouseInv => MouseFirst
  <2>. SUFFICES ASSUME IInv, MouseInv, caller = "none", ~eorsti, leds # "notready",
                       memory >= Size[0] + Size[1]
                PROVE  \A k \in {0, 1} :
                         Working(k) /\ \A j \in configured : j # k => Apart(j, k)
    BY DEF MouseFirst
  <2>. USE DEF IInv
  <2>1. /\ 0 \in configured /\ 0 \in enabled /\ base[0] = 0
        /\ 1 \in configured /\ 1 \in enabled /\ base[1] = Size[0]
        /\ \A j \in configured : j > 1 => base[j] >= Size[0] + Size[1]
    BY DEF ControlFirst, MouseInv, MouseTaken, MouseUp, MouseWindow
  <2>2. /\ \A j \in configured : j \in Nat /\ base[j] \in Nat
        /\ Size[0] \in Nat /\ Size[1] \in Nat /\ memory \in Nat
    BY MouseFacts, ControlFacts DEF TypeOK
  <2>3. End(0) = Size[0] /\ End(1) = Size[0] + Size[1]
    BY <2>1, <2>2 DEF End
  <2>4. Working(0) /\ Working(1)
    BY <2>1, <2>2, <2>3 DEF Working
  <2>5. ASSUME NEW j \in configured, j # 0
        PROVE  Apart(j, 0)
    <3>1. base[j] >= Size[0]
      BY <2>1, <2>2, <2>5
    <3>. QED  BY <3>1, <2>2, <2>3 DEF Apart
  <2>6. ASSUME NEW j \in configured, j # 1
        PROVE  Apart(j, 1)
    <3>1. CASE j = 0
      BY <3>1, <2>1, <2>2, <2>3 DEF Apart
    <3>2. CASE j # 0
      <4>1. base[j] >= End(1)
        BY <3>2, <2>1, <2>2, <2>3, <2>6
      <4>. QED  BY <4>1, <2>2, <2>3 DEF Apart
    <3>. QED  BY <3>1, <3>2
  <2>. QED  BY <2>4, <2>5, <2>6
<1>3. IInv /\ IInv' /\ MouseInv /\ [Next]_vars => MouseInv'
  BY MouseStep
<1>. QED  BY <1>1, <1>2, <1>3, Invariance, PTL DEF Spec

-----------------------------------------------------------------------------
(* No memory is lost to gaps.                                              *)
(* Where there is a layout, no window is higher than it has it.            *)
NotHigher(top) == \A k \in configured : base[k] <= top[k]

NoError ==
  \A top \in [Used -> Nat] :
    Layout(top, memory) => NotHigher(top) /\ configSuccess /\ leds # "error"

(* The loop puts no window higher, and finds room for it.                  *)
LEMMA RoomForWindow ==
  ASSUME IInv, NEW top \in [Used -> Nat], Layout(top, memory), NotHigher(top),
         InLoop, TakenThrough(epNum), TakeWindow(epNum)
  PROVE  epNum \in configured' /\ NotHigher(top)'
<1>. USE DEF IInv
<1>0. epNum \in Endpoint
  BY ControlFacts DEF InLoop, TypeOK, Endpoint
<1>. PICK e \in Endpoint : e = epNum
  BY <1>0
<1>1. PICK b \in Nat :
        /\ \A i \in configured : i < e => End(i) <= b
        /\ b = 0 \/ \E i \in configured : i < e /\ b = End(i)
        /\ Allocate(e, b)
        /\ base' \in [Endpoint -> Nat]
        /\ base'[e] = b
        /\ \A j \in Endpoint : j < e \/ j > e + 1 => base'[j] = base[j]
  BY Window
<1>2. Number \in Used
  BY ControlFacts, InterfaceFacts DEF Number, TypeOK, Configuring
<1>3. e \in Used /\ \A k \in configured : k \in Used
  BY <1>2 DEF TakenThrough, OnlyUsed, TypeOK
<1>4. \A k \in Used : /\ k \in Endpoint /\ k \in Nat /\ top[k] \in Nat
                       /\ base[k] \in Nat /\ Size[k] \in Nat
  BY ControlFacts DEF TypeOK
<1>5. memory \in Nat
  BY ControlFacts DEF TypeOK
<1>6. b <= top[e]
  <2>1. ASSUME NEW i \in configured, i < e, b = End(i)
        PROVE  b <= top[e]
    <3>1. base[i] <= top[i] /\ top[i] + Size[i] <= top[e]
      BY <2>1, <1>3 DEF NotHigher, Layout
    <3>. QED  BY <3>1, <2>1, <1>3, <1>4 DEF End
  <2>2. CASE b = 0
    BY <2>2, <1>3, <1>4
  <2>. QED  BY <2>1, <2>2, <1>1
<1>7. b + Size[e] <= memory
  BY <1>1, <1>3, <1>4, <1>5, <1>6 DEF Layout
<1>8. configured' = configured \cup {e}
  BY <1>1, <1>7 DEF Allocate
<1>9. ASSUME NEW k \in configured'
      PROVE  base'[k] <= top[k]
  <2>1. k \in Used /\ k \in Endpoint /\ k \in Nat /\ e \in Nat
        /\ (k = e \/ k \in configured)
    BY <1>3, <1>4, <1>8
  <2>2. CASE k = e
    BY <2>2, <1>1, <1>6
  <2>3. CASE k = e + 1
    <3>1. base'[k] = b + Size[e]
      BY <2>1, <2>3, <1>1, <1>7 DEF Allocate
    <3>2. top[e] + Size[e] <= top[k]
      BY <2>1, <2>3, <1>3 DEF Layout
    <3>. QED  BY <3>1, <3>2, <2>1, <1>1, <1>3, <1>4, <1>6
  <2>4. CASE k # e /\ k # e + 1
    <3>1. base'[k] = base[k] /\ k \in configured
      BY <2>1, <2>4, <1>1
    <3>. QED  BY <3>1 DEF NotHigher
  <2>. QED  BY <2>2, <2>3, <2>4
<1>. QED  BY <1>8, <1>9 DEF NotHigher

LEMMA NoErrorStep ==
  ASSUME IInv, NoError, [Next]_vars
  PROVE  NoError'
<1>1. memory' = memory
  BY DEF Next, vars, EndOfReset, ConfigurationChanged, SkipEndpoint, ConfigureEndpoint,
         EndpointFails, EndpointsDone, BusReset
<1>2. SUFFICES ASSUME NEW top \in [Used -> Nat], Layout(top, memory),
                      NotHigher(top), configSuccess, leds # "error"
               PROVE  NotHigher(top)' /\ configSuccess' /\ leds' # "error"
  BY <1>1 DEF NoError, Layout
<1>3. CASE ConfigureEndpoint
  BY <1>2, <1>3, RoomForWindow DEF ConfigureEndpoint
<1>4. ~EndpointFails
  BY <1>2, RoomForWindow DEF EndpointFails
<1>5. CASE EndpointsDone
  <2>1. configured' = configured /\ base' = base
    BY <1>5 DEF EndpointsDone, endpointVars
  <2>2. configSuccess' /\ leds' # "error"
    BY <1>2, <1>5 DEF EndpointsDone, NextEntry, InterfaceDone
  <2>. QED  BY <1>2, <2>1, <2>2 DEF NotHigher
<1>6. CASE SkipEndpoint \/ EndOfReset \/ ConfigurationChanged \/ BusReset \/ UNCHANGED vars
  BY <1>2, <1>6 DEF SkipEndpoint, EndOfReset, ConfigurationChanged, BusReset,
                    vars, endpointVars, callVars, NotHigher
<1>. QED  BY <1>3, <1>4, <1>5, <1>6 DEF Next

(* ConfigSuccess is false only when there is no room: if any layout of the *)
(* endpoints fits in the memory, no configuration fails, however often the *)
(* host sets one and whenever it resets the bus.                           *)
THEOREM ErrorsMeanNoRoom == Spec => []ErrorIsReal
<1>1. Init => NoError
  BY DEF Init, NoError, NotHigher
<1>2. IInv /\ NoError /\ [Next]_vars => NoError'
  BY NoErrorStep
<1>3. IInv /\ NoError => ErrorIsReal
  <2>1. SUFFICES ASSUME IInv, NoError, NEW top \in [Used -> 0 .. memory],
                        Layout(top, memory)
                 PROVE  leds # "error"
    BY DEF ErrorIsReal
  <2>2. 0 .. memory \subseteq Nat
    BY ControlFacts DEF IInv, TypeOK
  <2>3. top \in [Used -> Nat]
    BY <2>2
  <2>. QED  BY <2>1, <2>3 DEF NoError
<1>. QED  BY <1>1, <1>2, <1>3, Invariance, PTL DEF Spec
=============================================================================
