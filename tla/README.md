# C1351 USB adapter: TLA+ specifications

The repository is the firmware of an adapter that lets a Commodore C1351
mouse be used on a USB host.  It runs on an ATmega32u4 (`platformio.ini`),
written in C++ (`src/`, `include/`) on top of the vendored LUFA USB stack
(`lib/LUFA`).  There is no operating system and, after boot, no main loop:
everything happens in interrupt handlers.  This directory holds its
specifications, the TLC configurations that check them on small instances and
the proofs checked by TLAPS.  Paths below are relative to the repository.

## The system

### Parts, state and operations

| part | code | state | operations |
|---|---|---|---|
| position decoding | `src/controller.cpp` 84-133, 177-189 | none | timestamp -> position -> velocity -> mouse counts, in 8 and 16 bit integers |
| input capture timers | `src/capture_timer.cpp` | registers of timers 1 and 3, a timestamp and an overflow count each | arm, disarm, capture and overflow handlers |
| C1351 driver | `src/controller.cpp`, `include/controller.hpp` | present and previous position, accumulated and reported velocity on two axes, two buttons; direction and latch of the POT pins | `init`, `setModeSync`, `setModeRead`, `update` |
| main program | `src/main.cpp` | mode and interval counter of the Timer 4 handler | boot, `TIMER4_COMPA_vect` |
| USB mouse | `src/mouse.c` | the report, `needs_update` | `setUsbMouse`, `handleUsb`, LUFA's callbacks |
| HID class driver | LUFA `HIDClassDevice.c` | previous report, idle period, frame of the last report | `HID_Device_USBTask`, class requests, `MillisecondElapsed` |
| device core | LUFA `USBTask.c`, `DeviceStandardReq.c`, `USBInterrupt_AVR8.c` | device state, configuration number, interrupt masks | standard requests, `USB_GEN_vect` |
| control transfers | LUFA `Endpoint_AVR8.c`, `Template_Endpoint_Control_W.c`, `Template_Endpoint_Control_R.c` | flags and FIFO of the control endpoint | streams of packets to and from the host, waits for the status stage |
| endpoint configuration | LUFA `Endpoint_AVR8.c`, `CDC_Device_ConfigureEndpoints`, `EVENT_USB_Device_ConfigurationChanged` | endpoint registers, the controller's memory, `ConfigSuccess` | start-up, end of a bus reset, SetConfiguration |
| virtual serial port | `src/mouse.c` under `ENABLE_VIRTUAL_SERIAL` (the debug environment of `platformio.ini`), LUFA `CDCClassDevice.c` | the line to send, the baud rate, two bulk endpoints | send a line at each update, throw away what the host sends |

A read cycle takes 512 us.  `setModeSync` pulls both POT lines low, which
makes the mouse start a cycle of its own, and starts the capture timers from
zero.  256 us later `setModeRead` releases the lines.  The mouse drives each
line high after 256 us plus a time that tells its position on that axis modulo
2048 timer ticks; the capture unit latches the timer and the capture handler
keeps the value and stops the timer.  The next `setModeSync` takes the two
timestamps, and the differences from the previous ones are the motion.  After
40 cycles the sum is divided by 16, handed to the USB side as the velocity of
a report, and `handleUsb` runs LUFA's tasks, all inside the Timer 4 handler.

Parts interact by direct calls inside handlers (Timer 4 -> driver -> timers;
Timer 4 -> mouse -> LUFA -> callbacks in `mouse.c`), by registers that hardware
and handlers share, and through two outside actors: the mouse on the POT lines
and the host on the bus.  AVR handlers do not nest, so a handler that runs
delays all the others, and each interrupt source remembers one event.

### What is hard

* The mouse answers when it likes, or not at all; edges, capture handlers,
  re-arming and the next sync interleave freely, on two axes, one of which is
  not checked.
* Positions are known modulo 2048, and summed, divided and narrowed in fixed
  widths.
* `handleUsb` inside the Timer 4 handler delays the second half of a cycle.
* USB motion is relative: a report lost, repeated or held back is visible; but
  the endpoint has one bank, the host reads when it likes and may reset,
  suspend, reconfigure or ask for a report of its own.
* Control transfers are waited for with interrupts off; in a debug build so is
  a host that reads the serial port.
* The windows of the endpoints in the controller's memory slide when one below
  them is allocated, and the debug build does not configure them in order.

What must hold, part by part: decoding is exact up to half the range and off
by whole ranges beyond it; a capture belongs to the present arming and is taken
once; the pointer does not drift however many edges are missed; readings are
taken at the right time as long as handlers are short; cycles and USB service
go on for ever; each velocity reaches the host once; the host learns the
buttons in the end; endpoints that are said to be ready have memory of their own;
a host that uses the serial port is neither locked out nor waited for without
end.  `PROJECT.json` lists the hazards one by one, with their
lines and the properties that cover them.

## The modules

### `PotArithmetic`, `PotDecoder`

The operators of the decoding, over constants for the widths.  `PotArithmetic`
is what `C1351Interface` is built from.  `PotDecoder` is a state machine of one
action that reads a mouse at one place after another; it exists so that the
operators are checked at the widths of the program (2^16, 2^8, 2048, 16, 4096)
against a definition of what a displacement is (`IsDisplacement` and the
properties of `PotDecoder`).

### `CaptureTimer`

One action per function and handler of `capture_timer.cpp`, over functions
from timer numbers to register bits.  The counter register is not a variable:
arming zeroes it, so the count at an edge is a parameter of `Edge`.  `edges` is
a history variable, the counts of the edges since the last arming.

### `C1351Interface`

The driver class with an instance of `CaptureTimer`, both POT pins, and the
mouse.  X fields are under `TIMER_1`, Y fields under `TIMER_3`, as the lines are
wired.  `setModeSync` and a following `update` are one action
(`SetModeSyncThenUpdate`), because the main program never lets anything come
between them.  There is no clock: an edge comes when it comes, carrying the
right count, or does not come.  History variables record the places of the
mouse that timestamps and positions stand for, and the motion decoded so far
in unbounded integers (`moved`); `latchedOk`, `stampOk`, `readOk` are true
while the mouse has stayed within half a range of the corresponding place,
and constrain `Move`.  `Jump` is every other motion and clears them.
`setPotsOutputLow` writes the latch and then the direction; no other step of the model
falls between the two, and `drivenHigh` records what the pins did there.

### `MainInterrupt`

EXTENDS `C1351Interface` and adds the boot sequence, the Timer 4 handler and
time: `Tick` advances Timer 4 and the capture counters by one tick and is held
back while a handler can run or an edge is due.  `busy` is how long the running
handler still takes.  Each action of the driver is conjoined with what the
handler does around it.  That it implements the clockless `C1351Interface!Spec`
is checked as a property and proved (the refinement mapping is the identity, as the
variables are shared): everything shown or proved of that specification
therefore holds of the clocked program wherever edges come at the right count
-- and `ReadingsUnaffected` is the property that says they do.

### `UsbMouse`

`mouse.c`, the HID class driver and the part of LUFA's device core that decides
what is sent, with the USB controller and the host.  The three calls of an
update (`setUsbMouse`, `HID_Device_USBTask`, `USB_USBTask`) are separate steps
(`at`), because the controller and the host go on between them; the USB_GEN
handler runs only between updates.  A control request is one step.
`undelivered` is the motion handed over and not yet read by the host.

Frame numbers are cyclic from 0, and `HID_Device_ConfigureEndpoints` clears
`PrevFrameNum` to 0.  `HID_Device_USBTask` therefore passes over the first update after a
configuration when that falls into frame 0 (`Missed`; 1 in 2048), and as the next
`setUsbMouse` overwrites the report, its motion is lost.  Its buttons come with the next
report; but if nothing changed, only the idle period was the reason to send, and
the host sets that to 0 just then, there is no next report until something changes.
The properties say so instead of leaving the frame out: `lost` is the motion that the
host never gets, that of one update at most, and `first` tells whether the first update
is due, was missed, or has been followed by a report.

### `MouseChannel`

What `UsbMouse` promises, without endpoints, frames or requests: a channel with
one place.  An update puts its motion and buttons in, and before the next one
they are delivered, unless there is nothing new; the first of all may be missed.
`UsbMouse!Channel` is the
refinement mapping: the channel is up while the host has configured the adapter
and keeps up with it (`prompt`), it is full from `setUsbMouse` to the host's
read or to the point where the HID task finds nothing to send, `owed` is
`undelivered` less `lost`, and `known` the buttons of the last report on the endpoint or
asked for.  The channel's liveness is part of what is checked.

### `ControlTransfer`

What is one step in `UsbMouse`: the inside of
`USB_Device_ProcessControlRequest`, from the setup packet to the point where
the handler goes on.  `at` is the busy wait the handler is in.  Requests are told
apart by how they are answered only: by a stream to the host
(`Template_Endpoint_Control_W.c`) or from it (`Template_Endpoint_Control_R.c`, for
SetReport), by one packet to the host or from it (SetLineEncoding of a debug build),
by a status alone, by a status and a new address, or not at all.
A packet is its size, and the control endpoint its four flags.  The test for a
setup packet and the writing or reading of a packet are two steps of the stream
(`PacketDue`, `SendPacket`; `PacketComing`, `ReadPacket`), because a setup packet can
arrive between them; what the stream then reads from the FIFO for data may be any
number of bytes.
The host counts for itself where the data ends, and may give up a request and
make another (`HostGivesUp`, `HostSetup`) while the handler still waits; `cut`
marks a request that was made in that way.

Taken from the controller and not from the code: a setup packet is always
accepted, ends a stall, and discards the packets that wait in either direction; other
packets are refused until it is taken; a status packet from the host is accepted
although the empty packet that follows a full one may still be in the FIFO.
Between the end of a transfer and the next setup packet the handler comes to its
end (about a microsecond, against ten for a setup packet on the bus).  The host's
wLength is not 0 for requests that return data: with 0 the host would go to its status
stage in the other direction.
Two answers do not keep to wLength.  GetReport with a report ID writes the ID in front
of a stream that is cut to wLength (`BeginReport`; `HIDClassDevice.c` 72-75), so that it
may be a byte longer; and GetStatus, GetConfiguration, GetProtocol, GetIdle and
GetLineEncoding write their one packet without looking at wLength (`BeginValue`).
`ReceivedWithinAsked` says that these two are all.  The adapter's report has no ID, so
a host gives 0 for it; nothing in the code holds one to that.
The ways out of the waits for `USB_DeviceState` being Unattached or Suspended
are absent: USB_GEN_vect, which sets it, cannot run in them, and a handler that
finds a setup packet runs after USB_GEN_vect, which comes first in the vector
table.

### `EndpointMemory`

`Endpoint_ConfigureEndpoint_Prv` and the calls of it in a row: the control
endpoint at start-up and after a bus reset, and at SetConfiguration the
endpoints of the interfaces, in the order in which `mouse.c` and
`CDC_Device_ConfigureEndpoints` configure them.  One round of the loop is a step;
a bus reset may come between any two.  A call that fails leaves out the rest of
its interface and makes `ConfigSuccess` false, which the LEDs show.  The
controller's memory is external and taken from what the loop is there for: the
window of an endpoint is put on top of those of the lower ones that have one;
the next higher endpoint slides up to make room; the ones above do not, and
may then overlap; `CFGOK` says that the window ended within the memory, and an
allocation that fails moves nothing.  A bus reset disables all endpoints but the
control endpoint and leaves their windows where they are.

### `VirtualSerial`

The part of `handleUsb` that only debug builds have, with the CDC driver and
`Endpoint_WaitUntilReady`, in steps within an update (`at`).  The wait ends when
the bank is free or after a number of frame changes; the device state is tested
in the wait and cannot change there.  In a suspend there are no frames, so that the wait
lasts as long as the suspend: `Millisecond` is time, and a frame only while the bus is
active.  A line is a bit in the endpoint (`written`,
then `sent`), as it is never longer than a bank; packets from the host are their
lengths.  `serviceAge` counts milliseconds since `USB_USBTask`, `suspended` those of
the present wait in which the bus was suspended, and `unread` those for which the host
has left the last line.

## The runs

| run | shows | instance |
|---|---|---|
| `pot_decoder` | decoding at the real widths | 24 places around every boundary, all pairs |
| `capture_timer` | freshness, single capture, truth of `timerRunning` | two timers, two counts |
| `c1351` | no drift, accumulators, reports to within a count while slow; off by whole ranges when thrown; current Y readings; POT lines never high, not even between two writes | range 4, word 8, desk of 4 places across the wrap on Y, one throw, one button, captures missed on both axes |
| `main_interrupt` | implements `C1351Interface`; readings at the right count, none missed, silent cycles still, USB in time; buttons are followed, cycles go on | interval 8 ticks, an update every 2 cycles, `handleUsb` up to 8 ticks, bus interrupts, plug and unplug |
| `slow_usb` | (violation) readings depend on the duration of `handleUsb` | `handleUsb` up to 20 ticks |
| `usb_mouse` | every velocity delivered once, but for a first update in frame 0; quiet means known; buttons learned; implements `MouseChannel` | frames 0 and 1, 2 velocities, one button, every request, reset, suspend, deconfiguration, host of any speed |
| `get_report` | (violation) GetReport hides a change from the endpoint | as `usb_mouse` without bus events |
| `control_transfer` | data complete, and longer than wLength only by a report ID or as one packet; cut requests refused, address after status; handler returns, requests end | packets of 3 bytes, streams of 1 to 6 bytes to the host, with and without a report ID, and 0 to 7 from it, wLength 2 to 7, one packet of 1 or 2 bytes for wLength 1 to 4, host gives up streams, commands and unknown requests |
| `control_hang` | (violation) a request answered by one packet, or SetLineEncoding, can be given up by the host and never ends | as above, host gives up those two |
| `endpoint_memory` | ready means working, error means too small, the mouse comes first | the 5 endpoints of a debug build of 7, memories of 1 to 8 units and of 104 (832 bytes) |
| `virtual_serial` | `USB_USBTask` late only through the host, never by more than the time-out and a suspend in the wait; lines for ever; the host is not locked | the program's numbers: time-out 100, updates 19 to 21 ms apart, 30 ms, suspends in the wait up to 12 ms |
| `serial_stall` | (violation) an open port that is not read delays `USB_USBTask` beyond 30 ms | as above, no bus events |

### Bounds

The small widths of `c1351` keep the program's proportions: the word is a
multiple of the range (8 = 2 x 4; the program's 65536 = 32 x 2048), the half
range is whole, a count is more than one tick, and the byte is so narrow (4)
that it wraps.  The desk of Y has the places 2 to 5: the position wraps between
the second and the third, a motion of half the range and more is among them
(the throw), and the accumulators overflow.  That of X has one place, as the code
of the two axes is the same and X adds the captures that nobody checks.  Wider
desks were run (7 places, two on X) and show nothing else.  What depends on the
true numbers is in `pot_decoder` and, for all numbers, in the proofs.
`OverflowModulus` is 1 where overflow counts are not of interest (nothing reads
them).  `MaxJumps = 1`: after a throw the mouse is slow again, and a second one
starts from a state the first can reach.

In `MainInterrupt` the interval and the sync phase are both 8 ticks (both are
4096 in the program) and the range is 4.  `MaxUsbTicks = 8` is a `handleUsb` that
returns just before the next compare match is lost; `slow_usb` goes beyond.
An update every second cycle stands for every fortieth: it has cycles with and
without an update.  `ServiceLimit = 46` is the nominal distance of two updates
(32 ticks) with the slack that the delays of these bounds can add.  The real
distance is 20.5 ms of the 30 ms that `mouse.c` allows: a ratio of 1.46, as
46 to 32.

In `UsbMouse` frame numbers are cyclic with the values 0 and 1, so that an update in
frame 0 right after a configuration, which is rare on the bus, is as common as any
other.  One axis stands for both, which
`setUsbMouse` treats alike.  `MinFrames` and `MaxFrames` are 20 and 21 in the
program and 1 here; what matters is that an update never falls in the frame of the
one before.  The host reads when it likes; the history variables `prompt` and
`overtaken` say when it has kept up, as it does with the descriptor's polling
interval of 5 ms (`src/descriptors.c` 256) against updates 20 ms apart.
`MotionConserved` and the channel speak of such a host, because the code overwrites
a report the host has not read.

In `ControlTransfer` the endpoint holds 3 bytes for the program's 8, so that an answer
of one packet (2 and 7 bytes in the program) can be longer than a byte, and the
sizes of streams and the wLengths are on both sides of one and of two packets,
equal to each other, multiples of the packet and not.  `Troubled` leaves out the
requests that wait for the host without a look for a new setup packet: one packet to
the host and SetLineEncoding (`CDCClassDevice.c` 72), for which `control_hang` shows
what happens, and SetAddress, which waits for ever if the new setup packet
comes just before its status packet is put in the endpoint (`DeviceStandardReq.c` 135).

In `EndpointMemory` sizes are in units of 8 bytes: the control endpoint, the mouse
and the notification endpoint take one, the bulk endpoints of the serial port two.
With 7 units all fit; every smaller memory makes one call or another fail.
`ErrorIsReal` looks for a layout of the endpoints that fits; `MC_EndpointMemory` checks
that there is one exactly when the memory holds the sum of the banks.  `MouseFirst`
names the mouse's endpoint, number 1, which is just above the control endpoint.

`VirtualSerial` has the numbers of the program (`USB_STREAM_TIMEOUT_MS` 100, 41 x 512
us between updates, which is 20 or 21 ms, or 19 after a late one).  `MaxSuspend = 12` is
the bound of a suspend within a wait; with the distance of two updates it alone is enough
to pass the 30 ms.

### Fairness

`MainInterrupt!Fairness`: boot goes on, a handler that can run is run (the AVR
serves pending interrupts in vector order; main is an empty loop), time passes,
and the mouse drives its lines when they are due.  Nothing is assumed of the
user: buttons and motion are free.  `UsbMouse!Fairness`: updates and their steps
go on (that is what `UsbServicedForever` shows of the main program), frames are
sent while the bus is active, the USB_GEN handler runs, and the host polls.  The
host is not assumed to enumerate, resume, or make requests.
`ControlTransfer!FairSpec`: the handler goes on when it can, a host goes on with a
transfer it has not given up, and one that has given up makes another request, as
hosts do when they time out during enumeration.  The last is needed: the stream
has no time-out of its own, and with a host that falls silent in the middle of
one the handler waits as long as the silence.
`VirtualSerial!Fairness`: the handlers and the time go on, with frames while the bus is
active, and the host reads the data endpoint; it is not assumed to open the port,
to send, or to resume.

## The four findings

* `slow_usb`: `include/controller.hpp` 66-68 says that readings are not affected
  by program execution time or the USB interrupt, because capture is done in
  hardware.  Capture is, but the release of the lines is not: it is done by the
  Timer 4 handler, which `handleUsb` (`src/main.cpp` 66) can delay past the
  moment the mouse drives the line.
* `get_report`: `HID_REQ_GetReport` (`HIDClassDevice.c` 60-66) consumes
  `needs_update` and overwrites the buffer that changes are detected with.  If an
  older report still waits in the endpoint, the host reads that one last, and with
  an idle period of 0 the change is never sent on the endpoint.
* `control_hang`: `Endpoint_ClearStatusStage` (`Endpoint_AVR8.c` 133) looks for the
  status packet and for a detached device only.  The second is set by
  USB_GEN_vect, which cannot run while the Timer 4 handler waits here; a new setup
  packet, which the stream functions do look for, is not noticed.  When the host
  gives up a GetStatus or GetConfiguration before its status stage, or in a debug build
  SetLineEncoding before its data (`CDCClassDevice.c` 72-76), the handler
  never returns, although `src/mouse.c` 169-172 says that the task may be executed
  in a timer ISR and must be serviced within 30 ms.

* `serial_stall`: the serial port of a debug build waits for the host in the Timer 4
  handler, 101 frames for each line, with `USB_USBTask` behind it (and the length of a
  suspend, should the bus be suspended in the wait).  `src/mouse.c` 171
  allows 30 ms, and 309-312 says how DTR would be used to avoid the wait; the
  callback below computes the flag and throws it away.  The baud rate, which is what
  `CDC_Device_SendString` looks at, stays set when the host closes the port.

## The proofs

`tlapm` proves, for every value of the constants that satisfies the named
assumptions (`WidthAssumption`, `DecoderAssumption`, `ModulusAssumption`,
`InterfaceAssumption`, `TransferAssumption`, `EndpointAssumption`,
`UsbAssumption`, `FrameAssumption`, `SerialAssumption`; TLC evaluates them in every run), and where a theorem
says so under a hypothesis of its own:

* `PotArithmetic_proofs`: `VelocityIsDisplacement` and `MotionDecoded`, on lemmas
  about remainders and the conversions.  They are the content of
  `potValueToVelocity`.
* `PotDecoder_proofs`: both properties of `PotDecoder`, from those lemmas.
* `CaptureTimer_proofs`: the type invariant and the three properties.  The
  invariant `IInv` adds `RunningMeansArmed` to them: a timer that runs has its
  capture interrupt enabled and the reverse, so that arming, disarming and the
  handler keep the two in step.
* `MainInterrupt_proofs`, first part: all seven properties of the driver
  (`C1351Interface`), in any order of its calls.  `IInv` is the type
  invariant, `NeverDrivenHigh`, `MotionMatchesReading`, `AccumulatorHoldsMotion`
  and `Following`, which says what each stage of the pipeline stands for while
  the mouse is slow: a pending capture tells the place latched at the last sync
  (`PendingTells`), a timestamp the place in `stampPlace` (`StampTells`), a
  position the place in `readPlace` (`ReadTells`), a stopped timer 3 means that its
  timestamp is of the present cycle (`StoppedTells`), and the mouse is within half a
  range of each of these places (`KeptNear`).  `NoDrift` is not inductive without
  it: that a reading adds exactly the motion needs two places less than half a
  range apart and two timestamps that tell them.
* `MainInterrupt_proofs`, second part: the safety properties of the clocked program, for any
  interval, durations of `handleUsb` and of the bus interrupt, places of the mouse and
  times of its plugging in.  The hypotheses about durations are operators of
  `MainInterrupt`.  `HandlersAreShort`: the lines are released before the first
  edge can be due, and the read is over before the next compare match.
  `CycleIsLongEnough`: the last edge is due before the next sync can come.
  `ServiceIsFrequent`: `UpdateInterval` cycles and a late sync are within the limit.
  In the program an interval and the sync phase are 4096 ticks (256 us: `src/main.cpp`,
  `MAIN_INTERRUPT_INTERVAL_US`; `src/controller.cpp`, `TIMESTAMP_ADJUST_US`), the range
  is 2048 and two intervals 40 times are 20.5 of 30 ms, so that they ask of the
  handlers and the mouse: `handleUsb` and one bus interrupt within 256 us and the
  mouse's offset, two bus interrupts within that offset, and offset and
  two bus interrupts within 128 us.  The code measures and bounds none of these: they
  are hypotheses and not assumptions of the module, `slow_usb` shows what
  happens without the first, and `MC_MainInterrupt` states that the instance of
  `main_interrupt` satisfies them all.  The argument: `ClockInv` bounds, in each half
  of the cycle, the ticks since the sync from both sides (`CountFollowsClock`) and
  the moment at which the handler that runs returns (`BusyInSync`, `BusyInRead`),
  with one bus interrupt for each interval.  `LineInv` ties the lines to that
  (`LinesFollowMode`, `EdgesInTime`, `RunningIsArmed`, `RisenIsCaptured`): an edge comes
  only in the read phase, at its count, and is captured at that tick.
  `ServiceCounted` counts the cycles since the last update.  From `MainInv` follow
  `ReadingsUnaffected`, `UsbServicedInTime`, `NoMissedCapture`, and that every step is
  one of `C1351Interface` or none (`MainImplementsInterface`), with which `NoDrift`
  and all else that is proved of the driver holds in the program.  `CaptureInv` uses
  no hypothesis about durations: a pending capture is of an edge of this cycle, so that a
  cycle without one moves nothing (`SilentCyclesAreStill`; that the sync phase is a
  whole number of ranges is used for the timer that has never captured, whose
  timestamp of 0 then is position 0).  `EveryReadingIsCurrent` joins the two: with
  a mouse plugged in each sync takes the place at the sync before, also on the X
  axis, where the code has no check.
  Some promises need none of these hypotheses and are proved for all durations,
  those included in which `slow_usb` fails.  Each step of the
  driver and of the program is a step of `CaptureTimer` or none
  (`DriverImplementsTimers`, `ProgramImplementsTimers`), so that its theorems
  hold of the timers in the program (`TimersKeepTheirPromises`); and
  whatever a late reading stands for, it is counted correctly from there on
  (`ProgramKeepsTheBooks`).  Long handlers can make readings wrong, and not what is
  done with them.
* `ControlTransfer_proofs`: the type invariant and the four safety invariants, for
  every size of the endpoint, every set of requests, and a host that may give up
  any of them (`TransferAssumption`).  `IInv` has two layers.  `Flow` keeps the two
  ends in step: a setup packet in the endpoint is new or waits to be stalled
  (`SetupIsNew`, `CutWaitsForStall`), and a host in the middle of an accepted
  request faces a handler at the same request (`HandlerServes`).  On it rests
  `StreamConserved`: received, waiting and unwritten bytes of a stream add up to
  its length, the report ID included, and only its last packet is not full; `WriteConserved` says the same of
  a SetReport, and that its status packet goes out when all of it is taken.  The host's two tests for the
  end of the data then give `DataComplete`.  `AddressAfterStatus` has the hypothesis
  that the host does not give up SetAddress (one that does so, and sends another in the
  wait, empties the endpoint that the handler looks at).  `AddressInv` says why it holds:
  a handler at SetAddress is at the host's present request, whose status packet is
  there until the host takes it (`AddressWaits`).
  Deadlocks are proved in full: `OnlyDeafWaitsDeadlock` says that one of the
  handler and the host can go on in every reachable state, except in the waits
  that do not look for a setup packet (for the status of a GetStatus and its
  like, for the data of SetLineEncoding, in SetAddress), and there only when the
  request they serve has been cut off by another.  `DeafWaitsStay` says of the
  first two that nothing ends them then, which is why `control_hang` finds
  what it finds, and `NoDeadlock` that a host which gives up none of these
  requests never meets any of it.  `ENABLED` is out of the prover's reach: `HandlerGoesOn`
  and `HostGoesOn` spell out the guards of `Handler` and of `Answer \/ SomeSetup`.
  `Serving` and `Progress` say what makes the two ends fit: the kind of
  wait fits the kind of request, a host at its data or status stage finds the packet
  it waits for or a handler that is about to write it, and the end of a stream is
  seen by both.
  That the handler returns is proved but for the fairness: `TransfersAreFinite` gives
  a measure (`Rank`: bytes not yet written or received, packets in the endpoint, stages of the
  host, waits ahead of the handler) that every step of the handler and every answer of the
  host lower and no step in a transfer raises, and `TransfersGoOn` says that such a
  step is open until the transfer is over or deaf.  `HandlerReturns` follows from the two by
  induction over `Rank` and `FairSpec`, which TLC checks.
* `VirtualSerial_proofs`: the type invariant and `ServiceDelay`, for any time-out, distance
  of updates, limit, size of packets and choice of bus events.  `AgeInMain` and `AgeInSend` tie `serviceAge` to the
  time since the update, the time-out used up and the suspend in the wait, and
  `UnreadSinceService` ties `unread` to it.  `APacketIsALine` shows that the model may treat a line as a packet:
  none is ever left in the bank for the next to be added to.
  `ShortTimeoutIsInTime` is the other half of the finding of `serial_stall`: a
  time-out that fits between `MaxGap` and the limit would keep the promise of
  `src/mouse.c` 171 whatever the host does, but to suspend the bus in the wait;
  `USB_STREAM_TIMEOUT_MS` does not.
* `UsbMouse_proofs`: the type invariant, `MotionConserved`, `QuietMeansKnown`, and that
  every step is one of `MouseChannel` or none (`AdapterIsAChannel`, the safety part of
  `ChannelSpec`).  `IInv` ties the driver to the host.  As long as the host keeps up,
  the endpoint is empty when an update comes (`PromptBank`) and the last report is as
  many frames ago as the last update (`FrameKnown`), so that the test of frame numbers
  in `HID_Device_USBTask` holds none back but the first (`PromptCanReport`); an update that gives no reason
  to report has no motion (`NoNeedNoMotion`).  Whatever the host does, the report that
  changes are compared with is what it has been told, or lies in the endpoint, or it has
  had no report since the configuration (`HostTold`); and while the first update is due,
  the idle period is over and `PrevFrameNum` is 0 (`FirstIsDue`, `Fresh`), so that the
  one that is missed falls into frame 0 (`OnlyFrameZeroIsMissed`).  `BusSeen` and `HostConfigured` say what the bus may do before
  USB_GEN_vect has seen it.
* `EndpointMemory_proofs`: all four properties, for any number of
  endpoints of any size, any interfaces in any order, and any memory that holds
  the control endpoint (`EndpointAssumption`).  `IInv` says what holds in the middle
  of the loop: as long as no call has failed, the allocated endpoints below the one it
  has come to have windows in order (`Laid`), and the entries of the interfaces that
  are done with are among them (`NoFailure`); the others may lie anywhere until the
  loop reaches them.  What has been found ready stays in order through bus resets,
  whose handler brings the endpoints up again one by one (`ReadyKept`).
  `ErrorsMeanNoRoom` needs no sum of sizes: no window is ever higher than in any layout
  of the endpoints that fits (`NotHigher`), though the loop moves the neighbour of
  the endpoint it configures, so every endpoint finds room.  `MouseWorksFirst` has
  the hypothesis that endpoint 1 is configured first, as the mouse's is
  (`MOUSE_EPADDR`, `include/descriptors.h` 93; `src/mouse.c` 226).  `MouseInv` says that
  its window is right on that of the control endpoint and under all others, that the
  handler of a bus reset brings it up again, and that its call is the first of a
  configuration, so that nothing which fails later takes it away.

Model-checked only: liveness (`ButtonsFollow`, `UsbServicedForever`,
`HostLearnsButtons`, `HandlerReturns`, `RequestsEnd`, `LinesReachHost`,
`HostNotLocked`), which is out of the prover's reach, as is the fairness of
`ChannelSpec`; and that a layout exists exactly when the banks add up to no more than
the memory, which is an induction over the endpoints.

## Not modelled

Descriptors (constant tables), the status LEDs (but for what `EndpointMemory` keeps
of them), PLL and regulator, the unused pins of the joystick port.  Within LUFA: a
bus reset or suspend in the middle of a control transfer, endpoint features, VBUS loss, a refused configuration, and the functions of the
class drivers that nothing calls.

The repository vendors LUFA whole.  Of its 340 source files about twenty are
compiled into the adapter: what is left is the host mode, the USB stacks of the
XMEGA and UC3 architectures, the drivers of other classes (audio, MIDI, mass
storage, printer, RNDIS, still image), board drivers and peripheral drivers, and
headers that are documentation for the most part.  None of it is part of the
program, and a model of it would say nothing of the adapter.  The share of all
implementation lines that the map covers is therefore low, and stays low, although
nearly all of `src/`, `include/` and of the LUFA functions that run is modelled.

## Plan

1. (done) arithmetic, timers, driver, main interrupt with the bus handler in the boot
   sequence, USB mouse; proofs of all five.
2. (done) control transfers and their proofs; the channel that `UsbMouse` implements;
   endpoint configuration and its proofs; the serial port of debug builds.
3. Left: a bus reset in the middle of a wait, and the request effects of `UsbMouse` as a refinement of its one-step requests.
4. (done) proofs of the timing of the main interrupt and of its refinement, of the order
   of SetAddress, and of where the endpoints of any device lie.
5. (done) proofs of the serial port, of the absence of deadlocks in control transfers,
   and of the timers in the program as a refinement of `CaptureTimer`.
