---------------------------- MODULE MouseChannel ----------------------------
(***************************************************************************)
(* What the USB side of the adapter (src/mouse.c on the LUFA HID driver)   *)
(* promises to a host that keeps up with it: a channel with one place.     *)
(* Each update puts its motion and buttons in; before the next one they    *)
(* are delivered, all of them, unless there is no motion and the host      *)
(* knows the buttons.  The very first update may be missed: its motion is  *)
(* lost, and the host may not know the buttons until they change or it     *)
(* asks.  Nothing is promised to a host that falls behind.                 *)
(***************************************************************************)
EXTENDS Integers

CONSTANTS
  Axis,           \* the axes of the mouse
  Velocity,       \* the velocities that occur
  Button          \* its buttons

VARIABLES
  up,             \* the host has configured the adapter and keeps up with it
  full,           \* an update is in the channel
  owed,           \* motion handed over and neither delivered nor missed
  first,          \* the first update is due, was missed, or neither
  current,        \* the buttons of the last update
  known           \* the buttons the host knows of

channelVars == <<up, full, owed, first, current, known>>

NoMotion == [a \in Axis |-> 0]

Init ==
  /\ up = FALSE /\ full = FALSE /\ owed = NoMotion /\ first = "done"
  /\ current = {} /\ known = {}

HandOver(motion, buttons) ==
  /\ up /\ up' = TRUE
  /\ ~full /\ full' = TRUE
  /\ owed' = [a \in Axis |-> owed[a] + motion[a]]
  /\ current' = buttons
  /\ UNCHANGED <<first, known>>

Deliver ==
  /\ full /\ full' = FALSE
  /\ owed' = NoMotion /\ first' = "done"
  /\ known' = current
  /\ UNCHANGED <<up, current>>

Miss ==
  /\ full /\ full' = FALSE
  /\ first = "due" /\ first' = "missed"
  /\ owed' = NoMotion
  /\ UNCHANGED <<up, current, known>>

NothingNew ==
  /\ full /\ owed = NoMotion /\ (known = current \/ first = "missed")
  /\ full' = FALSE
  /\ UNCHANGED <<up, owed, first, current, known>>

(* The host asks for a report of its own; only the buttons in it count. *)
Ask ==
  /\ known' = current
  /\ first' = IF first = "missed" THEN "done" ELSE first
  /\ UNCHANGED <<up, full, owed, current>>

Connect ==
  /\ up' = TRUE /\ full' = FALSE /\ owed' = NoMotion /\ first' = "due"
  /\ known' = {}
  /\ UNCHANGED current

(* The host is reset, suspends or deconfigures the adapter, falls behind,  *)
(* or has done so.                                                         *)
Down == up' = FALSE /\ full' = FALSE /\ owed' = NoMotion

Next ==
  \/ \E motion \in [Axis -> Velocity], buttons \in SUBSET Button :
       HandOver(motion, buttons)
  \/ Deliver
  \/ Miss
  \/ NothingNew
  \/ Ask
  \/ Connect
  \/ Down

SafeSpec == Init /\ [][Next]_channelVars

(* What is in the channel does not stay there: it is delivered or missed,  *)
(* or the channel goes down.                                               *)
Spec == SafeSpec /\ WF_channelVars(Deliver \/ Miss \/ NothingNew)
=============================================================================
