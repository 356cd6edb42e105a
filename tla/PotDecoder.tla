----------------------------- MODULE PotDecoder -----------------------------
(***************************************************************************)
(* A mouse moved over a desk and read by the arithmetic of PotArithmetic:  *)
(* each step reads it at a new place and decodes the difference from the   *)
(* previous reading.  It runs the operators at the widths of the program.  *)
(***************************************************************************)
EXTENDS PotArithmetic

CONSTANTS
  Places,     \* the places of the mouse that are tried, in ticks
  Offset      \* ticks from the end of the sync phase to the edge of place 0

ASSUME DecoderAssumption == Places \subseteq Int /\ Offset \in Nat

VARIABLES
  place,      \* where the mouse was at the last reading (external)
  potValue,   \* potXValue: the last reading
  decoded     \* what the last two readings were decoded to, and the motion

vars == <<place, potValue, decoded>>

(* The count of the capture timer when the mouse drives its line high. *)
EdgeTime(p) == TimestampAdjust + Offset + (p % PotRange)

Init ==
  /\ place \in Places
  /\ potValue = PotValueOf(EdgeTime(place))
  /\ decoded = [velocity |-> 0, motion |-> 0]

Read(p) ==
  LET reading == PotValueOf(EdgeTime(p))
  IN  /\ place' = p
      /\ potValue' = reading
      /\ decoded' = [velocity |-> PotValueToVelocity(potValue, reading),
                     motion   |-> p - place]

Next == \E p \in Places : Read(p)

Spec == Init /\ [][Next]_vars

(* A motion of less than half the range between two readings is decoded    *)
(* exactly, across the wrap of the position and across zero: what          *)
(* potValueToVelocity promises to accumulateVelocities.                    *)
SmallMotionDecoded ==
  LET m == decoded.motion
  IN  (-Half <= m /\ m < Half) => decoded.velocity = m

(* Whatever the motion, the decoded velocity differs from it by whole      *)
(* ranges, so that an aliased or late reading is made good by a later one  *)
(* and the position the host sees cannot drift by a fraction of a range.   *)
NoDriftWithinRange ==
  (decoded.motion - decoded.velocity) % PotRange = 0
=============================================================================
