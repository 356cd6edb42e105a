-------------------------- MODULE PotDecoder_proofs --------------------------
(***************************************************************************)
(* The decoder is right for every width of its integers, every set of      *)
(* places and every position of the edges in the cycle.                    *)
(***************************************************************************)
EXTENDS PotDecoder, PotArithmetic_proofs

(* The reading that is held is that of the present place; the rest is what *)
(* the last step decoded.                                                  *)
IInv ==
  /\ place \in Places
  /\ potValue = PotValueOf(EdgeTime(place))
  /\ decoded.velocity \in Int /\ decoded.motion \in Int
  /\ SmallMotionDecoded
  /\ NoDriftWithinRange

LEMMA Invariance == Spec => []IInv
<1> USE WidthAssumption, DecoderAssumption, Halves
<1>1. Init => IInv
  <2> SUFFICES ASSUME Init PROVE IInv
    OBVIOUS
  <2>1. (0 - 0) % PotRange = 0
    BY RemainderUnique
  <2> QED
    BY <2>1 DEF Init, IInv, IsDisplacement, SmallMotionDecoded, NoDriftWithinRange
<1>2. IInv /\ [Next]_vars => IInv'
  <2> SUFFICES ASSUME IInv, [Next]_vars PROVE IInv'
    OBVIOUS
  <2>1. ASSUME NEW p \in Places, Read(p)
        PROVE  IInv'
    <3> DEFINE c == TimestampAdjust + Offset
               v == PotValueToVelocity(PotValueOf(c + (place % PotRange)),
                                       PotValueOf(c + (p % PotRange)))
    <3>1. c \in Int /\ p \in Int /\ place \in Int
      BY DEF IInv
    <3> HIDE DEF c
    <3>2. /\ v \in Int
          /\ ((p - place) - v) % PotRange = 0
          /\ -Half <= p - place /\ p - place < Half => v = p - place
      BY <3>1, MotionDecoded
    <3>3. place' = p /\ potValue' = PotValueOf(EdgeTime(p))
      BY <2>1 DEF Read
    <3>4. decoded' = [velocity |-> v, motion |-> p - place]
      BY <2>1 DEF Read, IInv, EdgeTime, c
    <3> HIDE DEF v
    <3> QED
      BY <3>1, <3>2, <3>3, <3>4
         DEF IInv, SmallMotionDecoded, NoDriftWithinRange
  <2>2. CASE UNCHANGED vars
    BY <2>2 DEF vars, IInv, SmallMotionDecoded, NoDriftWithinRange, EdgeTime
  <2> QED
    BY <2>1, <2>2 DEF Next
<1> QED
  BY <1>1, <1>2, PTL DEF Spec

(* Less than half a range of motion between two readings is decoded to the *)
(* tick: potValueToVelocity, across every wrap.                            *)
THEOREM SmallMotionIsExact == Spec => []SmallMotionDecoded
<1>1. IInv => SmallMotionDecoded
  BY DEF IInv
<1> QED
  BY <1>1, Invariance, PTL

(* Any motion is decoded up to whole ranges. *)
THEOREM DecodingNeverDrifts == Spec => []NoDriftWithinRange
<1>1. IInv => NoDriftWithinRange
  BY DEF IInv
<1> QED
  BY <1>1, Invariance, PTL
=============================================================================
