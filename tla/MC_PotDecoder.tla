---------------------------- MODULE MC_PotDecoder ----------------------------
(* PotDecoder at the widths of the program. *)
EXTENDS PotDecoder

(* Places around every boundary of the decoding: zero, the half range, the *)
(* whole range, and the same on the other side of the starting place.      *)
MCPlaces ==
  { b + d : b \in {-2048, -1024, 0, 1024, 2048, 3072}, d \in {-1, 0, 1, 517} }
=============================================================================
