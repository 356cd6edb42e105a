-------------------------- MODULE MC_VirtualSerial --------------------------
(* VirtualSerial with the numbers of the program. *)
EXTENDS VirtualSerial
=============================================================================
