-------------------------- MODULE MC_EndpointMemory --------------------------
(* The endpoints of the debug build, with sizes in units of 8 bytes, and   *)
(* one endpoint more that nothing uses.                                    *)
EXTENDS EndpointMemory, FiniteSetsExt

MCSize == [k \in Endpoint |-> IF k \in {3, 4} THEN 2 ELSE 1]

MCInterfaces == << <<1>>, <<3, 4, 2>> >>

(* The endpoints have a layout when the memory holds their banks. *)
ASSUME LayoutsAreSums ==
  \A m \in Memories : m < 9 =>
    ((\E top \in [Used -> 0 .. m] : Layout(top, m))
       <=> MapThenSumSet(LAMBDA k : Size[k], Used) <= m)
=============================================================================
