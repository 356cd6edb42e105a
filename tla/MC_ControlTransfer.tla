------------------------- MODULE MC_ControlTransfer -------------------------
(* Requests of every kind on an endpoint of three bytes. *)
EXTENDS ControlTransfer

R(kind, size, asked) == [kind |-> kind, id |-> 0, size |-> size, asked |-> asked]

Report(size, asked) == [R("read", size, asked) EXCEPT !.id = 1]

AllRequests ==
  {R("read", size, asked) : size \in {1, 3, 6}, asked \in {2, 3, 7}}
    \cup {Report(size, asked) : size \in {2, 3}, asked \in {2, 3, 7}}
    \cup {R("value", 1, 1), R("value", 1, 4), R("value", 2, 1)}
    \cup {R("command", 0, 0), R("address", 0, 0), R("unknown", 0, 2), R("block", 0, 2)}
    \cup {R("write", 0, asked) : asked \in {0, 2, 3, 7}}
=============================================================================
