----------------------------- MODULE MC_UsbMouse -----------------------------
(* UsbMouse with the requests each run lets the host make. *)
EXTENDS UsbMouse

ReadingRequests ==
  {Request("SetAddress", 0), Request("SetConfiguration", 1), Request("GetReport", 0)}
    \cup {Request("SetIdle", i) : i \in IdleValues}

AllRequests ==
  ReadingRequests
    \cup {Request("SetConfiguration", 0), Request("SetProtocol", 1),
          Request("Query", 0)}
=============================================================================
