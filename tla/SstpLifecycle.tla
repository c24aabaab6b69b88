--------------------------- MODULE SstpLifecycle ---------------------------
(***************************************************************************)
(* What one SSTP call promises the rest of the server: it opens once,      *)
(* negotiates for a bounded time, may become established, and once it is   *)
(* closing it never carries the tunnel again and does close.               *)
(***************************************************************************)
VARIABLE phase

Phase == {"Opening", "Negotiating", "Established", "Closing", "Closed"}

Init == phase = "Opening"

Accept      == phase = "Opening" /\ phase' = "Negotiating"
Establish   == phase = "Negotiating" /\ phase' = "Established"
BeginClose  == phase \in {"Negotiating", "Established"} /\ phase' = "Closing"
Close       == phase \in {"Negotiating", "Established", "Closing"} /\ phase' = "Closed"

Next == Accept \/ Establish \/ BeginClose \/ Close

LeaveNegotiation == phase = "Negotiating" /\ (Establish \/ BeginClose \/ Close)
FinishClosing == phase = "Closing" /\ Close

Safety == Init /\ [][Next]_phase

Spec == Safety /\ WF_phase(Accept) /\ WF_phase(LeaveNegotiation) /\ WF_phase(FinishClosing)
=============================================================================
