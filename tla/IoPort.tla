------------------------------- MODULE IoPort -------------------------------
(***************************************************************************)
(* What the IO node promises to the nodes that listen to it, whatever it   *)
(* is commanded: it polls, sets the relays and reports, in this order, and *)
(* closes the relays only on inputs that allow it.                         *)
(***************************************************************************)
EXTENDS IoTopics

VARIABLES
  ioPc,      (* "idle", "write", "report", "failed", "down"                 *)
  seen,      (* the inputs last polled                                      *)
  coils,     (* the relays RY1 and RY2 are closed                           *)
  missed     (* a frame to the relays was once lost on the bus              *)

port == <<ioPc, seen, coils, missed>>

Init ==
  /\ emergency_io = <<>> /\ status_io = <<>>
  /\ ioPc = "idle"
  /\ seen = [ok |-> TRUE, charge |-> FALSE]
  /\ coils = FALSE
  /\ missed = FALSE

Poll ==
  /\ ioPc = "idle"
  /\ seen' \in Seen
  /\ emergency_io' = Published(emergency_io, seen'.ok)
  /\ ioPc' = "write"
  /\ UNCHANGED <<status_io, coils, missed>>

(* A frame arrives, or is lost and leaves the relays as they are.           *)
Write ==
  /\ ioPc = "write"
  /\ \/ coils' \in BOOLEAN /\ (coils' => Safe(seen)) /\ UNCHANGED missed
     \/ missed' = TRUE /\ UNCHANGED coils
  /\ ioPc' = "report"
  /\ UNCHANGED <<topics, seen>>

Report ==
  /\ ioPc = "report"
  /\ status_io' = Published(status_io, [charge |-> seen.charge, relays |-> coils])
  /\ ioPc' = "idle"
  /\ UNCHANGED <<emergency_io, seen, coils, missed>>

(* A node that loses the bus tries to open the relays and ends.             *)
Fail ==
  /\ ioPc \in {"idle", "write", "report"}
  /\ ioPc' = "failed"
  /\ UNCHANGED <<topics, seen, coils, missed>>

End ==
  /\ ioPc = "failed"
  /\ \/ coils' = FALSE /\ UNCHANGED missed
     \/ missed' = TRUE /\ UNCHANGED coils
  /\ ioPc' = "down"
  /\ UNCHANGED <<topics, seen>>

Next == Poll \/ Write \/ Report \/ Fail \/ End

Spec == Init /\ [][Next]_<<topics, port>>

=============================================================================
