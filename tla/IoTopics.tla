------------------------------ MODULE IoTopics ------------------------------
(***************************************************************************)
(* The topics from the IO node to the mode node: queues that keep the last *)
(* QueueDepth messages (10 in the code), in order.                         *)
(***************************************************************************)
EXTENDS Sequences, Naturals

CONSTANT QueueDepth

ASSUME QueueDepthAssumption == QueueDepth \in Nat \ {0}

VARIABLES
  emergency_io,   (* of Bool: the emergency loop is closed                  *)
  status_io       (* of SeerRobotIOStatus: the charge input and the relays  *)

topics == <<emergency_io, status_io>>

(* What a poll of the digital inputs tells: the emergency loop is closed    *)
(* (DI1), a charger is there (DI4).                                         *)
Seen == [ok : BOOLEAN, charge : BOOLEAN]
Status == [charge : BOOLEAN, relays : BOOLEAN]

Safe(d) == d.ok /\ ~d.charge

TopicsOK == /\ emergency_io \in Seq(BOOLEAN) /\ Len(emergency_io) <= QueueDepth
            /\ status_io \in Seq(Status) /\ Len(status_io) <= QueueDepth

(* Mutant: nothing is ever dropped.                                         *)
MutPublished(q, m) == Append(q, m)

Published(q, m) ==
  IF Len(q) < QueueDepth THEN Append(q, m) ELSE Append(Tail(q), m)

=============================================================================
