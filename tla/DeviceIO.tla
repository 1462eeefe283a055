------------------------------ MODULE DeviceIO ------------------------------
(***************************************************************************)
(* DeviceNode (all_io.py): the node that polls eight digital inputs over   *)
(* Modbus, decides on the relays that power the robot, writes them, reads  *)
(* them back and publishes what it saw.  One executor thread runs its      *)
(* callbacks; data_callback is three steps, one per exchange on the bus,   *)
(* since the other nodes and the world go on in between.                   *)
(*                                                                         *)
(* status is 0x03 (TRUE: RY1 and RY2) or 0x00.  The two buttons (DI2, DI3) *)
(* are one.  check_command_rqt asks a service for a bypass; no node of the *)
(* repository offers it, and any answer is allowed for.                    *)
(***************************************************************************)
EXTENDS IoTopics

VARIABLES
  ioPc,            (* where data_callback is; "failed" and "down": it threw *)
  status, button_status,
  isSystemReady,   (* last value of /diagnostics_system_ready              *)
  seen,            (* inputs of the last poll (di_status)                   *)
  coils,           (* the relays themselves                                 *)
  missed,          (* a frame to the relays was once lost                   *)
  asked            (* history: somebody asked for power (a button, a        *)
                   (* command, a bypass) since a poll last forbade it       *)

ioVars == <<ioPc, status, button_status, isSystemReady, seen, coils, missed, asked>>
vars == <<topics, ioVars>>

(* SYSTEM_READY_STATUS_OK, NOT_USE and FAULT, the values of the diagnostics *)
(* node.                                                                    *)
Readiness == 0 .. 2
Commands == {"relay on", "relay off", "other"}

Init ==
  /\ emergency_io = <<>> /\ status_io = <<>>
  /\ ioPc = "idle"
  /\ status = FALSE /\ button_status = FALSE
  /\ isSystemReady = 1
  /\ seen = [ok |-> TRUE, charge |-> FALSE]
  /\ coils = FALSE
  /\ missed = FALSE
  /\ asked = FALSE

-----------------------------------------------------------------------------
(* data_callback.                                                           *)

(* Mutant: the charge input is not looked at.                               *)
MutAfterPoll(d, button) ==
  IF ~d.ok THEN [status |-> FALSE, button |-> FALSE]
  ELSE IF isSystemReady = 0 /\ button THEN [status |-> TRUE, button |-> TRUE]
  ELSE [status |-> status, button |-> button_status]

(* Mutant: an unsafe poll leaves the button latched.                        *)
MutAfterPollLatch(d, button) ==
  IF ~Safe(d) THEN [status |-> FALSE, button |-> button_status]
  ELSE IF isSystemReady = 0 /\ button THEN [status |-> TRUE, button |-> TRUE]
  ELSE [status |-> status, button |-> button_status]

(* The relay byte and the button latch after the inputs d were read.        *)
AfterPoll(d, button) ==
  IF ~Safe(d) THEN [status |-> FALSE, button |-> FALSE]
  ELSE IF isSystemReady = 0 /\ button THEN [status |-> TRUE, button |-> TRUE]
  ELSE [status |-> status, button |-> button_status]

sent_digital ==
  /\ ioPc = "idle"
  /\ \E d \in Seen, button \in BOOLEAN :
       LET after == AfterPoll(d, button)
       IN /\ status' = after.status
          /\ button_status' = after.button
          /\ seen' = d
          /\ asked' = (Safe(d) /\ (asked \/ (button /\ isSystemReady = 0)))
          /\ emergency_io' = Published(emergency_io, d.ok)
  /\ ioPc' = "write"
  /\ UNCHANGED <<status_io, isSystemReady, coils, missed>>

(* The answer to the frame is not looked at: a frame lost on the bus goes   *)
(* unnoticed.                                                               *)
sent_relay ==
  /\ ioPc = "write"
  /\ \/ coils' = status /\ UNCHANGED missed
     \/ missed' = TRUE /\ UNCHANGED coils
  /\ ioPc' = "report"
  /\ UNCHANGED <<topics, status, button_status, isSystemReady, seen, asked>>

(* Mutant: what is reported is what was written, not what was read back.    *)
MutReadRelay ==
  /\ ioPc = "report"
  /\ status_io' = Published(status_io, [charge |-> seen.charge, relays |-> status])
  /\ ioPc' = "idle"
  /\ UNCHANGED <<emergency_io, status, button_status, isSystemReady, seen, coils,
                 missed, asked>>

read_relay ==
  /\ ioPc = "report"
  /\ status_io' = Published(status_io, [charge |-> seen.charge, relays |-> coils])
  /\ ioPc' = "idle"
  /\ UNCHANGED <<emergency_io, status, button_status, isSystemReady, seen, coils,
                 missed, asked>>

(* A short answer is None and the bit tests on it throw; a port that is     *)
(* gone throws by itself.  The exception ends rclpy.spin.                   *)
BusFails ==
  /\ ioPc \in {"idle", "write", "report"}
  /\ ioPc' = "failed"
  /\ UNCHANGED <<topics, status, button_status, isSystemReady, seen, coils, missed,
                 asked>>

(* Mutant: the port is closed without a word to the relays.                 *)
MutDestroyNode ==
  /\ ioPc = "failed"
  /\ ioPc' = "down"
  /\ UNCHANGED <<topics, status, button_status, isSystemReady, seen, coils, missed,
                 asked>>

destroy_node ==
  /\ ioPc = "failed"
  /\ \/ coils' = FALSE /\ UNCHANGED missed
     \/ missed' = TRUE /\ UNCHANGED coils
  /\ ioPc' = "down"
  /\ UNCHANGED <<topics, status, button_status, isSystemReady, seen, asked>>

-----------------------------------------------------------------------------
(* The other callbacks, between two data_callbacks.                         *)

ready ==
  /\ ioPc = "idle"
  /\ isSystemReady' \in Readiness
  /\ UNCHANGED <<topics, ioPc, status, button_status, seen, coils, missed, asked>>

relay_status(command) ==
  /\ ioPc = "idle"
  /\ status' = (command = "relay on"
                \/ (status /\ isSystemReady # 2 /\ command # "relay off"))
  /\ asked' = (asked \/ command = "relay on")
  /\ UNCHANGED <<topics, ioPc, button_status, isSystemReady, seen, coils, missed>>

handle_service_response(bypass) ==
  /\ ioPc = "idle"
  /\ status' = (bypass \/ button_status)
  /\ asked' = (asked \/ bypass)
  /\ UNCHANGED <<topics, ioPc, button_status, isSystemReady, seen, coils, missed>>

-----------------------------------------------------------------------------
data_callback == sent_digital \/ sent_relay \/ read_relay \/ destroy_node

IoWork ==
  \/ data_callback \/ BusFails
  \/ \E command \in Commands : relay_status(command)
  \/ \E bypass \in BOOLEAN : handle_service_response(bypass)

Next == IoWork \/ ready

Spec == Init /\ [][Next]_vars

FrameArrives == sent_relay /\ coils' = status

(* The timer keeps calling data_callback although other callbacks are       *)
(* ready too, and of frames sent for ever some arrive.                      *)
FairSpec ==
  /\ Spec
  /\ SF_vars(sent_digital) /\ WF_vars(sent_relay \/ read_relay \/ destroy_node)
  /\ SF_vars(FrameArrives)

-----------------------------------------------------------------------------
(* Properties.                                                              *)

(* The type of every variable.                                              *)
TypeOK ==
  /\ TopicsOK
  /\ ioPc \in {"idle", "write", "report", "failed", "down"}
  /\ status \in BOOLEAN /\ button_status \in BOOLEAN
  /\ isSystemReady \in Readiness
  /\ seen \in Seen
  /\ coils \in BOOLEAN /\ missed \in BOOLEAN /\ asked \in BOOLEAN

(* The decision of the last poll was written (or the node has given up).    *)
Written == ioPc \in {"idle", "report", "down"}

(* Whatever was commanded between two polls, and whenever the node dies:    *)
(* once a poll's decision was written, the relays are closed only if that   *)
(* poll saw the emergency loop closed and no charger.  (A frame lost on the *)
(* bus is excepted: the code does not look at the answer.)                  *)
RelaysFollowInputs == coils /\ ~missed /\ Written => Safe(seen)

(* Power never comes back by itself: after the emergency button or the      *)
(* charger opened the relays, they close only on a button, command or       *)
(* bypass of later.                                                         *)
NoRestartUnasked == coils /\ ~missed /\ Written => asked

(* The emergency button held opens the relays: if the node dies, or as soon *)
(* as one frame arrives.                                                    *)
EmergencyOpensRelays ==
  /\ <>[](~seen.ok)
  /\ [](~missed) \/ [](ioPc \notin {"failed", "down"})
  => <>[](~coils)

Port == INSTANCE IoPort

(* To its listeners the node is the abstract port: commands, buttons and    *)
(* bypasses only ever choose among what the inputs allow.                   *)
RefinesIoPort == Port!Spec

=============================================================================
