----------------------------- MODULE RobotMode -----------------------------
(***************************************************************************)
(* ModePublisher (robot_mode.py): the node that publishes the robot's mode *)
(* and whether the drives may have power, composed with the IO node it     *)
(* listens to, which is present as the abstract IoPort (DeviceIO is shown  *)
(* to implement it).                                                       *)
(*                                                                         *)
(* A timer runs a cycle of steps; the three of them that do something are  *)
(* the actions CheckEmerCharge, CheckButton and Control, and a callback or *)
(* a service may come between any two.  One executor thread runs them all: *)
(* a step that waits for an answer in spin_until_future_complete runs no   *)
(* other.  No node of the repository offers io_service or                  *)
(* action_controller, so such a wait does not end.                         *)
(*                                                                         *)
(* io_status_cb gives isMCUEmergency_charge, isMCUMaster_on and            *)
(* isMasterOnSys one value; they are isMasterOnSys here.  Attributes that  *)
(* nothing reads, and those that keep their first value, are left out.     *)
(***************************************************************************)
EXTENDS IoTopics

CONSTANTS
  ReadyValues,   (* values of /diagnostics_system_ready                     *)
  Requests       (* what the services are asked for                         *)

ASSUME ReadyValuesAssumption == ReadyValues \subseteq 0 .. 3
ASSUME RequestsAssumption ==
  Requests \subseteq {"pause", "normal", "emergencyCase", "docking", "stop"}

VARIABLES
  ioPc, seen, coils, missed,   (* the IO node, see IoPort                   *)
  modePc,           (* "spinning", "waitIo", "waitAction", "crashed"        *)
  sequence,         (* the next step of the cycle                           *)
  isSystemReady, isSystemReady_comeup,
  isMCUEmergency, isMasterOnSys, isMCUMaster_on_done,
  isEmergency_state, isEmerCharge_state, isEmergency_case_active, isPause,
  current_mode,
  mode_msg, allowed_master_on,   (* as last published                       *)
  late              (* history: publications (up to 2) since the node knows *)
                    (* of an emergency that did not show it                 *)

portVars    == <<ioPc, seen, coils, missed>>
readyVars   == <<isSystemReady, isSystemReady_comeup>>
ioFlags     == <<isMCUEmergency, isMasterOnSys, isMCUMaster_on_done>>
stateFlags  == <<isEmergency_state, isEmerCharge_state>>
requestVars == <<isEmergency_case_active, isPause, current_mode>>
published   == <<mode_msg, allowed_master_on, late>>
vars == <<topics, portVars, modePc, sequence, readyVars, ioFlags, stateFlags,
          requestVars, published>>

Port == INSTANCE IoPort

EmergencyModes == {"EMERGENCY", "EMERGENCY_CHARGE", "ERROR_DEVICE"}
Modes == EmergencyModes \cup {"NONE", "IDLE", "START_MOTOR", "READY_TO_START",
                              "DOCKING_MODE_ON", "EMERGENCY_CASE_ACTIVE", "PAUSE"}

Init ==
  /\ Port!Init
  /\ modePc = "spinning"
  /\ sequence = "emerCharge"
  /\ isSystemReady = 0 /\ isSystemReady_comeup = FALSE
  /\ isMCUEmergency = FALSE
  /\ isMasterOnSys = FALSE /\ isMCUMaster_on_done = FALSE
  /\ isEmergency_state = FALSE /\ isEmerCharge_state = FALSE
  /\ isEmergency_case_active = FALSE /\ isPause = FALSE
  /\ current_mode = "IDLE"
  /\ mode_msg = "NONE" /\ allowed_master_on = FALSE /\ late = 0

-----------------------------------------------------------------------------
(* Callbacks.                                                               *)

Spinning == modePc = "spinning"

emergency_callback ==
  /\ Spinning
  /\ emergency_io # <<>>
  /\ isMCUEmergency' = ~Head(emergency_io)
  /\ late' = IF isMCUEmergency' THEN late ELSE 0
  /\ emergency_io' = Tail(emergency_io)
  /\ UNCHANGED <<status_io, portVars, modePc, sequence, readyVars, isMasterOnSys,
                 isMCUMaster_on_done, stateFlags, requestVars, mode_msg,
                 allowed_master_on>>

(* Mutant: relays once closed stay closed.                                  *)
MutIoStatus ==
  /\ Spinning
  /\ status_io # <<>>
  /\ isMasterOnSys' = Head(status_io).charge
  /\ isMCUMaster_on_done' = (isMCUMaster_on_done \/ Head(status_io).relays)
  /\ status_io' = Tail(status_io)
  /\ UNCHANGED <<emergency_io, portVars, modePc, sequence, readyVars,
                 isMCUEmergency, stateFlags, requestVars, published>>

io_status_cb ==
  /\ Spinning
  /\ status_io # <<>>
  /\ isMasterOnSys' = Head(status_io).charge
  /\ isMCUMaster_on_done' = Head(status_io).relays
  /\ status_io' = Tail(status_io)
  /\ UNCHANGED <<emergency_io, portVars, modePc, sequence, readyVars,
                 isMCUEmergency, stateFlags, requestVars, published>>

system_ready ==
  /\ Spinning
  /\ isSystemReady' \in ReadyValues
  /\ isSystemReady_comeup' = TRUE
  /\ UNCHANGED <<topics, portVars, modePc, sequence, ioFlags, stateFlags,
                 requestVars, published>>

-----------------------------------------------------------------------------
(* Services: pause_mode, docking_mode and set_mode.  Resuming with its      *)
(* default parameter sets isPause like pausing does.                        *)

Pause ==
  /\ Spinning /\ "pause" \in Requests
  /\ isPause' \in BOOLEAN
  /\ UNCHANGED <<isEmergency_case_active, current_mode, modePc>>

NormalMode ==
  /\ Spinning /\ "normal" \in Requests
  /\ isPause' = FALSE
  /\ isEmergency_case_active' = FALSE
  /\ UNCHANGED <<current_mode, modePc>>

EmergencyCase ==
  /\ Spinning /\ "emergencyCase" \in Requests
  /\ isPause' = FALSE
  /\ isEmergency_case_active' = TRUE
  /\ UNCHANGED <<current_mode, modePc>>

Docking ==
  /\ Spinning /\ "docking" \in Requests
  /\ isMCUMaster_on_done /\ allowed_master_on
  /\ current_mode' = "DOCKING_MODE_ON"
  /\ UNCHANGED <<isEmergency_case_active, isPause, modePc>>

StopMovement ==
  /\ Spinning /\ "stop" \in Requests
  /\ modePc' = "waitAction"
  /\ UNCHANGED requestVars

Request ==
  /\ Pause \/ NormalMode \/ EmergencyCase \/ Docking \/ StopMovement
  /\ UNCHANGED <<topics, portVars, sequence, readyVars, ioFlags, stateFlags,
                 published>>

-----------------------------------------------------------------------------
(* The cycle.                                                               *)

(* circuit_reset is called with the relays closed.                          *)
CallsIo == isMCUMaster_on_done /\ isMasterOnSys

CheckEmerCharge ==
  /\ Spinning /\ sequence = "emerCharge"
  /\ isEmerCharge_state' = isMasterOnSys
  /\ IF CallsIo THEN modePc' = "waitIo" /\ UNCHANGED sequence
     ELSE sequence' = "button" /\ UNCHANGED modePc
  /\ UNCHANGED <<topics, portVars, readyVars, ioFlags, isEmergency_state,
                 requestVars, published>>

(* check_button with the emergency button pressed.                          *)
ButtonPressed ==
  /\ isSystemReady_comeup /\ isMCUEmergency
  /\ isEmergency_state' = TRUE
  /\ isEmergency_case_active' = FALSE
  /\ current_mode' = "EMERGENCY"

(* Mutant: the emergency is a mode like the others.                         *)
MutCheckButton ==
  /\ Spinning /\ sequence = "button"
  /\ current_mode' = IF isSystemReady_comeup /\ isMCUEmergency THEN "EMERGENCY"
                     ELSE IF isMCUMaster_on_done THEN "START_MOTOR"
                     ELSE IF isSystemReady = 0 /\ isMasterOnSys
                     THEN "READY_TO_START" ELSE "IDLE"
  /\ sequence' = "control"
  /\ UNCHANGED <<topics, portVars, modePc, readyVars, ioFlags, stateFlags,
                 isEmergency_case_active, isPause, published>>

(* Mutant: the emergency is over only when the charger has gone.            *)
MutButtonReleased ==
  /\ isSystemReady_comeup /\ ~isMCUEmergency
  /\ isEmergency_state' = (isEmergency_state /\ isMCUMaster_on_done)
  /\ current_mode' = IF isMCUMaster_on_done THEN "START_MOTOR"
                     ELSE IF isSystemReady = 0 /\ isMasterOnSys
                     THEN "READY_TO_START" ELSE "IDLE"
  /\ UNCHANGED isEmergency_case_active

ButtonReleased ==
  /\ isSystemReady_comeup /\ ~isMCUEmergency
  /\ isEmergency_state' = (isEmergency_state /\ isMasterOnSys /\ isMCUMaster_on_done)
  /\ current_mode' = IF isMCUMaster_on_done THEN "START_MOTOR"
                     ELSE IF isSystemReady = 0 /\ isMasterOnSys
                     THEN "READY_TO_START" ELSE "IDLE"
  /\ UNCHANGED isEmergency_case_active

CheckButton ==
  /\ Spinning /\ sequence = "button"
  /\ \/ ButtonPressed
     \/ ButtonReleased
     \/ ~isSystemReady_comeup
        /\ UNCHANGED <<isEmergency_state, isEmergency_case_active, current_mode>>
  /\ sequence' = "control"
  /\ UNCHANGED <<topics, portVars, modePc, readyVars, ioFlags, isEmerCharge_state,
                 isPause, published>>

(* Mutant: a pause is looked at before the emergency.                       *)
MutDecidedMode ==
  CASE isSystemReady = 3 -> mode_msg
    [] isSystemReady \in {1, 2} -> "ERROR_DEVICE"
    [] OTHER -> IF isEmerCharge_state THEN "EMERGENCY_CHARGE"
                ELSE IF isPause THEN "PAUSE"
                ELSE IF isEmergency_state THEN "EMERGENCY"
                ELSE IF isEmergency_case_active THEN "EMERGENCY_CASE_ACTIVE"
                ELSE current_mode

(* The mode mode_manager decides on, in its order of priorities.            *)
DecidedMode ==
  CASE isSystemReady = 3 -> mode_msg
    [] isSystemReady \in {1, 2} -> "ERROR_DEVICE"
    [] OTHER -> IF isEmerCharge_state THEN "EMERGENCY_CHARGE"
                ELSE IF isEmergency_state THEN "EMERGENCY"
                ELSE IF isEmergency_case_active THEN "EMERGENCY_CASE_ACTIVE"
                ELSE IF isPause THEN "PAUSE"
                ELSE current_mode

(* clear_emer_state is called.                                              *)
ClearsEmerState ==
  \/ isSystemReady \in {1, 2}
  \/ isSystemReady = 0 /\ (isEmerCharge_state \/ isEmergency_state)

AllowsMasterOn ==
  \/ DecidedMode = "READY_TO_START"
  \/ isSystemReady = 0 /\ ~isEmerCharge_state /\ ~isEmergency_state
     /\ ~isEmergency_case_active /\ ~isPause

(* With the robot moving, READY_TO_START replaces the message itself by     *)
(* False; publishing the mode succeeds, publishing that does not.           *)
Publish(moving) ==
  /\ mode_msg' = DecidedMode
  /\ IF DecidedMode = "READY_TO_START" /\ moving
     THEN /\ modePc' = "crashed"
          /\ UNCHANGED <<sequence, allowed_master_on, late>>
     ELSE /\ allowed_master_on' = AllowsMasterOn
          /\ late' = IF ~isMCUEmergency \/ ~isSystemReady_comeup
                        \/ (DecidedMode \in EmergencyModes /\ ~AllowsMasterOn)
                     THEN 0 ELSE IF late = 0 THEN 1 ELSE 2
          /\ sequence' = "emerCharge"
          /\ UNCHANGED modePc

Control ==
  /\ Spinning /\ sequence = "control"
  /\ IF ClearsEmerState
     THEN isEmergency_case_active' = FALSE /\ isPause' = FALSE
     ELSE UNCHANGED <<isEmergency_case_active, isPause>>
  /\ IF ClearsEmerState /\ CallsIo
     THEN modePc' = "waitIo" /\ UNCHANGED <<sequence, published>>
     ELSE \E moving \in BOOLEAN : Publish(moving)
  /\ UNCHANGED <<topics, portVars, readyVars, ioFlags, stateFlags, current_mode>>

-----------------------------------------------------------------------------
Cycle == CheckEmerCharge \/ CheckButton \/ Control

IoStep ==
  /\ Port!Next
  /\ UNCHANGED <<modePc, sequence, readyVars, ioFlags, stateFlags, requestVars,
                 published>>

Next ==
  \/ IoStep
  \/ emergency_callback \/ io_status_cb \/ system_ready
  \/ Request
  \/ Cycle

Spec == Init /\ [][Next]_vars

(* Timers fire and messages that arrived are delivered.                     *)
FairSpec ==
  /\ Spec
  /\ WF_vars(IoStep /\ ioPc' # "failed")
  /\ WF_vars(emergency_callback) /\ WF_vars(io_status_cb)
  /\ WF_vars(Cycle)

-----------------------------------------------------------------------------
(* Properties.                                                              *)

(* The type of every variable.                                              *)
TypeOK ==
  /\ TopicsOK
  /\ ioPc \in {"idle", "write", "report", "failed", "down"}
  /\ seen \in Seen /\ coils \in BOOLEAN /\ missed \in BOOLEAN
  /\ modePc \in {"spinning", "waitIo", "waitAction", "crashed"}
  /\ sequence \in {"emerCharge", "button", "control"}
  /\ isSystemReady \in ReadyValues \cup {0}
  /\ isSystemReady_comeup \in BOOLEAN /\ isMCUEmergency \in BOOLEAN
  /\ isMasterOnSys \in BOOLEAN /\ isMCUMaster_on_done \in BOOLEAN
  /\ isEmergency_state \in BOOLEAN /\ isEmerCharge_state \in BOOLEAN
  /\ isEmergency_case_active \in BOOLEAN /\ isPause \in BOOLEAN
  /\ allowed_master_on \in BOOLEAN
  /\ current_mode \in Modes \ {"NONE"} /\ mode_msg \in Modes
  /\ late \in 0 .. 2

(* The node never calls io_service, which would hang it for ever with its   *)
(* last permission standing: circuit_reset is for a charger seen with the   *)
(* relays closed, and the IO node opens them before it reports the charger, *)
(* whatever order its messages are handled in - unless a frame was lost.    *)
NeverWaitsForIo == ~missed => modePc # "waitIo"

(* Once the node knows that the emergency loop is open, at most one         *)
(* publication still shows a mode to drive in or lets the drives have       *)
(* power: the one of a cycle already past its look at the button.           *)
EmergencyLatency == late <= 1

IoAlive == ioPc \notin {"failed", "down"}

(* An emergency that lasts is in the end what is published, for ever, and   *)
(* the drives may not have power, whatever is paused, resumed or requested  *)
(* - once diagnostics have come up, while the IO node lives and as long as  *)
(* the node hangs in no service.                                            *)
EmergencyShown ==
  /\ <>[](~seen.ok) /\ []IoAlive
  /\ []Spinning /\ <>isSystemReady_comeup
  => <>[](mode_msg \in EmergencyModes /\ ~allowed_master_on)

(* The way back: with the loop closed, no charger, the relays closed and    *)
(* nothing requested, the node in the end publishes a mode to drive in and  *)
(* lets the drives have power; no emergency of the past stays latched.      *)
RecoversAfterEmergency ==
  /\ <>[](Safe(seen) /\ coils) /\ []IoAlive
  /\ []Spinning /\ <>[](isSystemReady_comeup /\ isSystemReady = 0)
  /\ <>[](~isPause /\ ~isEmergency_case_active)
  => <>[](mode_msg \in {"START_MOTOR", "DOCKING_MODE_ON"} /\ allowed_master_on)

(* What is published on /allowed_master_on is a Bool, as its publisher is   *)
(* declared: publishing never ends the node.                                *)
ModeNodeSurvives == modePc # "crashed"

=============================================================================
