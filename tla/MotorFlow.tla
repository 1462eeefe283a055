----------------------------- MODULE MotorFlow -----------------------------
(***************************************************************************)
(* Ros2MotorNode (motor_daniel_pdo.py): the node that turns /cmd_vel into  *)
(* speed commands for two CAN drives, and takes them out of operation when *)
(* it has no permission (/allowed_master_on) or the robot mode is not 2.   *)
(*                                                                         *)
(* Callbacks and timers share one mutually exclusive callback group, so    *)
(* each is one action.  flow_state_machine does one step of its state per  *)
(* tick.  Commands are not answered: a frame may be lost by any drive, and *)
(* what is read may be old, because the socket queues frames.  Once the    *)
(* bus is healthy nothing is lost, what is read is current and no drive    *)
(* fails any more; nothing in the node can tell.  What happened to the     *)
(* drives before stays with them.                                          *)
(***************************************************************************)
EXTENDS Naturals

CONSTANTS
  Drives,   (* the right and the left one                                   *)
  Modes     (* values of RobotMode.robot_mode; 2 is the one to drive in     *)

ASSUME ModesAssumption == 2 \in Modes /\ Modes \subseteq Nat

VARIABLES
  starting, last_btn_state, robot_mode, current_state,
  v,                          (* v_left or v_right is not zero              *)
  is_heartbeat, last_pulse,
  cia,        (* the state of each drive (CiA 402)                          *)
  op, moving, (* the drives that are operational in CANopen, and those that *)
              (* have a target speed that is not zero                       *)
  alive,    (* the node runs                                                *)
  healthy,  (* the bus loses nothing any more                               *)
  atRest,   (* history: no speed was asked for since an emergency that all  *)
            (* drives heard of                                              *)
  late      (* history: speeds (up to 2) sent since the mode is not 2       *)

permission == <<starting, last_btn_state>>
pulse      == <<is_heartbeat, last_pulse>>
drives     == <<cia, op, moving>>
bus        == <<alive, healthy>>
vars == <<permission, robot_mode, current_state, v, pulse, drives, bus, atRest, late>>

States == {"init", "alarm_check", "auto_mode_check", "robot_mode_check",
           "enable_check", "spinning", "cal_odom", "emergency_state",
           "recovery_state"}

(* The drives' side, CiA 402: a drive that comes from a fault or from being *)
(* without power is disabled and takes no word but Shutdown; Switchon takes *)
(* an enabled drive back to switched on, and the word that resets a fault   *)
(* disables a drive that has none.                                          *)
DriveStates == {"fault", "disabled", "ready", "switched on", "enabled"}

After(word, s) ==
  CASE word = "Reset" -> "disabled"
    [] word = "Shutdown" /\ s # "fault" -> "ready"
    [] word = "Switchon" /\ s \in {"ready", "enabled"} -> "switched on"
    [] word = "Enable Operation" /\ s = "switched on" -> "enabled"
    [] OTHER -> s

on         == {d \in Drives : cia[d] = "enabled"}
Faulty     == {d \in Drives : cia[d] = "fault"}
SwitchedOn == {d \in Drives : cia[d] \in {"switched on", "enabled"}}

(* Who hears a frame that is sent to the drives of S.                       *)
Hearers(S) == IF healthy THEN {S} ELSE SUBSET S

(* The states a drive may be in after a word, from one of S.                *)
Hears(word, S) == {After(word, s) : s \in S} \cup (IF healthy THEN {} ELSE S)

Enabling ==
  /\ cia' \in [Drives -> DriveStates]
  /\ \A d \in Drives : cia'[d] \in Hears("Enable Operation", Hears("Switchon", {cia[d]}))

Shutdown ==
  /\ cia' \in [Drives -> DriveStates]
  /\ \A d \in Drives : cia'[d] \in Hears("Shutdown", {cia[d]})

motor_init ==
  /\ cia' \in [Drives -> DriveStates]
  /\ \A d \in Drives :
       cia'[d] \in Hears("Enable Operation", Hears("Switchon", Hears("Shutdown", {cia[d]})))

reset_fault(faults) ==
  /\ cia' \in [Drives -> DriveStates]
  /\ \A d \in Drives : cia'[d] \in IF d \in faults
                                   THEN Hears("Shutdown", Hears("Reset", {cia[d]}))
                                   ELSE {cia[d]}

(* The constructor has run, with its send_start_msg, which enables the      *)
(* drives that hear it before there is any permission.                      *)
Init ==
  /\ starting = TRUE /\ last_btn_state = TRUE
  /\ robot_mode = 2
  /\ current_state = "alarm_check"
  /\ v = FALSE
  /\ is_heartbeat = FALSE /\ last_pulse = FALSE
  /\ cia \in [Drives -> DriveStates] /\ op \in SUBSET Drives /\ moving = {}
  /\ alive = TRUE /\ healthy = FALSE
  /\ atRest = FALSE /\ late = 0

-----------------------------------------------------------------------------
(* Subscriptions.                                                           *)

cmd_callback ==
  /\ alive
  /\ v' \in BOOLEAN
  /\ atRest' = (atRest /\ ~v')
  /\ UNCHANGED <<permission, robot_mode, current_state, pulse, drives, bus, late>>

mode_callback ==
  /\ alive
  /\ robot_mode' \in Modes
  /\ late' = IF robot_mode' = 2 THEN 0 ELSE late
  /\ UNCHANGED <<permission, current_state, v, pulse, drives, bus, atRest>>

(* Mutant: an emergency while the drives are started again is ignored.      *)
MutMasteron ==
  /\ alive
  /\ \E data \in BOOLEAN :
       IF starting
       THEN starting' = ~data /\ UNCHANGED <<last_btn_state, current_state>>
       ELSE /\ current_state' = IF data = last_btn_state THEN current_state
                                ELSE IF data THEN "recovery_state"
                                ELSE IF current_state = "init" THEN current_state
                                ELSE "emergency_state"
            /\ last_btn_state' = data
            /\ UNCHANGED starting
  /\ UNCHANGED <<robot_mode, v, pulse, drives, bus, atRest, late>>

masteron_callback ==
  /\ alive
  /\ \E data \in BOOLEAN :
       IF starting
       THEN starting' = ~data /\ UNCHANGED <<last_btn_state, current_state>>
       ELSE /\ current_state' = IF data = last_btn_state THEN current_state
                                ELSE IF data THEN "recovery_state"
                                ELSE "emergency_state"
            /\ last_btn_state' = data
            /\ UNCHANGED starting
  /\ UNCHANGED <<robot_mode, v, pulse, drives, bus, atRest, late>>

-----------------------------------------------------------------------------
(* The steps of the flow, one per tick.                                     *)

send_start_msg ==
  /\ current_state = "init"
  /\ \E Woken \in Hearers(Drives) : op' = op \cup Woken
  /\ motor_init
  /\ current_state' = "alarm_check"
  /\ UNCHANGED <<v, moving, atRest, late>>

(* Mutant: the check as it was before its new version (415-427), which does *)
(* not look for faults.                                                     *)
MutMotorAlarm ==
  /\ current_state = "alarm_check"
  /\ \/ (healthy => op # Drives) /\ UNCHANGED current_state
     \/ (healthy => op = Drives) /\ current_state' = "auto_mode_check"
  /\ UNCHANGED <<v, drives, atRest, late>>

(* Without the answer of each drive the state stays.  A send that fails     *)
(* leaves the rest out, and the state too.                                  *)
motor_alarm_check ==
  /\ current_state = "alarm_check"
  /\ \/ /\ healthy => op # Drives
        /\ UNCHANGED <<current_state, cia>>
     \/ \E faults \in SUBSET Drives :
          /\ healthy => op = Drives /\ faults = Faulty
          /\ reset_fault(faults)
          /\ \/ current_state' = IF faults = {} THEN "auto_mode_check" ELSE "init"
             \/ ~healthy /\ UNCHANGED current_state
  /\ UNCHANGED <<v, op, moving, atRest, late>>

(* Mutant: a misspelt state, which the chain of comparisons ignores.        *)
MutAutoMode ==
  /\ current_state = "auto_mode_check"
  /\ current_state' = "robot_mode_chk"
  /\ UNCHANGED <<v, drives, atRest, late>>

auto_mode_check ==
  /\ current_state = "auto_mode_check"
  /\ current_state' = "robot_mode_check"
  /\ UNCHANGED <<v, drives, atRest, late>>

check_robot_mode ==
  /\ current_state = "robot_mode_check"
  /\ IF robot_mode = 2
     THEN current_state' = "enable_check" /\ UNCHANGED cia
     ELSE current_state' = "cal_odom" /\ Shutdown
  /\ UNCHANGED <<v, op, moving, atRest, late>>

(* What is looked at is bit 1, that each drive is switched on.              *)
check_motor_enable ==
  /\ current_state = "enable_check"
  /\ \/ /\ healthy => op # Drives
        /\ UNCHANGED <<current_state, cia>>
     \/ /\ healthy => op = Drives /\ SwitchedOn # Drives
        /\ Enabling
        /\ UNCHANGED current_state
     \/ /\ healthy => op = Drives /\ SwitchedOn = Drives
        /\ current_state' = "spinning"
        /\ UNCHANGED cia
  /\ UNCHANGED <<v, op, moving, atRest, late>>

spin_motor ==
  /\ current_state = "spinning"
  /\ \E H \in Hearers(Drives) : moving' = IF v THEN moving \cup H ELSE moving \ H
  /\ late' = IF robot_mode = 2 THEN 0 ELSE IF late = 0 THEN 1 ELSE 2
  /\ current_state' = "cal_odom"
  /\ UNCHANGED <<v, cia, op, atRest>>

(* Mutant: after the odometry only the drives are checked again.            *)
MutCalOdom ==
  /\ current_state = "cal_odom"
  /\ current_state' = "enable_check"
  /\ UNCHANGED <<v, drives, atRest, late>>

cal_odom ==
  /\ current_state = "cal_odom"
  /\ current_state' = "alarm_check"
  /\ UNCHANGED <<v, drives, atRest, late>>

(* Speed zero is sent; atRest if all drives hear it.                        *)
Stopping ==
  \E Stopped \in Hearers(Drives) : /\ moving' = moving \ Stopped
                                   /\ atRest' = (atRest \/ Stopped = Drives)

(* Mutant: the wheels keep the speed they were last asked for.              *)
MutEmergencyPress ==
  /\ current_state = "emergency_state"
  /\ Shutdown /\ Stopping
  /\ UNCHANGED <<v, op, current_state, late>>

(* Mutant: the flow goes on as it does after disable_motor.                 *)
MutEmergencyOnce ==
  /\ current_state = "emergency_state"
  /\ Shutdown /\ Stopping
  /\ v' = FALSE
  /\ current_state' = "cal_odom"
  /\ UNCHANGED <<op, late>>

emergency_press ==
  /\ current_state = "emergency_state"
  /\ Shutdown /\ Stopping
  /\ v' = FALSE
  /\ UNCHANGED <<op, current_state, late>>

emergency_release ==
  /\ current_state = "recovery_state"
  /\ Enabling
  /\ current_state' = "alarm_check"
  /\ UNCHANGED <<v, op, moving, atRest, late>>

Step ==
  \/ send_start_msg \/ motor_alarm_check \/ auto_mode_check \/ check_robot_mode
  \/ check_motor_enable \/ spin_motor \/ cal_odom
  \/ emergency_press \/ emergency_release

(* A heartbeat is read first, of whichever drive; none within a second      *)
(* leaves is_heartbeat as it is.                                            *)
Beats == IF healthy THEN {(d \in op) : d \in Drives} ELSE BOOLEAN

flow_state_machine ==
  /\ alive
  /\ is_heartbeat' \in Beats
  /\ IF ~starting /\ is_heartbeat' THEN Step
     ELSE UNCHANGED <<current_state, v, drives, atRest, late>>
  /\ UNCHANGED <<permission, robot_mode, last_pulse, bus>>

(* Mutant: the drives are not started again.                                *)
MutCheckHeartbeat ==
  /\ alive
  /\ last_pulse' = is_heartbeat
  /\ UNCHANGED <<permission, robot_mode, current_state, v, is_heartbeat, drives,
                 bus, atRest, late>>

(* The drives are started once for each time the heartbeat is found gone.   *)
check_heartbeat ==
  /\ alive
  /\ last_pulse' = is_heartbeat
  /\ IF last_pulse /\ ~is_heartbeat
     THEN \E Woken \in Hearers(Drives) : op' = op \cup Woken
     ELSE UNCHANGED op
  /\ UNCHANGED <<permission, robot_mode, current_state, v, is_heartbeat, cia,
                 moving, bus, atRest, late>>

(* The node ends: on an interrupt it tells the drives to stop, if it is a   *)
(* send that failed that fails too.                                         *)
main_ends ==
  /\ alive /\ ~healthy
  /\ alive' = FALSE
  /\ \E H \in SUBSET Drives : moving' = moving \ H
  /\ UNCHANGED <<permission, robot_mode, current_state, v, pulse, cia, op, healthy,
                 atRest, late>>

-----------------------------------------------------------------------------
(* The environment: a drive trips, or loses its power for a moment; the bus *)
(* becomes healthy.                                                         *)
Trip(d) ==
  /\ ~healthy
  /\ cia' = [cia EXCEPT ![d] = "fault"]
  /\ UNCHANGED <<permission, robot_mode, current_state, v, pulse, op, moving, bus,
                 atRest, late>>

Reboot(d) ==
  /\ ~healthy
  /\ cia' = [cia EXCEPT ![d] = "disabled"]
  /\ op' = op \ {d} /\ moving' = moving \ {d}
  /\ UNCHANGED <<permission, robot_mode, current_state, v, pulse, bus, atRest, late>>

BecomesHealthy ==
  /\ alive /\ healthy' = TRUE
  /\ UNCHANGED <<permission, robot_mode, current_state, v, pulse, drives, alive,
                 atRest, late>>

Next ==
  \/ cmd_callback \/ mode_callback \/ masteron_callback
  \/ flow_state_machine \/ check_heartbeat
  \/ main_ends
  \/ (\E d \in Drives : Trip(d) \/ Reboot(d)) \/ BecomesHealthy

Spec == Init /\ [][Next]_vars

(* Timers fire, and sample what they look at now and then.                  *)
FairSpec ==
  /\ Spec
  /\ WF_vars(flow_state_machine)
  /\ SF_vars(check_heartbeat /\ last_pulse /\ ~is_heartbeat)
  /\ SF_vars(check_heartbeat /\ ~last_pulse /\ is_heartbeat)

-----------------------------------------------------------------------------
(* Properties.                                                              *)

(* The type of every variable.                                              *)
TypeOK ==
  /\ starting \in BOOLEAN /\ last_btn_state \in BOOLEAN
  /\ robot_mode \in Modes
  /\ current_state \in States
  /\ v \in BOOLEAN /\ is_heartbeat \in BOOLEAN /\ last_pulse \in BOOLEAN
  /\ cia \in [Drives -> DriveStates]
  /\ op \in SUBSET Drives /\ moving \in SUBSET Drives
  /\ alive \in BOOLEAN /\ healthy \in BOOLEAN
  /\ atRest \in BOOLEAN /\ late \in 0 .. 2

(* The last permission handled.                                             *)
Permitted == ~starting /\ last_btn_state

(* After the constructor, which enables the drives unasked: as long as no   *)
(* permission was given, and from when it is taken away, no step enables a  *)
(* drive or gives it a speed, whatever the flow was doing.                  *)
OnlyWithPermission ==
  [][~Permitted => on' \subseteq on /\ moving' \subseteq moving]_vars

(* After an emergency that the drives heard of, no drive is given a speed   *)
(* that was asked for before it.                                            *)
RestsAfterEmergency ==
  atRest => ~v /\ moving = {}

(* When the mode stops being 2, at most one more speed goes out.            *)
ModeLatency == late <= 1

(* The drives answer and are read.                                          *)
BusWorks == <>healthy /\ []<>is_heartbeat

(* A permission that stays away in the end has all drives shut down with    *)
(* speed zero, for ever, however many frames were lost before.              *)
EmergencyStops ==
  BusWorks /\ <>[](~starting /\ ~last_btn_state)
    => <>[](on = {} /\ moving = {})

(* No drive is without Shutdown since it was disabled, or left switched on, *)
(* and the look for faults is yet to come; an emergency leads here.         *)
Recoverable ==
  /\ healthy
  /\ \A d \in Drives : cia[d] \in {"fault", "ready", "enabled"}
  /\ current_state \notin {"auto_mode_check", "robot_mode_check", "enable_check"}

(* A drive that is not operational says so.                                 *)
AbsenceShows == []<>(op = Drives \/ ~is_heartbeat)

(* From there on, permission and mode 2 have all drives enabled and sent    *)
(* speeds again and again in the end, whichever of them had tripped or lost *)
(* its power.  (Elsewhere a drive may be left behind: check_motor_enable    *)
(* takes switched on for enabled, and has the same two words for a drive in *)
(* fault or disabled, which takes neither.)                                 *)
DrivesAgain ==
  BusWorks /\ AbsenceShows /\ <>Recoverable /\ <>[](Permitted /\ robot_mode = 2)
    => <>[](on = Drives) /\ []<>(current_state = "spinning")

=============================================================================
