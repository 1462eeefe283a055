--------------------------- MODULE MotorFlowProofs ---------------------------
(***************************************************************************)
(* For any drives and modes: nothing is enabled or set in motion without   *)
(* permission, no speed outlives an emergency, at most one is sent late.   *)
(***************************************************************************)
EXTENDS MotorFlow, TLAPS

USE ModesAssumption

-----------------------------------------------------------------------------
(* Without permission the flow is in the state it does not leave by itself. *)
HeldInEmergency ==
  /\ starting => last_btn_state
  /\ ~starting /\ ~last_btn_state => current_state = "emergency_state"

(* A speed sent late is the last one: the flow comes by robot_mode_check    *)
(* before the next.                                                         *)
LateIsPast ==
  /\ robot_mode = 2 => late = 0
  /\ late = 0 \/ (late = 1 /\ current_state \notin {"enable_check", "spinning"})

IInv == TypeOK /\ HeldInEmergency /\ LateIsPast /\ RestsAfterEmergency

LEMMA InitIInv == Init => IInv
<1> SUFFICES ASSUME Init PROVE IInv
  OBVIOUS
<1>1. TypeOK
  <2>1. /\ starting \in BOOLEAN /\ last_btn_state \in BOOLEAN
        /\ v \in BOOLEAN /\ is_heartbeat \in BOOLEAN /\ last_pulse \in BOOLEAN
        /\ alive \in BOOLEAN /\ healthy \in BOOLEAN /\ atRest \in BOOLEAN
    BY Zenon DEF Init
  <2>2. robot_mode \in Modes /\ current_state \in States /\ late \in 0 .. 2
    BY DEF Init, States
  <2>3. /\ cia \in [Drives -> DriveStates]
        /\ op \in SUBSET Drives /\ moving \in SUBSET Drives
    BY DEF Init
  <2> QED BY <2>1, <2>2, <2>3 DEF TypeOK
<1>2. HeldInEmergency /\ LateIsPast /\ RestsAfterEmergency
  BY DEF Init, HeldInEmergency, LateIsPast, RestsAfterEmergency
<1> QED BY <1>1, <1>2 DEF IInv

-----------------------------------------------------------------------------
(* What is sent to the drives.                                              *)

LEMMA HearersSubset ==
  ASSUME NEW H \in Hearers(Drives) PROVE H \subseteq Drives
  BY DEF Hearers

LEMMA OnUnchanged ==
  ASSUME UNCHANGED cia PROVE on' = on
  BY DEF on

(* Shutdown enables no drive, heard or not.                                 *)
LEMMA ShutdownEnablesNone ==
  ASSUME Shutdown PROVE on' \subseteq on
<1> SUFFICES ASSUME NEW d \in Drives, cia'[d] = "enabled" PROVE cia[d] = "enabled"
  BY DEF on
<1>1. cia'[d] \in Hears("Shutdown", {cia[d]})
  BY DEF Shutdown
<1>2. cia'[d] = After("Shutdown", cia[d]) \/ cia'[d] = cia[d]
  BY <1>1 DEF Hears
<1> QED BY <1>2 DEF After

(* An emergency that all drives hear of leads to where DrivesAgain starts:  *)
(* Shutdown makes any drive ready that is not in fault.                     *)
LEMMA EmergencyReadies ==
  ASSUME TypeOK, healthy, emergency_press, UNCHANGED healthy
  PROVE  Recoverable'
<1>1. ASSUME NEW d \in Drives
      PROVE  cia'[d] \in {"fault", "ready", "enabled"}
  <2>1. cia'[d] = After("Shutdown", cia[d])
    BY <1>1 DEF emergency_press, Shutdown, Hears
  <2>2. cia[d] = "fault" \/ cia[d] # "fault"
    OBVIOUS
  <2> QED BY <2>1, <2>2 DEF After
<1>2. current_state' = "emergency_state"
  BY DEF emergency_press
<1> QED BY <1>1, <1>2 DEF Recoverable

LEMMA StoppingRests ==
  ASSUME TypeOK, Stopping
  PROVE  /\ moving' \in SUBSET Drives /\ moving' \subseteq moving
         /\ atRest' \in BOOLEAN
         /\ atRest' => atRest \/ moving' = {}
<1>1. PICK Stopped \in Hearers(Drives) :
        moving' = moving \ Stopped /\ atRest' = (atRest \/ Stopped = Drives)
  BY DEF Stopping
<1>2. atRest' \in BOOLEAN
  BY <1>1
<1>3. atRest' => atRest \/ Stopped = Drives
  BY <1>1
<1> QED BY <1>1, <1>2, <1>3 DEF TypeOK

-----------------------------------------------------------------------------
(* One step of the flow.                                                    *)
FlowVars == <<current_state, v, drives, atRest, late>>

LEMMA StepIInv ==
  ASSUME IInv, Step, ~starting, UNCHANGED <<permission, robot_mode>>
  PROVE  /\ current_state' \in States
         /\ v' \in BOOLEAN
         /\ cia' \in [Drives -> DriveStates]
         /\ op' \in SUBSET Drives /\ moving' \in SUBSET Drives
         /\ atRest' \in BOOLEAN /\ late' \in 0 .. 2
         /\ HeldInEmergency' /\ LateIsPast' /\ RestsAfterEmergency'
         /\ ~Permitted => on' \subseteq on /\ moving' \subseteq moving
<1> USE DEF IInv, TypeOK, HeldInEmergency, LateIsPast, RestsAfterEmergency, States,
            Permitted, permission
<1>1. CASE send_start_msg
  BY <1>1, HearersSubset DEF send_start_msg, motor_init
<1>2. CASE motor_alarm_check
  BY <1>2 DEF motor_alarm_check, reset_fault
<1>3. CASE auto_mode_check
  BY <1>3 DEF auto_mode_check, drives
<1>4. CASE check_robot_mode
  BY <1>4 DEF check_robot_mode, Shutdown
<1>5. CASE check_motor_enable
  BY <1>5 DEF check_motor_enable, Enabling
<1>6. CASE spin_motor
  BY <1>6, HearersSubset DEF spin_motor
<1>7. CASE cal_odom
  BY <1>7 DEF cal_odom, drives
<1>8. CASE emergency_press
  BY <1>8, ShutdownEnablesNone, StoppingRests DEF emergency_press, Shutdown
<1>9. CASE emergency_release
  BY <1>9 DEF emergency_release, Enabling
<1> QED
  BY <1>1, <1>2, <1>3, <1>4, <1>5, <1>6, <1>7, <1>8, <1>9 DEF Step

-----------------------------------------------------------------------------
LEMMA NextIInv ==
  ASSUME IInv, [Next]_vars
  PROVE  IInv' /\ (~Permitted => on' \subseteq on /\ moving' \subseteq moving)
<1> USE DEF IInv, TypeOK, HeldInEmergency, LateIsPast, RestsAfterEmergency, States,
            Permitted, permission, pulse, drives, bus
<1>1. CASE cmd_callback
  <2>1. v' \in BOOLEAN /\ atRest' \in BOOLEAN /\ (atRest' => atRest /\ ~v')
    BY <1>1, Zenon DEF cmd_callback
  <2> QED BY <1>1, <2>1, OnUnchanged DEF cmd_callback
<1>2. CASE mode_callback
  BY <1>2, OnUnchanged DEF mode_callback
<1>3. CASE masteron_callback
  <2> PICK data \in BOOLEAN :
         IF starting
         THEN starting' = ~data /\ UNCHANGED <<last_btn_state, current_state>>
         ELSE /\ current_state' = IF data = last_btn_state THEN current_state
                                  ELSE IF data THEN "recovery_state"
                                  ELSE "emergency_state"
              /\ last_btn_state' = data
              /\ UNCHANGED starting
    BY <1>3 DEF masteron_callback
  <2>1. UNCHANGED <<robot_mode, v, pulse, drives, bus, atRest, late>>
    BY <1>3 DEF masteron_callback
  <2>2. CASE starting
    BY <2>1, <2>2, OnUnchanged
  <2>3. CASE ~starting
    BY <2>1, <2>3, OnUnchanged
  <2> QED BY <2>2, <2>3
<1>4. CASE flow_state_machine
  <2>1. /\ is_heartbeat' \in BOOLEAN
        /\ UNCHANGED <<permission, robot_mode, last_pulse, bus>>
    BY <1>4 DEF flow_state_machine, Beats
  <2>2. CASE ~starting /\ is_heartbeat'
    <3>1. Step
      BY <1>4, <2>2 DEF flow_state_machine
    <3> QED BY <2>1, <2>2, <3>1, StepIInv
  <2>3. CASE ~(~starting /\ is_heartbeat')
    <3>1. UNCHANGED FlowVars
      BY <1>4, <2>3 DEF flow_state_machine, FlowVars
    <3> QED BY <2>1, <3>1, OnUnchanged DEF FlowVars
  <2> QED BY <2>2, <2>3
<1>5. CASE check_heartbeat
  BY <1>5, HearersSubset, OnUnchanged DEF check_heartbeat
<1>6. CASE main_ends
  BY <1>6, OnUnchanged DEF main_ends
<1>7. ASSUME NEW d \in Drives, Trip(d) \/ Reboot(d)
      PROVE  IInv' /\ on' \subseteq on /\ moving' \subseteq moving
  <2>1. on' \subseteq on
    BY <1>7 DEF Trip, Reboot, on
  <2>2. cia' \in [Drives -> DriveStates]
    BY <1>7 DEF Trip, Reboot, DriveStates
  <2>3. IInv' /\ moving' \subseteq moving
    <3>1. CASE Trip(d)
      BY <2>2, <3>1 DEF Trip
    <3>2. CASE Reboot(d)
      BY <2>2, <3>2 DEF Reboot
    <3> QED BY <1>7, <3>1, <3>2
  <2> QED BY <2>1, <2>3
<1>8. CASE BecomesHealthy
  BY <1>8, OnUnchanged DEF BecomesHealthy
<1>9. CASE UNCHANGED vars
  BY <1>9, OnUnchanged DEF vars
<1> QED
  BY <1>1, <1>2, <1>3, <1>4, <1>5, <1>6, <1>7, <1>8, <1>9 DEF Next

-----------------------------------------------------------------------------
(* Every variable of the motor node and its drives keeps its type.          *)
THEOREM TypeCorrect == Spec => []TypeOK
<1>1. IInv => TypeOK
  BY DEF IInv
<1> QED BY InitIInv, NextIInv, <1>1, PTL DEF Spec

(* masteron_callback and the flow of motor_daniel_pdo.py: after an          *)
(* emergency that all drives heard of, none is given a speed asked for      *)
(* before it.                                                               *)
THEOREM EmergencyRests == Spec => []RestsAfterEmergency
<1>1. IInv => RestsAfterEmergency
  BY DEF IInv
<1> QED BY InitIInv, NextIInv, <1>1, PTL DEF Spec

(* check_robot_mode is passed before every speed: one that was being        *)
(* prepared when the mode changed is the last.                              *)
THEOREM AtMostOneLate == Spec => []ModeLatency
<1>1. IInv => ModeLatency
  BY DEF IInv, LateIsPast, ModeLatency
<1> QED BY InitIInv, NextIInv, <1>1, PTL DEF Spec

(* No step after the constructor enables a drive or gives it a speed while  *)
(* /allowed_master_on was last FALSE or was never TRUE.                     *)
THEOREM PermissionSafety == Spec => OnlyWithPermission
<1>1. IInv /\ [Next]_vars
      => [~Permitted => on' \subseteq on /\ moving' \subseteq moving]_vars
  BY NextIInv
<1> QED BY InitIInv, NextIInv, <1>1, PTL DEF Spec, OnlyWithPermission

=============================================================================
