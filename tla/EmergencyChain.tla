--------------------------- MODULE EmergencyChain ---------------------------
(***************************************************************************)
(* The five nodes between the emergency button and what it must stop, each *)
(* as it is specified on its own, over the topics that connect them: the   *)
(* IO node and the diagnostics node (Diagnostics), the mode node           *)
(* (RobotMode, here with the IO node itself and not IoPort), the motor     *)
(* node (MotorFlow) and the jack (JackServer).                             *)
(*                                                                         *)
(* What a node alone may take to be any value is here what was published:  *)
(* readiness, the robot mode, the permission.  Every subscriber has its    *)
(* own queue.                                                              *)
(***************************************************************************)
EXTENDS Diagnostics

CONSTANTS Drives, Goals

VARIABLES
  (* the mode node, see RobotMode; isSystemReady is the IO node's           *)
  modePc, sequence, mode_isSystemReady, isSystemReady_comeup,
  isMCUEmergency, isMasterOnSys, isMCUMaster_on_done,
  isEmergency_state, isEmerCharge_state, isEmergency_case_active, isPause,
  current_mode, mode_msg, allowed_master_on, late,
  (* the motor node and its drives, see MotorFlow                           *)
  starting, last_btn_state, robot_mode, current_state, v,
  is_heartbeat, last_pulse, cia, op, moving, alive, healthy, atRest, motor_late,
  (* the jack, see JackServer                                               *)
  paused, pc, is_cancel_requested, expired, ok, mainPc, jack_moving, enabled,
  monitorPc, threw, jack_late,
  (* queues of /diagnostics_system_ready at the mode node, of /robot_mode   *)
  (* at the motor node and at the jack, of /allowed_master_on               *)
  ready_queue, mode_queue, jack_queue, master_on_queue

(* RobotModeProofs is RobotMode with its theorems, and so on.               *)
Mode == INSTANCE RobotModeProofs
          WITH ReadyValues <- Readiness, isSystemReady <- mode_isSystemReady,
               Requests <- {"pause", "normal", "emergencyCase", "docking", "stop"}

(* The constants of RobotMode.msg.                                          *)
Number == [NONE |-> 0, IDLE |-> 1, START_MOTOR |-> 2, EMERGENCY |-> 5,
           READY_TO_START |-> 11, DOCKING_MODE_ON |-> 12, ERROR_DEVICE |-> 14,
           EMERGENCY_CASE_ACTIVE |-> 18, EMERGENCY_CHARGE |-> 19, PAUSE |-> 23]
Numbers == {Number[m] : m \in DOMAIN Number}

Motor == INSTANCE MotorFlowProofs WITH Modes <- Numbers, late <- motor_late
Jack  == INSTANCE JackServerProofs
           WITH Modes <- Numbers, moving <- jack_moving, late <- jack_late

ioOwnVars == <<status, button_status, isSystemReady, asked, diagVars>>
modeVars  == <<modePc, sequence, mode_isSystemReady, isSystemReady_comeup,
               isMCUEmergency, isMasterOnSys, isMCUMaster_on_done,
               isEmergency_state, isEmerCharge_state, isEmergency_case_active,
               isPause, current_mode, mode_msg, allowed_master_on, late>>
motorVars == <<starting, last_btn_state, robot_mode, current_state, v, is_heartbeat,
               last_pulse, cia, op, moving, alive, healthy, atRest, motor_late>>
jackVars  == <<paused, pc, is_cancel_requested, expired, ok, mainPc, jack_moving,
               enabled, monitorPc, threw, jack_late>>
queues    == <<ready_queue, mode_queue, jack_queue, master_on_queue>>
chainVars == <<sysVars, modeVars, motorVars, jackVars, queues>>

ChainInit ==
  /\ SysInit /\ Mode!Init /\ Motor!Init /\ Jack!Init
  /\ ready_queue = <<>> /\ mode_queue = <<>> /\ jack_queue = <<>>
  /\ master_on_queue = <<>>

-----------------------------------------------------------------------------
(* The IO node and the diagnostics node.                                    *)

PublishReady ==
  /\ pub_diagnostic
  /\ ready_queue' = Published(ready_queue, system_ready')
  /\ UNCHANGED <<modeVars, motorVars, jackVars, mode_queue, jack_queue,
                 master_on_queue>>

IoSide ==
  /\ \/ IoNodeStep \/ ReadyArrives \/ check_enable
     \/ io_callback \/ SecondPasses \/ SetParameter
  /\ UNCHANGED <<modeVars, motorVars, jackVars, queues>>

(* The mode node.                                                           *)

ModeReady ==
  /\ ready_queue # <<>>
  /\ Mode!system_ready /\ mode_isSystemReady' = Head(ready_queue)
  /\ ready_queue' = Tail(ready_queue)
  /\ UNCHANGED <<ioOwnVars, motorVars, jackVars, mode_queue, jack_queue,
                 master_on_queue>>

ModeControl ==
  /\ Mode!Control
  /\ mode_queue' = IF modePc' = "waitIo" THEN mode_queue
                   ELSE Published(mode_queue, Number[mode_msg'])
  /\ jack_queue' = IF modePc' = "waitIo" THEN jack_queue
                   ELSE Published(jack_queue, Number[mode_msg'])
  /\ master_on_queue' = IF modePc' = "spinning"
                        THEN Published(master_on_queue, allowed_master_on')
                        ELSE master_on_queue
  /\ UNCHANGED <<ioOwnVars, motorVars, jackVars, ready_queue>>

ModeOther ==
  /\ \/ Mode!emergency_callback \/ Mode!io_status_cb \/ Mode!Request
     \/ Mode!CheckEmerCharge \/ Mode!CheckButton
  /\ UNCHANGED <<ioOwnVars, motorVars, jackVars, queues>>

(* The motor node.                                                          *)

MotorMode ==
  /\ mode_queue # <<>>
  /\ Motor!mode_callback /\ robot_mode' = Head(mode_queue)
  /\ mode_queue' = Tail(mode_queue)
  /\ UNCHANGED <<sysVars, modeVars, jackVars, ready_queue, jack_queue,
                 master_on_queue>>

MotorPermission ==
  /\ master_on_queue # <<>>
  /\ Motor!masteron_callback
  /\ IF starting THEN starting' = ~Head(master_on_queue)
     ELSE last_btn_state' = Head(master_on_queue)
  /\ master_on_queue' = Tail(master_on_queue)
  /\ UNCHANGED <<sysVars, modeVars, jackVars, ready_queue, mode_queue, jack_queue>>

MotorOther ==
  /\ \/ Motor!cmd_callback \/ Motor!flow_state_machine \/ Motor!check_heartbeat
     \/ Motor!main_ends \/ Motor!BecomesHealthy
     \/ \E d \in Drives : Motor!Trip(d) \/ Motor!Reboot(d)
  /\ UNCHANGED <<sysVars, modeVars, jackVars, queues>>

(* The jack.                                                                *)

JackMode ==
  /\ jack_queue # <<>>
  /\ Jack!mode_callback /\ paused' = Head(jack_queue)
  /\ jack_queue' = Tail(jack_queue)
  /\ UNCHANGED <<sysVars, modeVars, motorVars, ready_queue, mode_queue,
                 master_on_queue>>

JackOther ==
  /\ \/ \E g \in Goals : Jack!goal_callback(g) \/ Jack!cancel_callback(g)
                          \/ Jack!execute_callback(g) \/ Jack!Expire(g)
     \/ Jack!monitor_faults \/ Jack!Main \/ Jack!Trip
  /\ UNCHANGED <<sysVars, modeVars, motorVars, queues>>

-----------------------------------------------------------------------------
ChainNext ==
  \/ PublishReady \/ IoSide
  \/ ModeReady \/ ModeControl \/ ModeOther
  \/ MotorMode \/ MotorPermission \/ MotorOther
  \/ JackMode \/ JackOther

ChainSpec == ChainInit /\ [][ChainNext]_chainVars

-----------------------------------------------------------------------------
(* Properties.                                                              *)

IsQueue(q, S) == q \in Seq(S) /\ Len(q) <= QueueDepth

(* What is published is always something its subscribers take (a queue      *)
(* whose head they would refuse would only stop them), and no queue grows   *)
(* beyond its depth.                                                        *)
QueuesOK ==
  /\ IsQueue(diagnostics_system_ready, Readiness)
  /\ IsQueue(ready_queue, Readiness)
  /\ IsQueue(mode_queue, Numbers) /\ IsQueue(jack_queue, Numbers)
  /\ IsQueue(master_on_queue, BOOLEAN)

(* What a subscriber will know when it has handled all that is on its way.  *)
Latest(queue, known) == IF queue = <<>> THEN known ELSE queue[Len(queue)]

(* Queues drop messages, but never the last one: when a topic is drained,   *)
(* its subscriber knows what its publisher said last - the emergency loop   *)
(* at the mode node, the permission at the motor node, the mode (once one   *)
(* was published) at the motor node and at the jack.                        *)
NewsArrives ==
  /\ Latest(emergency_io, ~isMCUEmergency) = seen.ok
  /\ Latest(master_on_queue, Motor!Permitted) = allowed_master_on
  /\ mode_msg # "NONE" => /\ Latest(mode_queue, robot_mode) = Number[mode_msg]
                          /\ Latest(jack_queue, paused) = Number[mode_msg]

DrivesHeld == Motor!on' \subseteq Motor!on /\ moving' \subseteq moving

(* The open emergency loop got through: every poll on its way says so, the  *)
(* mode node has noted it and published it, and no permission is on its way *)
(* or standing.                                                             *)
EmergencyThrough ==
  /\ ~seen.ok /\ emergency_io \in Seq({FALSE})
  /\ isMCUEmergency /\ isSystemReady_comeup /\ isEmergency_state
  /\ ~allowed_master_on /\ master_on_queue \in Seq({FALSE})
  /\ ~Motor!Permitted

(* From then on no drive is enabled or set in motion, whatever is pressed,  *)
(* commanded, paused, resumed, requested, diagnosed or lost: only a poll    *)
(* that finds the loop closed ends it.                                      *)
EmergencyHolds ==
  [][EmergencyThrough => DrivesHeld /\ (EmergencyThrough' \/ seen'.ok)]_chainVars

(* The fault of an IO node that died got through in the same way.           *)
FaultThrough ==
  /\ ioPc = "down" /\ ~io_heartbeat /\ last_time # "recent"
  /\ use_diagnostics /\ check_io
  /\ system_ready = 2 /\ ready_queue \in Seq({2}) /\ mode_isSystemReady = 2
  /\ ~allowed_master_on /\ master_on_queue \in Seq({FALSE})
  /\ ~Motor!Permitted

(* An IO node that died, perhaps with the relays closed, holds the drives   *)
(* until somebody turns the check off: the fault cannot be talked away.     *)
FaultHolds ==
  [][FaultThrough => /\ DrivesHeld
                     /\ FaultThrough' \/ ~use_diagnostics' \/ ~check_io']_chainVars

(* The jack stands still, has heard that the robot may not drive, no mode   *)
(* to drive in is on its way, and no goal is past its look at the mode.     *)
JackHalted ==
  /\ ~jack_moving /\ paused # 2 /\ jack_queue \in Seq(Numbers \ {2})
  /\ \A g \in Goals : pc[g] \notin {"read", "speed"}

(* The emergency and the fault hold the jack as well, whatever goals are    *)
(* sent, cancelled, timed out, paused or executing; EmergencyHolds and      *)
(* FaultHolds say for how long.                                             *)
JackHolds ==
  [][(EmergencyThrough \/ FaultThrough) /\ JackHalted => JackHalted']_chainVars

(* The mode node, with the real IO node and diagnostics, is the one that    *)
(* was checked with IoPort and any readiness; the motor node and the jack,  *)
(* with the real mode node, are the ones that were checked with any mode    *)
(* and permission.                                                          *)
RefinesRobotMode == Mode!Spec
RefinesMotorFlow == Motor!Spec
RefinesJackServer == Jack!Spec

=============================================================================
