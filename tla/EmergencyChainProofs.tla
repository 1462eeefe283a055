------------------------ MODULE EmergencyChainProofs ------------------------
(***************************************************************************)
(* For queues of any depth, any drives and any goals: the five nodes       *)
(* together do to each other only what each was checked against, no topic  *)
(* loses its last word, and an emergency or a dead IO node that got        *)
(* through holds the drives and the jack.                                  *)
(***************************************************************************)
EXTENDS EmergencyChain, DeviceIOProofs

USE QueueDepthAssumption

-----------------------------------------------------------------------------
(* The assumptions of the mode node, of the motor node and of the jack are  *)
(* met, so their theorems can be used.                                      *)

LEMMA ReadinessIsReadyValues == Readiness \subseteq 0 .. 3 /\ 3 \notin Readiness
  BY DEF Readiness

LEMMA NumbersAreModes ==
  2 \in Numbers /\ {1, 2, 5} \subseteq Numbers /\ Numbers \subseteq Nat
  BY DEF Numbers, Number

LEMMA ModeTheorems == Mode!Spec => /\ []Mode!TypeOK
                                   /\ []Mode!NeverWaitsForIo
                                   /\ []Mode!EmergencyLatency
<1>1. Mode!Spec => []Mode!TypeOK
  BY ReadinessIsReadyValues, Mode!TypeCorrect
<1>2. Mode!Spec => []Mode!NeverWaitsForIo
  BY ReadinessIsReadyValues, Mode!IoNeverWaitedFor
<1>3. Mode!Spec => []Mode!EmergencyLatency
  BY ReadinessIsReadyValues, Mode!EmergencyIsPrompt
<1> QED BY <1>1, <1>2, <1>3

LEMMA MotorInvariant == Motor!Spec => []Motor!IInv
<1>1. Motor!Init => Motor!IInv
  BY NumbersAreModes, Motor!InitIInv
<1>2. Motor!IInv /\ [Motor!Next]_Motor!vars => Motor!IInv'
  BY NumbersAreModes, Motor!NextIInv
<1> QED BY <1>1, <1>2, PTL DEF Motor!Spec

LEMMA MotorHeld ==
  Motor!IInv /\ [Motor!Next]_Motor!vars /\ ~Motor!Permitted => DrivesHeld
  BY NumbersAreModes, Motor!NextIInv DEF DrivesHeld

LEMMA JackInvariant == Jack!Spec => []Jack!IInv
<1>1. Jack!Init => Jack!IInv
  BY NumbersAreModes, Jack!InitIInv
<1>2. Jack!IInv /\ [Jack!Next]_Jack!vars => Jack!IInv'
  BY NumbersAreModes, Jack!NextIInv
<1> QED BY <1>1, <1>2, PTL DEF Jack!Spec

-----------------------------------------------------------------------------
(* The motor node and the jack only listen.                                 *)

Listening == MotorMode \/ MotorPermission \/ MotorOther \/ JackMode \/ JackOther

LEMMA ListenersChangeNothing ==
  Listening \/ UNCHANGED chainVars
    => UNCHANGED <<topics, vars, ioVars, ioOwnVars, diagVars, modeVars, sysVars,
                   ready_queue>>
  BY DEF Listening, MotorMode, MotorPermission, MotorOther, JackMode, JackOther,
         chainVars, queues, sysVars, vars, topics, ioVars, diagVars, ioOwnVars

-----------------------------------------------------------------------------
(* What queues keep.                                                        *)

LEMMA TakenType ==
  ASSUME NEW S, NEW q \in Seq(S), q # <<>>
  PROVE  /\ Head(q) \in S /\ Tail(q) \in Seq(S)
         /\ Len(q) <= QueueDepth => Len(Tail(q)) <= QueueDepth
  BY HeadTailProperties

(* The last message is never the one that is dropped, and is the last to be *)
(* taken.                                                                   *)
LEMMA LatestPublished ==
  ASSUME NEW S, NEW q \in Seq(S), NEW m \in S, NEW k
  PROVE  Latest(Published(q, m), k) = m
<1>1. CASE Len(q) < QueueDepth
  BY <1>1, AppendProperties DEF Latest, Published
<1>2. CASE ~(Len(q) < QueueDepth)
  <2>1. Tail(q) \in Seq(S)
    BY <1>2, EmptySeq, HeadTailProperties
  <2> QED BY <1>2, <2>1, AppendProperties DEF Latest, Published
<1> QED BY <1>1, <1>2

LEMMA LatestTaken ==
  ASSUME NEW S, NEW q \in Seq(S), q # <<>>, NEW k
  PROVE  Latest(Tail(q), Head(q)) = Latest(q, k)
<1>1. /\ Tail(q) \in Seq(S) /\ Head(q) = q[1]
      /\ Len(q) \in Nat /\ Len(Tail(q)) \in Nat /\ Len(Tail(q)) = Len(q) - 1
  BY HeadTailProperties, LenProperties
<1>2. CASE Tail(q) = <<>>
  <2>1. Len(q) = 1
    BY <1>1, <1>2
  <2> QED BY <1>1, <1>2, <2>1 DEF Latest
<1>3. CASE Tail(q) # <<>>
  <2>1. Len(Tail(q)) # 0
    BY <1>1, <1>3, EmptySeq
  <2>2. Tail(q)[Len(Tail(q))] = q[Len(q)]
    BY <1>1, <2>1
  <2> QED BY <1>3, <2>2 DEF Latest
<1> QED BY <1>2, <1>3

(* A step of the IO node, seen by the mode node, is one of IoPort.          *)
LEMMA SamePort ==
  [Port!Next]_<<Port!topics, Port!port>>
    => Mode!Port!Next \/ UNCHANGED <<topics, ioPc, seen, coils, missed>>
  BY DEF Port!Next, Port!Poll, Port!Write, Port!Report, Port!Fail, Port!End,
         Port!Published, Port!Seen, Port!Safe, Port!topics, Port!port, topics,
         Mode!Port!Next, Mode!Port!Poll, Mode!Port!Write, Mode!Port!Report,
         Mode!Port!Fail, Mode!Port!End, Mode!Port!Published, Mode!Port!Seen,
         Mode!Port!Safe, Mode!Port!topics

(* The mode node only takes messages from the topics of the IO node.        *)
LEMMA ModeTakes ==
  ASSUME IInv, ModeReady \/ ModeControl \/ ModeOther
  PROVE  /\ TopicsOK'
         /\ UNCHANGED <<ioPc, seen, coils, missed, ioOwnVars>>
<1> USE DEF IInv, TypeOK, TopicsOK, topics
<1>1. CASE ModeReady \/ ModeControl
  BY <1>1 DEF ModeReady, ModeControl, Mode!system_ready, Mode!Control,
              Mode!topics, Mode!portVars
<1>2. CASE ModeOther
  <2>1. CASE Mode!emergency_callback
    <3>1. /\ Tail(emergency_io) \in Seq(BOOLEAN)
          /\ Len(Tail(emergency_io)) <= QueueDepth
      BY <2>1, TakenType DEF Mode!emergency_callback
    <3> QED BY <1>2, <2>1, <3>1 DEF ModeOther, Mode!emergency_callback, Mode!portVars
  <2>2. CASE Mode!io_status_cb
    <3>1. /\ Tail(status_io) \in Seq(Status)
          /\ Len(Tail(status_io)) <= QueueDepth
      BY <2>2, TakenType DEF Mode!io_status_cb
    <3> QED BY <1>2, <2>2, <3>1 DEF ModeOther, Mode!io_status_cb, Mode!portVars
  <2>3. CASE Mode!Request \/ Mode!CheckEmerCharge \/ Mode!CheckButton
    BY <1>2, <2>3 DEF ModeOther, Mode!Request, Mode!CheckEmerCharge,
                      Mode!CheckButton, Mode!topics, Mode!portVars
  <2> QED BY <1>2, <2>1, <2>2, <2>3 DEF ModeOther
<1> QED BY <1>1, <1>2

LEMMA ChainIInv == IInv /\ [ChainNext]_chainVars => IInv'
<1> SUFFICES ASSUME IInv, [ChainNext]_chainVars PROVE IInv'
  OBVIOUS
<1>1. CASE PublishReady \/ IoSide
  <2>1. [Next]_vars
    BY <1>1, SysStepIsIoStep DEF PublishReady, IoSide, SysNext, pub_diagnostic
  <2> QED BY <2>1, NextIInv
<1>2. CASE ModeReady \/ ModeControl \/ ModeOther
  <2>1. TopicsOK' /\ UNCHANGED <<ioPc, seen, coils, missed, ioOwnVars>>
    BY <1>2, ModeTakes
  <2> QED
    BY <2>1 DEF IInv, TypeOK, CommandAsked, DecisionAllowed, RelaysFollowInputs,
                NoRestartUnasked, Written, Safe, ioOwnVars
<1>3. CASE Listening \/ UNCHANGED chainVars
  <2>1. UNCHANGED vars
    BY <1>3, ListenersChangeNothing
  <2> QED BY <2>1, NextIInv
<1> QED BY <1>1, <1>2, <1>3 DEF ChainNext, Listening

-----------------------------------------------------------------------------
(* Each node's steps in the chain are steps of its own specification.       *)

LEMMA ChainStepIsModeStep ==
  IInv /\ [ChainNext]_chainVars => [Mode!Next]_Mode!vars
<1> SUFFICES ASSUME IInv, [ChainNext]_chainVars PROVE [Mode!Next]_Mode!vars
  OBVIOUS
<1> USE DEF Mode!vars, Mode!topics, Mode!portVars, Mode!readyVars, Mode!ioFlags,
            Mode!stateFlags, Mode!requestVars, Mode!published
<1>1. CASE PublishReady \/ IoSide
  <2>1. [Next]_vars
    BY <1>1, SysStepIsIoStep DEF PublishReady, IoSide, SysNext, pub_diagnostic
  <2>2. Mode!Port!Next \/ UNCHANGED <<topics, ioPc, seen, coils, missed>>
    BY <2>1, StepRefinesIoPort, SamePort
  <2>3. UNCHANGED modeVars
    BY <1>1 DEF PublishReady, IoSide
  <2> QED BY <2>2, <2>3 DEF Mode!Next, Mode!IoStep, modeVars, topics
<1>2. CASE ModeReady
  BY <1>2 DEF ModeReady, Mode!Next
<1>3. CASE ModeControl
  BY <1>3 DEF ModeControl, Mode!Next, Mode!Cycle
<1>4. CASE ModeOther
  BY <1>4 DEF ModeOther, Mode!Next, Mode!Cycle
<1>5. CASE Listening \/ UNCHANGED chainVars
  BY <1>5, ListenersChangeNothing DEF modeVars, topics, ioVars
<1> QED BY <1>1, <1>2, <1>3, <1>4, <1>5 DEF ChainNext, Listening

LEMMA ChainStepIsMotorStep == [ChainNext]_chainVars => [Motor!Next]_Motor!vars
<1> SUFFICES ASSUME [ChainNext]_chainVars PROVE [Motor!Next]_Motor!vars
  OBVIOUS
<1>1. CASE MotorMode \/ MotorPermission \/ MotorOther
  BY <1>1 DEF MotorMode, MotorPermission, MotorOther, Motor!Next
<1>2. CASE ~(MotorMode \/ MotorPermission \/ MotorOther)
  <2>1. UNCHANGED motorVars
    BY <1>2 DEF ChainNext, chainVars, PublishReady, IoSide, ModeReady, ModeControl,
                ModeOther, JackMode, JackOther
  <2> QED
    BY <2>1 DEF motorVars, Motor!vars, Motor!permission, Motor!pulse, Motor!drives,
                Motor!bus
<1> QED BY <1>1, <1>2

LEMMA ChainStepIsJackStep == [ChainNext]_chainVars => [Jack!Next]_Jack!vars
<1> SUFFICES ASSUME [ChainNext]_chainVars PROVE [Jack!Next]_Jack!vars
  OBVIOUS
<1>1. CASE JackMode \/ JackOther
  BY <1>1 DEF JackMode, JackOther, Jack!Next
<1>2. CASE ~(JackMode \/ JackOther)
  <2>1. UNCHANGED jackVars
    BY <1>2 DEF ChainNext, chainVars, PublishReady, IoSide, ModeReady, ModeControl,
                ModeOther, MotorMode, MotorPermission, MotorOther
  <2> QED
    BY <2>1 DEF jackVars, Jack!vars, Jack!goalVars, Jack!mainVars, Jack!driveVars
<1> QED BY <1>1, <1>2

(* With the real IO and diagnostics nodes, the mode node does what it does  *)
(* with IoPort and any readiness.                                           *)
THEOREM ChainImplementsRobotMode == ChainSpec => RefinesRobotMode
<1>1. ChainInit => IInv /\ Mode!Init
  BY InitIInv DEF ChainInit, SysInit
<1> QED
  BY <1>1, ChainIInv, ChainStepIsModeStep, PTL
  DEF ChainSpec, RefinesRobotMode, Mode!Spec

(* With the real mode node, the motor node and its drives do what they do   *)
(* with any mode and permission.                                            *)
THEOREM ChainImplementsMotorFlow == ChainSpec => RefinesMotorFlow
<1>1. ChainInit => Motor!Init
  BY DEF ChainInit
<1> QED
  BY <1>1, ChainStepIsMotorStep, PTL DEF ChainSpec, RefinesMotorFlow, Motor!Spec

(* Likewise the jack.                                                       *)
THEOREM ChainImplementsJackServer == ChainSpec => RefinesJackServer
<1>1. ChainInit => Jack!Init
  BY DEF ChainInit
<1> QED
  BY <1>1, ChainStepIsJackStep, PTL DEF ChainSpec, RefinesJackServer, Jack!Spec

LEMMA MotorTheorems == Motor!Spec => /\ []Motor!RestsAfterEmergency
                                     /\ []Motor!ModeLatency
                                     /\ Motor!OnlyWithPermission
<1>1. Motor!Spec => []Motor!ModeLatency
  BY NumbersAreModes, Motor!AtMostOneLate
<1>2. Motor!Spec => Motor!OnlyWithPermission
  BY NumbersAreModes, Motor!PermissionSafety
<1>3. Motor!Spec => []Motor!RestsAfterEmergency
  BY NumbersAreModes, Motor!EmergencyRests
<1> QED BY <1>1, <1>2, <1>3

LEMMA JackTheorems == Jack!Spec => []Jack!StopsWithLastGoal /\ []Jack!ModeLatency
<1>1. Jack!Spec => []Jack!StopsWithLastGoal
  BY NumbersAreModes, Jack!LastGoalStops
<1>2. Jack!Spec => []Jack!ModeLatency
  BY NumbersAreModes, Jack!AtMostOneLate
<1> QED BY <1>1, <1>2

(* In the chain every node keeps what it was shown to keep alone: the       *)
(* relays of all_io.py follow the inputs and do not close unasked;          *)
(* robot_mode.py never waits for io_service unless a frame was lost, and    *)
(* misses an emergency in at most one publication (the readiness            *)
(* diagnostics_node.py publishes needs no assumption); motor_daniel_pdo.py  *)
(* and jack_action_server.py drive nothing without permission, after an     *)
(* emergency, or more than once after the mode changed.                     *)
THEOREM ChainNodeSafety ==
  ChainSpec => /\ []RelaysFollowInputs /\ []NoRestartUnasked
               /\ []Mode!NeverWaitsForIo /\ []Mode!EmergencyLatency
               /\ Motor!OnlyWithPermission
               /\ []Motor!RestsAfterEmergency /\ []Motor!ModeLatency
               /\ []Jack!StopsWithLastGoal /\ []Jack!ModeLatency
<1>1. ChainInit => IInv
  BY InitIInv DEF ChainInit, SysInit
<1>2. IInv => RelaysFollowInputs /\ NoRestartUnasked
  BY DEF IInv
<1>3. ChainSpec => []RelaysFollowInputs /\ []NoRestartUnasked
  BY <1>1, <1>2, ChainIInv, PTL DEF ChainSpec
<1>4. ChainSpec => Mode!Spec /\ Motor!Spec /\ Jack!Spec
  BY ChainImplementsRobotMode, ChainImplementsMotorFlow, ChainImplementsJackServer
  DEF RefinesRobotMode, RefinesMotorFlow, RefinesJackServer
<1> QED BY <1>3, <1>4, ModeTheorems, MotorTheorems, JackTheorems

LEMMA ChainInvariants ==
  ChainSpec => []IInv /\ []Mode!TypeOK /\ []Motor!IInv /\ []Jack!IInv
<1>1. ChainInit => IInv
  BY InitIInv DEF ChainInit, SysInit
<1>2. ChainSpec => []IInv
  BY <1>1, ChainIInv, PTL DEF ChainSpec
<1> QED
  BY <1>2, ChainImplementsRobotMode, ModeTheorems, ChainImplementsMotorFlow,
     MotorInvariant, ChainImplementsJackServer, JackInvariant, PTL
  DEF RefinesRobotMode, RefinesMotorFlow, RefinesJackServer

-----------------------------------------------------------------------------
(* Whatever is on its way is something the subscriber takes.                *)

Queues == system_ready \in Readiness /\ QueuesOK

LEMMA QueuePublished ==
  ASSUME NEW S, NEW q, IsQueue(q, S), NEW m \in S
  PROVE  IsQueue(Published(q, m), S)
  BY PublishedType DEF IsQueue

LEMMA QueueTaken ==
  ASSUME NEW S, NEW q, IsQueue(q, S), q # <<>>
  PROVE  IsQueue(Tail(q), S) /\ Head(q) \in S
  BY TakenType DEF IsQueue

LEMMA InitQueues == ChainInit => Queues
<1>1. \A S : IsQueue(<<>>, S)
  BY EmptySeq DEF IsQueue
<1> QED BY <1>1 DEF ChainInit, SysInit, Queues, QueuesOK, Readiness

LEMMA NumberOfMode == \A m \in Mode!Modes : Number[m] \in Numbers
  BY DEF Mode!Modes, Mode!EmergencyModes, Number, Numbers

LEMMA ChainQueues ==
  Queues /\ Mode!TypeOK' /\ [ChainNext]_chainVars => Queues'
<1> SUFFICES ASSUME Queues, Mode!TypeOK', [ChainNext]_chainVars PROVE Queues'
  OBVIOUS
<1> USE DEF Queues, QueuesOK, queues
<1>1. CASE PublishReady
  <2>1. system_ready' \in Readiness
    BY <1>1 DEF PublishReady, pub_diagnostic, DeviceReadiness, Readiness
  <2>2. /\ IsQueue(Published(diagnostics_system_ready, system_ready'), Readiness)
        /\ IsQueue(Published(ready_queue, system_ready'), Readiness)
    BY <2>1, QueuePublished
  <2> QED BY <1>1, <2>1, <2>2 DEF PublishReady, pub_diagnostic
<1>2. CASE IoSide
  <2>1. CASE ReadyArrives
    BY <1>2, <2>1, QueueTaken DEF IoSide, ReadyArrives
  <2>2. CASE ~ReadyArrives
    BY <1>2, <2>2 DEF IoSide, IoNodeStep, check_enable, io_callback, SecondPasses,
                      SetParameter, diagVars
  <2> QED BY <2>1, <2>2
<1>3. CASE ModeReady
  BY <1>3, QueueTaken DEF ModeReady, ioOwnVars, diagVars
<1>4. CASE ModeControl
  <2>1. Number[mode_msg'] \in Numbers /\ allowed_master_on' \in BOOLEAN
    BY NumberOfMode DEF Mode!TypeOK
  <2>2. /\ IsQueue(Published(mode_queue, Number[mode_msg']), Numbers)
        /\ IsQueue(Published(jack_queue, Number[mode_msg']), Numbers)
        /\ IsQueue(Published(master_on_queue, allowed_master_on'), BOOLEAN)
    BY <2>1, QueuePublished
  <2> QED BY <1>4, <2>2 DEF ModeControl, ioOwnVars, diagVars
<1>5. CASE ModeOther
  BY <1>5 DEF ModeOther, ioOwnVars, diagVars
<1>6. CASE MotorMode \/ MotorPermission \/ JackMode
  BY <1>6, QueueTaken DEF MotorMode, MotorPermission, JackMode, sysVars, diagVars
<1>7. CASE MotorOther \/ JackOther \/ UNCHANGED chainVars
  BY <1>7 DEF MotorOther, JackOther, chainVars, sysVars, diagVars
<1> QED BY <1>1, <1>2, <1>3, <1>4, <1>5, <1>6, <1>7 DEF ChainNext

LEMMA ChainQueued == ChainSpec => []Queues
  BY InitQueues, ChainQueues, ChainInvariants, PTL DEF ChainSpec

(* diagnostics_node.py publishes only readiness its listeners expect, and   *)
(* robot_mode.py only modes of RobotMode.msg: that a subscriber's action    *)
(* takes what is published never stops it, so the composition leaves out    *)
(* nothing the nodes do.                                                    *)
THEOREM ChainQueuesOK == ChainSpec => []QueuesOK
<1>1. Queues => QueuesOK
  BY DEF Queues
<1> QED BY <1>1, ChainQueued, PTL

-----------------------------------------------------------------------------
(* The last word of a topic.                                                *)

LEMMA InitNews == ChainInit => NewsArrives
<1> SUFFICES ASSUME ChainInit PROVE NewsArrives
  OBVIOUS
<1>1. emergency_io = <<>> /\ master_on_queue = <<>>
  BY DEF ChainInit, SysInit, Init
<1>2. seen.ok = TRUE /\ isMCUEmergency = FALSE
  BY DEF ChainInit, SysInit, Init, Mode!Init
<1>3. Motor!Permitted = FALSE /\ allowed_master_on = FALSE
  BY DEF ChainInit, Mode!Init, Motor!Init, Motor!Permitted
<1>4. (~isMCUEmergency) = seen.ok
  BY <1>2
<1>5. mode_msg = "NONE"
  BY DEF ChainInit, Mode!Init
<1> QED BY <1>1, <1>3, <1>4, <1>5 DEF NewsArrives, Latest

(* Handling a permission makes it what stands.                              *)
LEMMA PermissionHandled ==
  ASSUME Motor!IInv, Queues, MotorPermission
  PROVE  Motor!Permitted' = Head(master_on_queue)
<1>1. Head(master_on_queue) \in BOOLEAN
  BY QueueTaken DEF MotorPermission, Queues, QueuesOK
<1>2. /\ starting \in BOOLEAN /\ last_btn_state \in BOOLEAN
      /\ starting => last_btn_state
  BY DEF Motor!IInv, Motor!TypeOK, Motor!HeldInEmergency
<1>3. CASE starting
  <2>1. starting' = ~Head(master_on_queue) /\ last_btn_state' = last_btn_state
    BY <1>3 DEF MotorPermission, Motor!masteron_callback
  <2> QED BY <1>1, <1>2, <1>3, <2>1 DEF Motor!Permitted
<1>4. CASE ~starting
  <2>1. last_btn_state' = Head(master_on_queue) /\ starting' = starting
    BY <1>4 DEF MotorPermission, Motor!masteron_callback
  <2> QED BY <1>1, <1>2, <1>4, <2>1 DEF Motor!Permitted
<1> QED BY <1>3, <1>4

(* Nothing else changes it.                                                 *)
LEMMA PermissionStands ==
  ASSUME [ChainNext]_chainVars, ~MotorPermission
  PROVE  UNCHANGED <<starting, last_btn_state>>
<1>1. CASE MotorMode \/ MotorOther
  BY <1>1 DEF MotorMode, MotorOther, Motor!mode_callback, Motor!cmd_callback,
              Motor!flow_state_machine, Motor!check_heartbeat, Motor!main_ends,
              Motor!BecomesHealthy, Motor!Trip, Motor!Reboot, Motor!permission
<1>2. CASE ~(MotorMode \/ MotorOther)
  BY <1>2 DEF ChainNext, chainVars, motorVars, PublishReady, IoSide, ModeReady,
              ModeControl, ModeOther, JackMode, JackOther
<1> QED BY <1>1, <1>2

(* Only a poll and the callback touch what goes to the mode node.           *)
LEMMA EmergencyUntouched ==
  ASSUME [ChainNext]_chainVars,
         ~(IoSide /\ IoNodeStep /\ sent_digital),
         ~(ModeOther /\ Mode!emergency_callback)
  PROVE  UNCHANGED <<emergency_io, seen, isMCUEmergency>>
<1>1. CASE IoSide
  BY <1>1
  DEF IoSide, IoNodeStep, IoWork, data_callback, sent_relay, read_relay, BusFails,
      destroy_node, relay_status, handle_service_response, ReadyArrives, ready,
      check_enable, io_callback, SecondPasses, SetParameter, modeVars, vars,
      topics, ioVars
<1>2. CASE PublishReady
  BY <1>2 DEF PublishReady, pub_diagnostic, modeVars, vars, topics, ioVars
<1>3. CASE ModeReady \/ ModeControl
  BY <1>3 DEF ModeReady, ModeControl, Mode!system_ready, Mode!Control,
              Mode!topics, Mode!portVars, Mode!ioFlags
<1>4. CASE ModeOther
  BY <1>4
  DEF ModeOther, Mode!io_status_cb, Mode!Request, Mode!CheckEmerCharge,
      Mode!CheckButton, Mode!topics, Mode!portVars, Mode!ioFlags
<1>5. CASE Listening \/ UNCHANGED chainVars
  BY <1>5, ListenersChangeNothing DEF topics, ioVars, modeVars
<1> QED BY <1>1, <1>2, <1>3, <1>4, <1>5 DEF ChainNext, Listening

LEMMA EmergencyNews ==
  ASSUME IInv, Mode!TypeOK, [ChainNext]_chainVars,
         Latest(emergency_io, ~isMCUEmergency) = seen.ok
  PROVE  Latest(emergency_io', ~isMCUEmergency') = seen.ok'
<1>0. emergency_io \in Seq(BOOLEAN) /\ isMCUEmergency \in BOOLEAN
  BY DEF IInv, TypeOK, TopicsOK, Mode!TypeOK
<1>1. CASE IoSide /\ IoNodeStep /\ sent_digital
  <2>1. PICK d \in Seen : /\ seen' = d
                          /\ emergency_io' = Published(emergency_io, d.ok)
    BY <1>1 DEF sent_digital
  <2>2. d.ok \in BOOLEAN
    BY DEF Seen
  <2>3. Latest(Published(emergency_io, d.ok), ~isMCUEmergency') = d.ok
    BY <1>0, <2>2, LatestPublished
  <2> QED BY <2>1, <2>3
<1>2. CASE ModeOther /\ Mode!emergency_callback
  <2>1. /\ emergency_io # <<>> /\ emergency_io' = Tail(emergency_io)
        /\ isMCUEmergency' = ~Head(emergency_io) /\ seen' = seen
    BY <1>2 DEF Mode!emergency_callback, Mode!portVars
  <2>2. Head(emergency_io) \in BOOLEAN
    BY <1>0, <2>1, TakenType
  <2>3. (~isMCUEmergency') = Head(emergency_io)
    BY <2>1, <2>2
  <2>4. Latest(Tail(emergency_io), Head(emergency_io))
          = Latest(emergency_io, ~isMCUEmergency)
    BY <1>0, <2>1, LatestTaken
  <2> QED BY <2>1, <2>3, <2>4
<1>3. CASE /\ ~(IoSide /\ IoNodeStep /\ sent_digital)
           /\ ~(ModeOther /\ Mode!emergency_callback)
  BY <1>3, EmergencyUntouched
<1> QED BY <1>1, <1>2, <1>3

(* A crash or a wait publishes no permission and leaves the last one.       *)
LEMMA PermissionPublished ==
  ASSUME ModeControl
  PROVE  \/ UNCHANGED <<master_on_queue, allowed_master_on>>
         \/ master_on_queue' = Published(master_on_queue, allowed_master_on')
<1>1. CASE modePc' = "spinning"
  BY <1>1 DEF ModeControl
<1>2. CASE modePc' # "spinning"
  <2>1. UNCHANGED allowed_master_on
    BY <1>2 DEF ModeControl, Mode!Control, Mode!Publish, Mode!published, Mode!Spinning
  <2> QED BY <1>2, <2>1 DEF ModeControl
<1> QED BY <1>1, <1>2

LEMMA PermissionOnlyFromControl ==
  ASSUME [ChainNext]_chainVars, ~ModeControl, ~MotorPermission
  PROVE  UNCHANGED <<master_on_queue, allowed_master_on>>
<1>1. CASE ModeReady \/ ModeOther
  BY <1>1 DEF ModeReady, ModeOther, Mode!system_ready, Mode!emergency_callback,
              Mode!io_status_cb, Mode!Request, Mode!CheckEmerCharge,
              Mode!CheckButton, Mode!published, queues
<1>2. CASE PublishReady \/ IoSide \/ MotorMode \/ MotorOther \/ UNCHANGED chainVars
           \/ JackMode \/ JackOther
  BY <1>2 DEF PublishReady, IoSide, MotorMode, MotorOther, chainVars, modeVars,
              queues, JackMode, JackOther
<1> QED BY <1>1, <1>2 DEF ChainNext

LEMMA PermissionNews ==
  ASSUME Queues, Mode!TypeOK', Motor!IInv, [ChainNext]_chainVars,
         Latest(master_on_queue, Motor!Permitted) = allowed_master_on
  PROVE  Latest(master_on_queue', Motor!Permitted') = allowed_master_on'
<1>0. master_on_queue \in Seq(BOOLEAN) /\ allowed_master_on' \in BOOLEAN
  BY DEF Queues, QueuesOK, IsQueue, Mode!TypeOK
<1>1. CASE MotorPermission
  <2>1. Motor!Permitted' = Head(master_on_queue)
    BY <1>1, PermissionHandled
  <2>2. /\ master_on_queue # <<>> /\ master_on_queue' = Tail(master_on_queue)
        /\ UNCHANGED allowed_master_on
    BY <1>1 DEF MotorPermission, modeVars
  <2>3. Latest(Tail(master_on_queue), Head(master_on_queue))
          = Latest(master_on_queue, Motor!Permitted)
    BY <1>0, <2>2, LatestTaken
  <2> QED BY <2>1, <2>2, <2>3
<1>2. CASE ~MotorPermission
  <2>1. Motor!Permitted' = Motor!Permitted
    BY <1>2, PermissionStands DEF Motor!Permitted
  <2>2. CASE ModeControl
    <3>1. Latest(Published(master_on_queue, allowed_master_on'), Motor!Permitted')
            = allowed_master_on'
      BY <1>0, LatestPublished
    <3> QED BY <2>1, <2>2, <3>1, PermissionPublished
  <2>3. CASE ~ModeControl
    BY <1>2, <2>1, <2>3, PermissionOnlyFromControl
  <2> QED BY <2>2, <2>3
<1> QED BY <1>1, <1>2

ModeArrives ==
  mode_msg # "NONE" => /\ Latest(mode_queue, robot_mode) = Number[mode_msg]
                       /\ Latest(jack_queue, paused) = Number[mode_msg]

(* A mode is published to both subscribers or, in a wait, not decided on.   *)
LEMMA ModePublished ==
  ASSUME ModeControl
  PROVE  \/ UNCHANGED <<mode_queue, jack_queue, mode_msg>>
         \/ /\ mode_queue' = Published(mode_queue, Number[mode_msg'])
            /\ jack_queue' = Published(jack_queue, Number[mode_msg'])
<1>1. CASE modePc' = "waitIo"
  <2>1. UNCHANGED mode_msg
    BY <1>1 DEF ModeControl, Mode!Control, Mode!Publish, Mode!published, Mode!Spinning
  <2> QED BY <1>1, <2>1 DEF ModeControl
<1>2. CASE modePc' # "waitIo"
  BY <1>2 DEF ModeControl
<1> QED BY <1>1, <1>2

LEMMA ModeOnlyFromControl ==
  ASSUME [ChainNext]_chainVars, ~ModeControl
  PROVE  /\ UNCHANGED mode_msg
         /\ MotorMode \/ UNCHANGED <<mode_queue, robot_mode>>
         /\ JackMode \/ UNCHANGED <<jack_queue, paused>>
<1> USE DEF modeVars, motorVars, jackVars, queues
<1>1. CASE ModeReady \/ ModeOther
  BY <1>1 DEF ModeReady, ModeOther, Mode!system_ready, Mode!emergency_callback,
              Mode!io_status_cb, Mode!Request, Mode!CheckEmerCharge,
              Mode!CheckButton, Mode!published
<1>2. CASE PublishReady \/ IoSide \/ MotorMode \/ JackMode \/ UNCHANGED chainVars
  BY <1>2 DEF PublishReady, IoSide, MotorMode, JackMode, chainVars
<1>3. CASE MotorPermission \/ MotorOther
  BY <1>3 DEF MotorPermission, MotorOther, Motor!masteron_callback,
              Motor!cmd_callback, Motor!flow_state_machine, Motor!check_heartbeat,
              Motor!main_ends, Motor!BecomesHealthy, Motor!Trip, Motor!Reboot
<1>4. CASE JackOther
  BY <1>4 DEF JackOther, Jack!goal_callback, Jack!cancel_callback,
              Jack!execute_callback, Jack!Expire, Jack!monitor_faults, Jack!Main,
              Jack!Trip
<1> QED BY <1>1, <1>2, <1>3, <1>4 DEF ChainNext

LEMMA ModeNews ==
  ASSUME Queues, Mode!TypeOK', [ChainNext]_chainVars, ModeArrives
  PROVE  ModeArrives'
<1>0. mode_queue \in Seq(Numbers) /\ jack_queue \in Seq(Numbers)
  BY DEF Queues, QueuesOK, IsQueue
<1>1. CASE ModeControl
  <2>1. Number[mode_msg'] \in Numbers
    BY NumberOfMode DEF Mode!TypeOK
  <2>2. /\ Latest(Published(mode_queue, Number[mode_msg']), robot_mode')
             = Number[mode_msg']
        /\ Latest(Published(jack_queue, Number[mode_msg']), paused')
             = Number[mode_msg']
    BY <1>0, <2>1, LatestPublished
  <2>3. UNCHANGED <<robot_mode, paused>>
    BY <1>1 DEF ModeControl, motorVars, jackVars
  <2> QED BY <1>1, <2>2, <2>3, ModePublished DEF ModeArrives
<1>2. CASE ~ModeControl
  <2>1. Latest(mode_queue', robot_mode') = Latest(mode_queue, robot_mode)
    <3>1. CASE MotorMode
      <4>1. /\ mode_queue # <<>> /\ mode_queue' = Tail(mode_queue)
            /\ robot_mode' = Head(mode_queue)
        BY <3>1 DEF MotorMode
      <4> QED BY <1>0, <4>1, LatestTaken
    <3> QED BY <1>2, <3>1, ModeOnlyFromControl
  <2>2. Latest(jack_queue', paused') = Latest(jack_queue, paused)
    <3>1. CASE JackMode
      <4>1. /\ jack_queue # <<>> /\ jack_queue' = Tail(jack_queue)
            /\ paused' = Head(jack_queue)
        BY <3>1 DEF JackMode
      <4> QED BY <1>0, <4>1, LatestTaken
    <3> QED BY <1>2, <3>1, ModeOnlyFromControl
  <2> QED BY <1>2, <2>1, <2>2, ModeOnlyFromControl DEF ModeArrives
<1> QED BY <1>1, <1>2

(* Queues of a bounded depth drop messages and services, crashes and waits  *)
(* interrupt the nodes, but nobody is left with an old word: the last poll  *)
(* all_io.py published and the last mode and permission robot_mode.py       *)
(* published are what their subscribers know or have still to read.         *)
THEOREM ChainNewsArrives == ChainSpec => []NewsArrives
<1>1. /\ NewsArrives /\ IInv /\ Mode!TypeOK /\ Mode!TypeOK' /\ Motor!IInv /\ Queues
      /\ [ChainNext]_chainVars
      => NewsArrives'
  BY EmergencyNews, PermissionNews, ModeNews DEF NewsArrives, ModeArrives
<1> QED BY <1>1, ChainQueued, InitNews, ChainInvariants, PTL DEF ChainSpec

-----------------------------------------------------------------------------
(* What got through stays.                                                  *)

NoPermission ==
  /\ ~allowed_master_on /\ master_on_queue \in Seq({FALSE}) /\ ~Motor!Permitted

(* Without a permission on its way, only the mode node can give one.        *)
LEMMA NoPermissionStays ==
  ASSUME Queues, Motor!IInv, Mode!TypeOK', NoPermission, [ChainNext]_chainVars,
         ModeControl => ~allowed_master_on'
  PROVE  NoPermission'
<1>0. /\ ~allowed_master_on /\ ~Motor!Permitted
      /\ master_on_queue \in Seq({FALSE}) /\ Len(master_on_queue) <= QueueDepth
  BY DEF NoPermission, Queues, QueuesOK, IsQueue
<1>1. CASE MotorPermission
  <2>1. /\ master_on_queue # <<>> /\ master_on_queue' = Tail(master_on_queue)
        /\ UNCHANGED allowed_master_on
    BY <1>1 DEF MotorPermission, modeVars
  <2>2. Tail(master_on_queue) \in Seq({FALSE}) /\ Head(master_on_queue) \in {FALSE}
    BY <1>0, <2>1, TakenType
  <2>3. ~Motor!Permitted'
    BY <1>1, <2>2, PermissionHandled
  <2> QED BY <1>0, <2>1, <2>2, <2>3 DEF NoPermission
<1>2. CASE ~MotorPermission
  <2>1. ~Motor!Permitted'
    BY <1>0, <1>2, PermissionStands DEF Motor!Permitted
  <2>2. CASE ModeControl
    <3>1. allowed_master_on' = FALSE
      BY <2>2 DEF Mode!TypeOK
    <3>2. master_on_queue' \in Seq({FALSE})
      <4>1. Published(master_on_queue, FALSE) \in Seq({FALSE})
        BY <1>0, PublishedType
      <4>2. \/ master_on_queue' = master_on_queue
            \/ master_on_queue' = Published(master_on_queue, allowed_master_on')
        BY <2>2, PermissionPublished
      <4> QED BY <1>0, <3>1, <4>1, <4>2
    <3> QED BY <2>1, <3>1, <3>2 DEF NoPermission
  <2>3. CASE ~ModeControl
    BY <1>0, <1>2, <2>1, <2>3, PermissionOnlyFromControl DEF NoPermission
  <2> QED BY <2>2, <2>3
<1> QED BY <1>1, <1>2

ButtonKnown == ~seen.ok /\ emergency_io \in Seq({FALSE}) /\ isMCUEmergency

(* Without a closed loop on its way, only a poll can tell of one.           *)
LEMMA ButtonKnownStays ==
  ASSUME IInv, Mode!TypeOK, ButtonKnown, [ChainNext]_chainVars
  PROVE  ButtonKnown' \/ seen'.ok
<1>0. /\ ~seen.ok /\ isMCUEmergency
      /\ emergency_io \in Seq({FALSE}) /\ Len(emergency_io) <= QueueDepth
  BY DEF ButtonKnown, IInv, TypeOK, TopicsOK
<1>1. CASE IoSide /\ IoNodeStep /\ sent_digital
  <2>1. PICK d \in Seen : /\ seen' = d
                          /\ emergency_io' = Published(emergency_io, d.ok)
    BY <1>1 DEF sent_digital
  <2>2. UNCHANGED isMCUEmergency
    BY <1>1 DEF IoSide, modeVars
  <2>3. CASE ~d.ok
    <3>1. d.ok = FALSE
      BY <2>3 DEF Seen
    <3>2. Published(emergency_io, FALSE) \in Seq({FALSE})
      BY <1>0, PublishedType
    <3> QED BY <1>0, <2>1, <2>2, <3>1, <3>2 DEF ButtonKnown
  <2> QED BY <2>1, <2>3
<1>2. CASE ModeOther /\ Mode!emergency_callback
  <2>1. /\ emergency_io # <<>> /\ emergency_io' = Tail(emergency_io)
        /\ isMCUEmergency' = ~Head(emergency_io) /\ seen' = seen
    BY <1>2 DEF Mode!emergency_callback, Mode!portVars
  <2>2. Tail(emergency_io) \in Seq({FALSE}) /\ Head(emergency_io) \in {FALSE}
    BY <1>0, <2>1, TakenType
  <2> QED BY <1>0, <2>1, <2>2 DEF ButtonKnown
<1>3. CASE /\ ~(IoSide /\ IoNodeStep /\ sent_digital)
           /\ ~(ModeOther /\ Mode!emergency_callback)
  BY <1>0, <1>3, EmergencyUntouched DEF ButtonKnown
<1> QED BY <1>1, <1>2, <1>3

(* While the mode node knows of the button, every cycle confirms the        *)
(* emergency, and no mode it decides on lets the drives have power.         *)
LEMMA EmergencyDecided ==
  ASSUME Mode!TypeOK, isEmergency_state, ModeControl, ~allowed_master_on
  PROVE  ~allowed_master_on'
<1>1. mode_isSystemReady \in 0 .. 2
  BY DEF Mode!TypeOK, Readiness
<1>2. ~Mode!AllowsMasterOn
  BY <1>1 DEF Mode!AllowsMasterOn, Mode!DecidedMode
<1> QED BY <1>2 DEF ModeControl, Mode!Control, Mode!Publish, Mode!published

LEMMA EmergencyStateStays ==
  ASSUME isMCUEmergency, isSystemReady_comeup, isEmergency_state,
         [ChainNext]_chainVars
  PROVE  isSystemReady_comeup' /\ isEmergency_state'
<1>1. CASE ModeReady
  BY <1>1 DEF ModeReady, Mode!system_ready, Mode!stateFlags
<1>2. CASE ModeControl
  BY <1>2 DEF ModeControl, Mode!Control, Mode!stateFlags, Mode!readyVars
<1>3. CASE ModeOther
  BY <1>3
  DEF ModeOther, Mode!emergency_callback, Mode!io_status_cb, Mode!Request,
      Mode!CheckEmerCharge, Mode!CheckButton, Mode!ButtonPressed,
      Mode!ButtonReleased, Mode!stateFlags, Mode!readyVars
<1>4. CASE ~(ModeReady \/ ModeControl \/ ModeOther)
  BY <1>4, ListenersChangeNothing
  DEF ChainNext, Listening, modeVars, PublishReady, IoSide
<1> QED BY <1>1, <1>2, <1>3, <1>4

LEMMA EmergencyStep ==
  ASSUME IInv, Mode!TypeOK, Mode!TypeOK', Motor!IInv, Queues,
         [ChainNext]_chainVars, EmergencyThrough
  PROVE  DrivesHeld /\ (EmergencyThrough' \/ seen'.ok)
<1>1. /\ ButtonKnown /\ NoPermission
      /\ isMCUEmergency /\ isSystemReady_comeup /\ isEmergency_state
  BY DEF EmergencyThrough, ButtonKnown, NoPermission
<1>2. DrivesHeld
  BY <1>1, ChainStepIsMotorStep, MotorHeld DEF NoPermission
<1>3. NoPermission'
  BY <1>1, EmergencyDecided, NoPermissionStays DEF NoPermission
<1>4. isSystemReady_comeup' /\ isEmergency_state'
  BY <1>1, EmergencyStateStays
<1>5. ButtonKnown' \/ seen'.ok
  BY <1>1, ButtonKnownStays
<1>6. ButtonKnown' => EmergencyThrough'
  BY <1>3, <1>4 DEF EmergencyThrough, ButtonKnown, NoPermission
<1> QED BY <1>2, <1>5, <1>6

(* An emergency that got through the four nodes holds the drives: nothing   *)
(* robot_mode.py is asked or told of, and nothing motor_daniel_pdo.py does, *)
(* enables a drive or gives it a speed until a poll of all_io.py finds the  *)
(* loop closed.                                                             *)
THEOREM ChainEmergencyHolds == ChainSpec => EmergencyHolds
<1>1. /\ IInv /\ Mode!TypeOK /\ Mode!TypeOK' /\ Motor!IInv /\ Queues
      /\ [ChainNext]_chainVars
      => [EmergencyThrough => DrivesHeld /\ (EmergencyThrough' \/ seen'.ok)]_chainVars
  BY EmergencyStep
<1> QED BY <1>1, ChainQueued, ChainInvariants, PTL DEF ChainSpec, EmergencyHolds

NodeLost ==
  /\ ioPc = "down" /\ ~io_heartbeat /\ last_time # "recent"
  /\ use_diagnostics /\ check_io

(* A dead IO node beats no more, so only a parameter can end it.            *)
LEMMA NodeLostStays ==
  ASSUME NodeLost, [ChainNext]_chainVars
  PROVE  NodeLost' \/ ~use_diagnostics' \/ ~check_io'
<1> USE DEF NodeLost
<1>1. CASE PublishReady \/ IoSide
  BY <1>1
  DEF PublishReady, pub_diagnostic, IoSide, IoNodeStep, IoWork, data_callback,
      sent_digital, sent_relay, read_relay, BusFails, destroy_node, relay_status,
      handle_service_response, ReadyArrives, ready, check_enable, io_callback,
      SecondPasses, SetParameter, vars, ioVars, diagVars
<1>2. CASE ModeReady \/ ModeControl \/ ModeOther
  BY <1>2
  DEF ModeReady, ModeControl, ModeOther, Mode!system_ready, Mode!Control,
      Mode!emergency_callback, Mode!io_status_cb, Mode!Request,
      Mode!CheckEmerCharge, Mode!CheckButton, Mode!portVars, ioOwnVars, diagVars
<1>3. CASE Listening \/ UNCHANGED chainVars
  BY <1>3, ListenersChangeNothing DEF ioVars, diagVars
<1> QED BY <1>1, <1>2, <1>3 DEF ChainNext, Listening

FaultKnown ==
  /\ system_ready = 2 /\ ready_queue \in Seq({2}) /\ mode_isSystemReady = 2

(* The diagnostics node publishes nothing else, so the mode node hears of   *)
(* nothing else.                                                            *)
LEMMA FaultKnownStays ==
  ASSUME Queues, NodeLost, FaultKnown, [ChainNext]_chainVars
  PROVE  FaultKnown'
<1>0. ready_queue \in Seq({2}) /\ Len(ready_queue) <= QueueDepth
  BY DEF FaultKnown, Queues, QueuesOK, IsQueue
<1>1. CASE PublishReady
  <2>1. system_ready' = 2 /\ ready_queue' = Published(ready_queue, 2)
    BY <1>1 DEF PublishReady, pub_diagnostic, DeviceReadiness, NodeLost
  <2>2. Published(ready_queue, 2) \in Seq({2})
    BY <1>0, PublishedType
  <2>3. UNCHANGED mode_isSystemReady
    BY <1>1 DEF PublishReady, modeVars
  <2> QED BY <2>1, <2>2, <2>3 DEF FaultKnown
<1>2. CASE ModeReady
  <2>1. /\ ready_queue # <<>> /\ ready_queue' = Tail(ready_queue)
        /\ mode_isSystemReady' = Head(ready_queue) /\ UNCHANGED system_ready
    BY <1>2 DEF ModeReady, ioOwnVars, diagVars
  <2>2. Tail(ready_queue) \in Seq({2}) /\ Head(ready_queue) \in {2}
    BY <1>0, <2>1, TakenType
  <2> QED BY <2>1, <2>2 DEF FaultKnown
<1>3. CASE ~PublishReady /\ ~ModeReady
  <2>1. CASE IoSide
    BY <2>1 DEF IoSide, IoNodeStep, ReadyArrives, check_enable, io_callback,
                SecondPasses, SetParameter, diagVars, modeVars, queues, FaultKnown
  <2>2. CASE ModeControl \/ ModeOther
    BY <2>2
    DEF ModeControl, ModeOther, Mode!Control, Mode!emergency_callback,
        Mode!io_status_cb, Mode!Request, Mode!CheckEmerCharge, Mode!CheckButton,
        Mode!readyVars, ioOwnVars, diagVars, queues, FaultKnown
  <2>3. CASE Listening \/ UNCHANGED chainVars
    BY <2>3, ListenersChangeNothing DEF diagVars, modeVars, FaultKnown
  <2> QED BY <1>3, <2>1, <2>2, <2>3 DEF ChainNext, Listening
<1> QED BY <1>1, <1>2, <1>3

(* A faulty device comes before every mode, and none that is decided on     *)
(* then lets the drives have power.                                         *)
LEMMA FaultDecided ==
  ASSUME mode_isSystemReady = 2, ModeControl, ~allowed_master_on
  PROVE  ~allowed_master_on'
<1>1. ~Mode!AllowsMasterOn
  BY DEF Mode!AllowsMasterOn, Mode!DecidedMode
<1> QED BY <1>1 DEF ModeControl, Mode!Control, Mode!Publish, Mode!published

LEMMA FaultStep ==
  ASSUME Mode!TypeOK', Motor!IInv, Queues, [ChainNext]_chainVars, FaultThrough
  PROVE  DrivesHeld /\ (FaultThrough' \/ ~use_diagnostics' \/ ~check_io')
<1>1. NodeLost /\ FaultKnown /\ NoPermission
  BY DEF FaultThrough, NodeLost, FaultKnown, NoPermission
<1>2. DrivesHeld
  BY <1>1, ChainStepIsMotorStep, MotorHeld DEF NoPermission
<1>3. NoPermission'
  BY <1>1, FaultDecided, NoPermissionStays DEF NoPermission, FaultKnown
<1>4. FaultKnown'
  BY <1>1, FaultKnownStays
<1>5. NodeLost' \/ ~use_diagnostics' \/ ~check_io'
  BY <1>1, NodeLostStays
<1>6. NodeLost' => FaultThrough'
  BY <1>3, <1>4 DEF FaultThrough, NodeLost, FaultKnown, NoPermission
<1> QED BY <1>2, <1>5, <1>6

(* An IO node that died in data_callback, perhaps with the relays closed,   *)
(* holds the drives once diagnostics_node.py has said so and robot_mode.py  *)
(* and motor_daniel_pdo.py have listened: only turning the check off ends   *)
(* it.                                                                      *)
THEOREM ChainFaultHolds == ChainSpec => FaultHolds
<1>1. /\ Mode!TypeOK' /\ Motor!IInv /\ Queues /\ [ChainNext]_chainVars
      => [FaultThrough => /\ DrivesHeld
                          /\ FaultThrough' \/ ~use_diagnostics' \/ ~check_io']_chainVars
  BY FaultStep
<1> QED BY <1>1, ChainQueued, ChainInvariants, PTL DEF ChainSpec, FaultHolds

-----------------------------------------------------------------------------
(* The jack.                                                                *)

LEMMA EmergencyIsNoModeToDrive ==
  \A m \in Mode!EmergencyModes : Number[m] \in Numbers \ {2}
  BY DEF Mode!EmergencyModes, Number, Numbers

(* A goal that finds the mode changed stops the jack, and none passes its   *)
(* look at the mode.                                                        *)
LEMMA GoalHalted ==
  ASSUME Jack!TypeOK, ~jack_moving, paused # 2,
         \A g \in Goals : pc[g] \notin {"read", "speed"},
         NEW h \in Goals, Jack!execute_callback(h)
  PROVE  /\ ~jack_moving' /\ UNCHANGED paused
         /\ \A g \in Goals : pc'[g] \notin {"read", "speed"}
<1>1. UNCHANGED paused
  BY DEF Jack!execute_callback
<1>2. \A where : Jack!Goto(h, where) /\ where \notin {"read", "speed"}
        => \A g \in Goals : pc'[g] \notin {"read", "speed"}
  BY DEF Jack!Goto, Jack!TypeOK
<1>3. CASE Jack!Loop(h)
  BY <1>1, <1>2, <1>3 DEF Jack!Loop, Jack!Finish, Jack!stop_motor
<1>4. CASE Jack!Paused(h)
  BY <1>1, <1>2, <1>4 DEF Jack!Paused, Jack!stop_motor
<1>5. CASE Jack!Feedback(h)
  BY <1>1, <1>2, <1>5 DEF Jack!Feedback
<1>6. ~Jack!Read(h) /\ ~Jack!Speed(h)
  BY DEF Jack!Read, Jack!Speed
<1> QED BY <1>3, <1>4, <1>5, <1>6 DEF Jack!execute_callback

LEMMA JackStaysHalted ==
  ASSUME Queues, Jack!IInv, JackHalted, [ChainNext]_chainVars,
         ModeControl => modePc' = "waitIo" \/ Number[mode_msg'] \in Numbers \ {2}
  PROVE  JackHalted'
<1>0. /\ ~jack_moving /\ paused # 2 /\ Jack!TypeOK
      /\ jack_queue \in Seq(Numbers \ {2}) /\ Len(jack_queue) <= QueueDepth
      /\ \A g \in Goals : pc[g] \notin {"read", "speed"}
  BY DEF JackHalted, Queues, QueuesOK, IsQueue, Jack!IInv
<1>1. CASE ModeControl
  <2>1. UNCHANGED jackVars
    BY <1>1 DEF ModeControl
  <2>2. jack_queue' \in Seq(Numbers \ {2})
    <3>1. CASE modePc' = "waitIo"
      BY <1>0, <1>1, <3>1 DEF ModeControl
    <3>2. CASE modePc' # "waitIo"
      <4>1. Published(jack_queue, Number[mode_msg']) \in Seq(Numbers \ {2})
        BY <1>0, <1>1, <3>2, PublishedType
      <4> QED BY <1>1, <3>2, <4>1 DEF ModeControl
    <3> QED BY <3>1, <3>2
  <2> QED BY <1>0, <2>1, <2>2 DEF JackHalted, jackVars
<1>2. CASE JackMode
  <2>1. /\ jack_queue # <<>> /\ jack_queue' = Tail(jack_queue)
        /\ paused' = Head(jack_queue) /\ UNCHANGED <<pc, jack_moving>>
    BY <1>2 DEF JackMode, Jack!mode_callback, Jack!goalVars
  <2>2. Tail(jack_queue) \in Seq(Numbers \ {2}) /\ Head(jack_queue) \in Numbers \ {2}
    BY <1>0, <2>1, TakenType
  <2> QED BY <1>0, <2>1, <2>2 DEF JackHalted
<1>3. CASE JackOther
  <2>1. UNCHANGED jack_queue
    BY <1>3 DEF JackOther, queues
  <2>2. /\ ~jack_moving' /\ UNCHANGED paused
        /\ \A g \in Goals : pc'[g] \notin {"read", "speed"}
    <3>1. ASSUME NEW h \in Goals, Jack!goal_callback(h)
          PROVE  /\ ~jack_moving' /\ UNCHANGED paused
                 /\ \A g \in Goals : pc'[g] \notin {"read", "speed"}
      BY <1>0, <3>1 DEF Jack!goal_callback, Jack!Goto, Jack!TypeOK
    <3>2. ASSUME NEW h \in Goals, Jack!execute_callback(h)
          PROVE  /\ ~jack_moving' /\ UNCHANGED paused
                 /\ \A g \in Goals : pc'[g] \notin {"read", "speed"}
      BY <1>0, <3>2, GoalHalted
    <3>3. ASSUME \/ \E h \in Goals : Jack!cancel_callback(h) \/ Jack!Expire(h)
                 \/ Jack!monitor_faults \/ Jack!Main \/ Jack!Trip
          PROVE  UNCHANGED <<pc, paused>> /\ ~jack_moving'
      BY <1>0, <3>3
      DEF Jack!cancel_callback, Jack!Expire, Jack!monitor_faults, Jack!Main,
          Jack!Interrupt, Jack!main_stops, Jack!Trip, Jack!stop_motor, Jack!goalVars
    <3> QED BY <1>0, <1>3, <3>1, <3>2, <3>3 DEF JackOther
  <2> QED BY <1>0, <2>1, <2>2 DEF JackHalted
<1>4. CASE ~ModeControl /\ ~JackMode /\ ~JackOther
  <2>1. UNCHANGED <<jackVars, jack_queue>>
    BY <1>4 DEF ChainNext, chainVars, queues, PublishReady, IoSide, ModeReady,
                ModeOther, MotorMode, MotorPermission, MotorOther
  <2> QED BY <1>0, <2>1 DEF JackHalted, jackVars
<1> QED BY <1>1, <1>2, <1>3, <1>4

(* In an emergency and with a faulty device, robot_mode.py publishes only   *)
(* modes that are not to drive in.                                          *)
LEMMA NoModeToDrive ==
  ASSUME Mode!TypeOK, isEmergency_state \/ mode_isSystemReady = 2, ModeControl
  PROVE  modePc' = "waitIo" \/ Number[mode_msg'] \in Numbers \ {2}
<1>1. mode_isSystemReady \in 0 .. 2
  BY DEF Mode!TypeOK, Readiness
<1>2. Mode!DecidedMode \in Mode!EmergencyModes
  BY <1>1 DEF Mode!DecidedMode, Mode!EmergencyModes
<1>3. modePc' = "waitIo" \/ mode_msg' = Mode!DecidedMode
  BY DEF ModeControl, Mode!Control, Mode!Publish
<1> QED BY <1>2, <1>3, EmergencyIsNoModeToDrive

(* Whatever goals jack_action_server.py has accepted or is sent, once it    *)
(* stands still in an emergency, or with a dead IO node, that got through,  *)
(* it is not moved before the emergency ends or the check is turned off.    *)
THEOREM ChainJackHolds == ChainSpec => JackHolds
<1>1. /\ Mode!TypeOK /\ Jack!IInv /\ Queues /\ [ChainNext]_chainVars
      => [(EmergencyThrough \/ FaultThrough) /\ JackHalted => JackHalted']_chainVars
  BY NoModeToDrive, JackStaysHalted DEF EmergencyThrough, FaultThrough
<1> QED BY <1>1, ChainQueued, ChainInvariants, PTL DEF ChainSpec, JackHolds

=============================================================================
