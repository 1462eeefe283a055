-------------------------- MODULE RobotModeProofs --------------------------
(***************************************************************************)
(* For queues of any depth, any requests and any values of diagnostics:    *)
(* the node never calls io_service; and an emergency it knows of is shown  *)
(* after at most one more publication.                                     *)
(***************************************************************************)
EXTENDS RobotMode, SequenceTheorems, TLAPS

USE QueueDepthAssumption, ReadyValuesAssumption

(* A publication keeps a queue within its type and depth; taking the first  *)
(* message off it gives a message and leaves a queue.                       *)
LEMMA PublishedType ==
  ASSUME NEW S, NEW q \in Seq(S), Len(q) <= QueueDepth, NEW m \in S
  PROVE  Published(q, m) \in Seq(S) /\ Len(Published(q, m)) <= QueueDepth
  BY EmptySeq DEF Published

LEMMA TakenType ==
  ASSUME NEW S, NEW q \in Seq(S), Len(q) <= QueueDepth, q # <<>>
  PROVE  Head(q) \in S /\ Tail(q) \in Seq(S) /\ Len(Tail(q)) <= QueueDepth
  BY HeadTailProperties

(* Reports that do not show a charger with the relays closed.               *)
CleanStatus == {s \in Status : ~(s.charge /\ s.relays)}

ReportsClean == ~missed => status_io \in Seq(CleanStatus)
AboutToReportClean == ioPc = "report" /\ coils /\ ~missed => Safe(seen)
FlagsClean == ~missed => ~CallsIo

(* A late publication is of an emergency that lasts and that the cycle, if  *)
(* past its look at the button, has noted.                                  *)
LateIsNoted ==
  late = 1 => /\ isMCUEmergency /\ isSystemReady_comeup
              /\ sequence = "control" => isEmergency_state

ChargeInv == ReportsClean /\ AboutToReportClean /\ FlagsClean /\ NeverWaitsForIo
LateInv == EmergencyLatency /\ LateIsNoted

IInv == TypeOK /\ ChargeInv

-----------------------------------------------------------------------------
LEMMA InitIInv == Init => IInv /\ LateInv
<1> SUFFICES ASSUME Init PROVE IInv /\ LateInv
  OBVIOUS
<1> USE DEF Init, Port!Init
<1>1. /\ <<>> \in Seq(BOOLEAN) /\ <<>> \in Seq(Status) /\ <<>> \in Seq(CleanStatus)
      /\ Len(<<>>) <= QueueDepth
  BY EmptySeq
<1>2. TopicsOK
  BY <1>1, Zenon DEF TopicsOK
<1>3. seen \in Seen /\ current_mode \in Modes \ {"NONE"} /\ mode_msg \in Modes
  BY DEF Seen, Modes, EmergencyModes
<1>4. TypeOK
  <2>1. isSystemReady = 0 /\ late = 0
        /\ isSystemReady_comeup \in BOOLEAN /\ allowed_master_on \in BOOLEAN
    OBVIOUS
  <2>2. isMCUEmergency \in BOOLEAN /\ isMasterOnSys \in BOOLEAN
        /\ isMCUMaster_on_done \in BOOLEAN /\ isEmergency_state \in BOOLEAN
        /\ isEmerCharge_state \in BOOLEAN /\ isEmergency_case_active \in BOOLEAN
        /\ isPause \in BOOLEAN /\ coils \in BOOLEAN /\ missed \in BOOLEAN
    OBVIOUS
  <2>3. ioPc = "idle" /\ modePc = "spinning" /\ sequence = "emerCharge"
    OBVIOUS
  <2> HIDE DEF Init, Port!Init
  <2> QED BY <1>2, <1>3, <2>1, <2>2, <2>3 DEF TypeOK
<1>5. ChargeInv
  BY <1>1 DEF ChargeInv, ReportsClean, AboutToReportClean, FlagsClean, CallsIo,
              NeverWaitsForIo
<1>6. LateInv
  BY DEF LateInv, EmergencyLatency, LateIsNoted
<1> QED BY <1>4, <1>5, <1>6 DEF IInv

LEMMA IoStepIInv == IInv /\ IoStep => IInv'
<1> SUFFICES ASSUME IInv, IoStep PROVE IInv'
  OBVIOUS
<1> USE DEF IInv, TypeOK, TopicsOK, ChargeInv, ReportsClean, AboutToReportClean,
            FlagsClean, NeverWaitsForIo, CallsIo, IoStep, readyVars, ioFlags,
            stateFlags, requestVars, published, Port!topics, Safe, Port!Safe
<1>1. CASE Port!Poll
  <2>1. seen' \in Seen /\ seen'.ok \in BOOLEAN
    BY <1>1 DEF Port!Poll, Port!Seen, Seen
  <2>2. emergency_io' \in Seq(BOOLEAN) /\ Len(emergency_io') <= QueueDepth
    BY <1>1, <2>1, PublishedType DEF Port!Poll, Port!Published, Published
  <2> QED BY <1>1, <2>1, <2>2 DEF Port!Poll
<1>2. CASE Port!Write
  <2>1. coils' \in BOOLEAN /\ missed' \in BOOLEAN /\ (missed => missed')
        /\ (coils' /\ ~missed' => Safe(seen))
    BY <1>2, Zenon DEF Port!Write
  <2> QED BY <1>2, <2>1 DEF Port!Write
<1>3. CASE Port!Report
  <2> DEFINE s == [charge |-> seen.charge, relays |-> coils]
  <2>1. s \in Status
    BY DEF Seen, Status
  <2>2. ~missed => s \in CleanStatus
    BY <1>3, <2>1 DEF CleanStatus, Port!Report
  <2>3. status_io' = Published(status_io, s)
    BY <1>3 DEF Port!Report, Port!Published, Published
  <2>4. status_io' \in Seq(Status) /\ Len(status_io') <= QueueDepth
    BY <2>1, <2>3, PublishedType
  <2>5. ~missed => status_io' \in Seq(CleanStatus)
    BY <2>2, <2>3, PublishedType
  <2> QED BY <1>3, <2>4, <2>5 DEF Port!Report
<1>4. CASE Port!Fail
  BY <1>4 DEF Port!Fail
<1>5. CASE Port!End
  <2>1. coils' \in BOOLEAN /\ missed' \in BOOLEAN /\ (missed => missed')
    BY <1>5, Zenon DEF Port!End
  <2> QED BY <1>5, <2>1 DEF Port!End
<1> QED BY <1>1, <1>2, <1>3, <1>4, <1>5 DEF Port!Next

LEMMA CallbackIInv ==
  IInv /\ (emergency_callback \/ io_status_cb \/ system_ready) => IInv'
<1> SUFFICES ASSUME IInv, emergency_callback \/ io_status_cb \/ system_ready
             PROVE  IInv'
  OBVIOUS
<1> USE DEF IInv, TypeOK, TopicsOK, ChargeInv, ReportsClean, AboutToReportClean,
            FlagsClean, NeverWaitsForIo, CallsIo, Spinning, topics, portVars,
            readyVars, ioFlags, stateFlags, requestVars, published, Safe
<1>1. CASE emergency_callback
  <2>1. /\ Head(emergency_io) \in BOOLEAN
        /\ Tail(emergency_io) \in Seq(BOOLEAN) /\ Len(Tail(emergency_io)) <= QueueDepth
    BY <1>1, TakenType DEF emergency_callback
  <2>2. isMCUEmergency' \in BOOLEAN
    BY <1>1, Zenon DEF emergency_callback
  <2>3. late' = late \/ late' = 0
    BY <1>1, Zenon DEF emergency_callback
  <2>4. /\ emergency_io' = Tail(emergency_io)
        /\ UNCHANGED <<status_io, portVars, modePc, sequence, readyVars, isMasterOnSys,
                       isMCUMaster_on_done, stateFlags, requestVars, mode_msg,
                       allowed_master_on>>
    BY <1>1, Zenon DEF emergency_callback
  <2> QED BY <2>1, <2>2, <2>3, <2>4
<1>2. CASE io_status_cb
  <2>1. /\ Head(status_io) \in Status
        /\ Tail(status_io) \in Seq(Status) /\ Len(Tail(status_io)) <= QueueDepth
    BY <1>2, TakenType DEF io_status_cb
  <2>2. ~missed => Head(status_io) \in CleanStatus /\ Tail(status_io) \in Seq(CleanStatus)
    BY <1>2, TakenType DEF io_status_cb
  <2>3. /\ Head(status_io).charge \in BOOLEAN /\ Head(status_io).relays \in BOOLEAN
        /\ ~missed => ~(Head(status_io).charge /\ Head(status_io).relays)
    BY <2>1, <2>2 DEF Status, CleanStatus
  <2> QED BY <1>2, <2>1, <2>2, <2>3 DEF io_status_cb
<1>3. CASE system_ready
  BY <1>3 DEF system_ready
<1> QED BY <1>1, <1>2, <1>3

LEMMA RequestIInv == IInv /\ Request => IInv'
<1> SUFFICES ASSUME IInv, Request PROVE IInv'
  OBVIOUS
<1> USE DEF IInv, TypeOK, TopicsOK, ChargeInv, ReportsClean, AboutToReportClean,
            FlagsClean, NeverWaitsForIo, CallsIo, Spinning, topics, portVars,
            readyVars, ioFlags, stateFlags, requestVars, published, Safe
<1>1. isPause' \in BOOLEAN /\ isEmergency_case_active' \in BOOLEAN
  BY Zenon DEF Request, Pause, NormalMode, EmergencyCase, Docking, StopMovement
<1>2. current_mode' \in Modes \ {"NONE"}
  BY DEF Request, Pause, NormalMode, EmergencyCase, Docking, StopMovement,
         Modes, EmergencyModes
<1>3. modePc' \in {"spinning", "waitAction"}
  BY DEF Request, Pause, NormalMode, EmergencyCase, Docking, StopMovement
<1> QED BY <1>1, <1>2, <1>3 DEF Request

LEMMA CycleIInv == IInv /\ Cycle => IInv'
<1> SUFFICES ASSUME IInv, Cycle PROVE IInv'
  OBVIOUS
<1> USE DEF IInv, TypeOK, TopicsOK, ChargeInv, ReportsClean, AboutToReportClean,
            FlagsClean, NeverWaitsForIo, CallsIo, Spinning, topics, portVars,
            readyVars, ioFlags, stateFlags, requestVars, published, Safe
<1>1. CASE CheckEmerCharge
  BY <1>1 DEF CheckEmerCharge
<1>2. CASE CheckButton
  <2>1. current_mode' \in Modes \ {"NONE"}
    BY <1>2 DEF CheckButton, ButtonPressed, ButtonReleased, Modes, EmergencyModes
  <2>2. isEmergency_state' \in BOOLEAN /\ isEmergency_case_active' \in BOOLEAN
    BY <1>2 DEF CheckButton, ButtonPressed, ButtonReleased
  <2> QED BY <1>2, <2>1, <2>2 DEF CheckButton
<1>3. CASE Control
  <2>1. DecidedMode \in Modes /\ AllowsMasterOn \in BOOLEAN
    BY DEF DecidedMode, AllowsMasterOn, Modes, EmergencyModes
  <2>2. isEmergency_case_active' \in BOOLEAN /\ isPause' \in BOOLEAN
    BY <1>3 DEF Control
  <2>3. CASE ClearsEmerState /\ CallsIo
    BY <1>3, <2>2, <2>3 DEF Control
  <2>4. ASSUME NEW moving \in BOOLEAN, Publish(moving), ~(ClearsEmerState /\ CallsIo)
        PROVE  IInv'
    <3>1. mode_msg' \in Modes /\ allowed_master_on' \in BOOLEAN /\ late' \in 0 .. 2
          /\ modePc' \in {"spinning", "crashed"}
          /\ sequence' \in {"emerCharge", "button", "control"}
      BY <1>3, <2>1, <2>4 DEF Publish, Control
    <3> QED BY <1>3, <2>2, <3>1 DEF Control
  <2> QED BY <1>3, <2>3, <2>4 DEF Control
<1> QED BY <1>1, <1>2, <1>3 DEF Cycle

LEMMA NextIInv == IInv /\ [Next]_vars => IInv'
<1> SUFFICES ASSUME IInv, UNCHANGED vars PROVE IInv'
  BY IoStepIInv, CallbackIInv, RequestIInv, CycleIInv DEF Next
<1> QED
  BY DEF IInv, TypeOK, TopicsOK, ChargeInv, ReportsClean, AboutToReportClean,
         FlagsClean, NeverWaitsForIo, CallsIo, vars, topics, portVars, readyVars,
         ioFlags, stateFlags, requestVars, published, Safe

-----------------------------------------------------------------------------
LEMMA NextLateInv ==
  ASSUME 3 \notin ReadyValues
  PROVE  TypeOK /\ LateInv /\ [Next]_vars => LateInv'
<1> SUFFICES ASSUME TypeOK, LateInv, [Next]_vars PROVE LateInv'
  OBVIOUS
<1> USE DEF LateInv, EmergencyLatency, LateIsNoted, readyVars, ioFlags, stateFlags,
            requestVars, published
<1>1. CASE IoStep
  BY <1>1 DEF IoStep
<1>2. CASE emergency_callback
  <2>1. CASE isMCUEmergency'
    BY <1>2, <2>1 DEF emergency_callback
  <2>2. CASE ~isMCUEmergency'
    <3>1. late' = 0
      BY <1>2, <2>2, Zenon DEF emergency_callback
    <3> QED BY <3>1
  <2> QED BY <2>1, <2>2
<1>3. CASE io_status_cb
  BY <1>3 DEF io_status_cb
<1>4. CASE system_ready
  BY <1>4 DEF system_ready
<1>5. CASE Request
  BY <1>5 DEF Request
<1>6. CASE CheckEmerCharge
  BY <1>6 DEF CheckEmerCharge
<1>7. CASE CheckButton
  BY <1>7 DEF CheckButton, ButtonPressed, ButtonReleased, TypeOK
<1>8. CASE Control
  <2>1. isSystemReady \in 0 .. 2
    BY DEF TypeOK
  <2>2. isEmergency_state => DecidedMode \in EmergencyModes /\ ~AllowsMasterOn
    BY <2>1 DEF DecidedMode, AllowsMasterOn, EmergencyModes
  <2>3. CASE ClearsEmerState /\ CallsIo
    BY <1>8, <2>3 DEF Control
  <2>4. ASSUME NEW moving \in BOOLEAN, Publish(moving) PROVE LateInv'
    BY <1>8, <2>2, <2>4 DEF Control, Publish, TypeOK
  <2> QED BY <1>8, <2>3, <2>4 DEF Control
<1>9. CASE UNCHANGED vars
  BY <1>9 DEF vars
<1> QED
  BY <1>1, <1>2, <1>3, <1>4, <1>5, <1>6, <1>7, <1>8, <1>9 DEF Next, Cycle

-----------------------------------------------------------------------------
(* Every variable keeps its type, and no queue grows beyond its depth.      *)
THEOREM TypeCorrect == Spec => []TypeOK
<1>1. Init => IInv
  BY InitIInv
<1>2. IInv => TypeOK
  BY DEF IInv
<1> QED BY <1>1, NextIInv, <1>2, PTL DEF Spec

(* check_emer_charge and clear_emer_state of robot_mode.py never wait for   *)
(* io_service, as long as no frame to the relays is lost.                   *)
THEOREM IoNeverWaitedFor == Spec => []NeverWaitsForIo
<1>1. Init => IInv
  BY InitIInv
<1>2. IInv => NeverWaitsForIo
  BY DEF IInv, ChargeInv
<1> QED BY <1>1, NextIInv, <1>2, PTL DEF Spec

(* With diagnostics that only say ready, not used or fault, at most one     *)
(* publication of mode_manager misses an emergency the node knows of.       *)
THEOREM EmergencyIsPrompt ==
  ASSUME 3 \notin ReadyValues
  PROVE  Spec => []EmergencyLatency
<1>1. Init => IInv /\ LateInv
  BY InitIInv
<1>2. IInv /\ LateInv /\ [Next]_vars => IInv' /\ LateInv'
  BY NextIInv, NextLateInv DEF IInv
<1>3. LateInv => EmergencyLatency
  BY DEF LateInv
<1> QED BY <1>1, <1>2, <1>3, PTL DEF Spec

=============================================================================
