--------------------------- MODULE SlamwareServer ---------------------------
(***************************************************************************)
(* The lifecycle of the ROS node that bridges the SLAMWARE core: the main  *)
(* thread of slamware_ros_sdk_server_node.cpp (startRun, rclcpp::spin with *)
(* its message handlers, requestStop, waitUntilStopped, destructor) and    *)
(* the work thread of SlamwareRosSdkServer (connect, initialise the        *)
(* workers, let them perform, release the connection, reconnect).          *)
(*                                                                         *)
(* The two threads share the platform handle (slamwarePltfm_), the atomics *)
(* state_ and isStopRequested_, the vector of workers and the work data.   *)
(* Each action is one of a thread's steps between two accesses to what is  *)
(* shared.  The SLAMWARE core itself is the environment: it may become     *)
(* unreachable, and a session may break, at any time.                      *)
(***************************************************************************)
EXTENDS Naturals

CONSTANTS
  Sessions,       (* identities of connections to the core                 *)
  NoSession,      (* an empty platform handle or action                    *)
  NumWorkers,     (* workers created by init_, in the order they run       *)
  EagerWorkers,   (* workers whose reinitWorkLoop leaves the base class's  *)
                  (* isWorkLoopInitOk_ = true while it still calls the     *)
                  (* core (Odometry, ImuRawData)                           *)
  MaxLoopTryCnt   (* attempts of reinitWorkLoop_                           *)

ASSUME ServerAssumption ==
  /\ NoSession \notin Sessions
  /\ NumWorkers \in Nat \ {0}
  /\ EagerWorkers \subseteq 1 .. NumWorkers
  /\ MaxLoopTryCnt \in Nat \ {0}

Workers == 1 .. NumWorkers
Handles == Sessions \cup {NoSession}

VelocityTopics == {"RobotControl", "RobotControlNoLimit"}
Topics == VelocityTopics \cup {"Forward"}

(* The guard a topic's handler asks for when it constructs the velocity    *)
(* action: rpos VelocityControlFlag.                                       *)
FlagOf(topic) ==
  IF topic = "RobotControlNoLimit" THEN "NotMonitored" ELSE "Monitored"

EmptyAction == [session |-> NoSession, flag |-> "Monitored"]

VARIABLES
  state,              (* state_                                            *)
  isStopRequested,
  slamwarePltfm,      (* the shared handle, guarded by slamwarePltfmLock_  *)
  workersBuilt,       (* serverWorkers_ is filled                          *)
  workDat,            (* workDat_ is set                                   *)
  mainPc,
  cbTopic, cbPltfm,   (* the handler being run and its copy of the handle  *)
  velocityControllAction,
  workPc,
  pltfm,              (* the work thread's local handle: loopWork_'s copy, *)
                      (* then safeReleaseSlamwarePlatform_'s tmpPltfm      *)
  tryCnt, idx, cntOk, (* loop variables of reinitWorkLoop_ and loopWork_   *)
  isWorkLoopInitOk,   (* the flag of each worker                           *)
  boundWorkers,       (* workers whose reinitWorkLoop ran to its end on    *)
                      (* the session of this work loop                     *)
  rosOk,              (* rclcpp::ok()                                      *)
  healthy,            (* the core is reachable and its links hold          *)
  up,                 (* sessions whose link works                         *)
  open                (* sessions the server has not disconnected          *)

serverVars == <<state, isStopRequested, slamwarePltfm, workersBuilt, workDat>>
cbVars     == <<cbTopic, cbPltfm, velocityControllAction>>
loopVars   == <<pltfm, tryCnt, idx, cntOk, isWorkLoopInitOk, boundWorkers>>
envVars    == <<rosOk, healthy>>
linkVars   == <<up, open>>
vars == <<serverVars, mainPc, cbVars, workPc, loopVars, envVars, linkVars>>

Init ==
  /\ state = "NotInit"
  /\ isStopRequested = FALSE
  /\ slamwarePltfm = NoSession
  /\ workersBuilt = FALSE
  /\ workDat = FALSE
  /\ mainPc = "startRun"
  /\ cbTopic = "Forward"
  /\ cbPltfm = NoSession
  /\ velocityControllAction = EmptyAction
  /\ workPc = "none"
  /\ pltfm = NoSession
  /\ tryCnt = 1 /\ idx = 1 /\ cntOk = 0
  /\ isWorkLoopInitOk = [w \in Workers |-> FALSE]
  /\ boundWorkers = {}
  /\ rosOk = TRUE
  /\ healthy \in BOOLEAN
  /\ up = {}
  /\ open = {}

shouldContinueRunning == ~isStopRequested

-----------------------------------------------------------------------------
(* Connections.  connectSlamwarePlatform_ swallows every exception and      *)
(* returns an empty handle; a healthy core always accepts.  A new session   *)
(* takes an identity that no handle still holds.                            *)

FreshSessions ==
  Sessions \ ({slamwarePltfm, cbPltfm, velocityControllAction.session, pltfm}
              \cup open)

ConnectOk ==
  \E s \in FreshSessions :
    /\ slamwarePltfm' = s
    /\ up' = up \cup {s}
    /\ open' = open \cup {s}

ConnectFailed ==
  /\ ~healthy
  /\ UNCHANGED <<slamwarePltfm, linkVars>>

-----------------------------------------------------------------------------
(* The main thread.                                                         *)

StartRun ==
  /\ mainPc = "startRun"
  /\ state \in {"NotInit", "Stopped"}
  /\ isStopRequested' = FALSE
  /\ workDat' = TRUE
  /\ mainPc' = IF slamwarePltfm = NoSession THEN "connect" ELSE "buildWorkers"
  /\ UNCHANGED <<state, slamwarePltfm, workersBuilt, cbVars, workPc, loopVars,
                 envVars, linkVars>>

(* One turn of loopTryConnectToSlamwarePlatform_ on the caller of startRun: *)
(* it tests only isStopRequested_, never rclcpp::ok().                      *)
MainTryConnect ==
  /\ mainPc = "connect"
  /\ \/ /\ ~shouldContinueRunning
        /\ mainPc' = "buildWorkers"
        /\ UNCHANGED <<slamwarePltfm, linkVars>>
     \/ /\ shouldContinueRunning
        /\ ConnectOk
        /\ mainPc' = "buildWorkers"
     \/ /\ shouldContinueRunning
        /\ ConnectFailed
        /\ mainPc' = "retryWait"
  /\ UNCHANGED <<state, isStopRequested, workersBuilt, workDat, cbVars, workPc,
                 loopVars, envVars>>

(* roughSleepWait_ of reconn_wait_ms.                                       *)
MainRetryWait ==
  /\ mainPc = "retryWait"
  /\ mainPc' = "connect"
  /\ UNCHANGED <<serverVars, cbVars, workPc, loopVars, envVars, linkVars>>

BuildWorkers ==
  /\ mainPc = "buildWorkers"
  /\ workersBuilt' = TRUE
  /\ isWorkLoopInitOk' = [w \in Workers |-> FALSE]
  /\ mainPc' = "setRunning"
  /\ UNCHANGED <<state, isStopRequested, slamwarePltfm, workDat, cbVars, workPc,
                 pltfm, tryCnt, idx, cntOk, boundWorkers, envVars, linkVars>>

SetRunning ==
  /\ mainPc = "setRunning"
  /\ state' = "Running"
  /\ mainPc' = "spawn"
  /\ UNCHANGED <<isStopRequested, slamwarePltfm, workersBuilt, workDat, cbVars,
                 workPc, loopVars, envVars, linkVars>>

SpawnWorkThread ==
  /\ mainPc = "spawn"
  /\ workPc' = "begin"
  /\ mainPc' = "spin"
  /\ UNCHANGED <<serverVars, cbVars, loopVars, envVars, linkVars>>

(* msgCbWrapperFun_T_: a copy of the handle is taken under the lock; with   *)
(* no connection the message is dropped.                                    *)
ReceiveMessage(topic) ==
  /\ mainPc = "spin"
  /\ rosOk
  /\ slamwarePltfm # NoSession
  /\ cbTopic' = topic
  /\ cbPltfm' = slamwarePltfm
  /\ mainPc' = "handler"
  /\ UNCHANGED <<serverVars, velocityControllAction, workPc, loopVars, envVars,
                 linkVars>>

HandlerReturns ==
  /\ mainPc' = "spin"
  /\ cbTopic' = "Forward"
  /\ cbPltfm' = NoSession
  /\ UNCHANGED <<serverVars, workPc, loopVars, envVars, linkVars>>

(* Every handler that only calls the platform it was given: a call on a     *)
(* session that broke meanwhile throws, and the wrapper catches it.         *)
ForwardHandler ==
  /\ mainPc = "handler"
  /\ cbTopic = "Forward"
  /\ HandlerReturns
  /\ UNCHANGED velocityControllAction

(* msgCbRobotControl_ / msgCbRobotControlNoLimit_, first branch: they       *)
(* construct the action from the shared handle, not from the copy they were *)
(* given and without the lock, and drop this message's velocity.            *)
ConstructVelocityAction ==
  /\ mainPc = "handler"
  /\ cbTopic \in VelocityTopics
  /\ velocityControllAction.session = NoSession
  /\ \/ /\ slamwarePltfm \in up
        /\ velocityControllAction' =
             [session |-> slamwarePltfm, flag |-> FlagOf(cbTopic)]
     \/ /\ slamwarePltfm \notin up \/ ~healthy
        /\ UNCHANGED velocityControllAction
  /\ HandlerReturns

(* Second branch: the velocity is sent on the action that exists, whichever *)
(* handler constructed it.                                                  *)
SetVelocity ==
  /\ mainPc = "handler"
  /\ cbTopic \in VelocityTopics
  /\ velocityControllAction.session \in up
  /\ UNCHANGED velocityControllAction
  /\ HandlerReturns

(* Mutant: a failed setVelocity keeps the action.                           *)
MutSetVelocityFailsKeeps ==
  /\ mainPc = "handler"
  /\ cbTopic \in VelocityTopics
  /\ velocityControllAction.session # NoSession
  /\ velocityControllAction.session \notin up \/ ~healthy
  /\ UNCHANGED velocityControllAction
  /\ HandlerReturns

SetVelocityFails ==
  /\ mainPc = "handler"
  /\ cbTopic \in VelocityTopics
  /\ velocityControllAction.session # NoSession
  /\ velocityControllAction.session \notin up \/ ~healthy
  /\ velocityControllAction' = EmptyAction
  /\ HandlerReturns

(* rclcpp::spin returns once ROS is shut down; the handler that runs is     *)
(* completed first.                                                         *)
SpinOver ==
  /\ mainPc = "spin"
  /\ ~rosOk
  /\ mainPc' = "requestStop"
  /\ UNCHANGED <<serverVars, cbVars, workPc, loopVars, envVars, linkVars>>

RequestStop ==
  /\ mainPc = "requestStop"
  /\ isStopRequested' = TRUE
  /\ mainPc' = "waitUntilStopped"
  /\ UNCHANGED <<state, slamwarePltfm, workersBuilt, workDat, cbVars, workPc,
                 loopVars, envVars, linkVars>>

(* Mutant: the work thread is not joined.                                   *)
MutNoJoin ==
  /\ mainPc = "waitUntilStopped"
  /\ mainPc' = "cleanup"
  /\ UNCHANGED <<serverVars, cbVars, workPc, loopVars, envVars, linkVars>>

WaitUntilStopped ==
  /\ mainPc = "waitUntilStopped"
  /\ workPc = "done"
  /\ mainPc' = "cleanup"
  /\ UNCHANGED <<serverVars, cbVars, workPc, loopVars, envVars, linkVars>>

(* The destructor's cleanup_.  The thread is joined already, so its own     *)
(* requestStop and waitUntilStopped have nothing left to do; no other       *)
(* thread is left to see an intermediate state.                             *)
Cleanup ==
  /\ mainPc = "cleanup"
  /\ isStopRequested' = (isStopRequested \/ state = "Running")
  /\ slamwarePltfm' = NoSession
  /\ open' = open \ {slamwarePltfm}
  /\ up' = up \ {slamwarePltfm}
  /\ workersBuilt' = FALSE
  /\ workDat' = FALSE
  /\ state' = "NotInit"
  /\ mainPc' = "exited"
  /\ UNCHANGED <<cbVars, workPc, loopVars, envVars>>

-----------------------------------------------------------------------------
(* The work thread: workThreadFun_, reinitWorkLoop_ and loopWork_.          *)

WorkGoto(pc) == workPc' = pc

WorkBegin ==
  /\ workPc = "begin"
  /\ WorkGoto("loopTest")
  /\ UNCHANGED <<serverVars, mainPc, cbVars, loopVars, envVars, linkVars>>

LoopTest ==
  /\ workPc = "loopTest"
  /\ WorkGoto(IF shouldContinueRunning /\ rosOk THEN "checkConnected" ELSE "end")
  /\ UNCHANGED <<serverVars, mainPc, cbVars, loopVars, envVars, linkVars>>

CheckConnected ==
  /\ workPc = "checkConnected"
  /\ WorkGoto(IF slamwarePltfm = NoSession THEN "connect" ELSE "loopWork")
  /\ UNCHANGED <<serverVars, mainPc, cbVars, loopVars, envVars, linkVars>>

(* Mutant: the retry loop does not test isStopRequested_.                   *)
MutTryConnectForever ==
  /\ workPc = "connect"
  /\ \/ /\ ConnectOk
        /\ WorkGoto("recheckConnected")
     \/ /\ ConnectFailed
        /\ WorkGoto("retryWait")
  /\ UNCHANGED <<state, isStopRequested, workersBuilt, workDat, mainPc, cbVars,
                 loopVars, envVars>>

WorkTryConnect ==
  /\ workPc = "connect"
  /\ \/ /\ ~shouldContinueRunning
        /\ WorkGoto("recheckConnected")
        /\ UNCHANGED <<slamwarePltfm, linkVars>>
     \/ /\ shouldContinueRunning
        /\ ConnectOk
        /\ WorkGoto("recheckConnected")
     \/ /\ shouldContinueRunning
        /\ ConnectFailed
        /\ WorkGoto("retryWait")
  /\ UNCHANGED <<state, isStopRequested, workersBuilt, workDat, mainPc, cbVars,
                 loopVars, envVars>>

WorkRetryWait ==
  /\ workPc = "retryWait"
  /\ WorkGoto("connect")
  /\ UNCHANGED <<serverVars, mainPc, cbVars, loopVars, envVars, linkVars>>

(* Mutant: the connection is taken for granted after the retry loop.        *)
MutNoRecheck ==
  /\ workPc = "recheckConnected"
  /\ WorkGoto("loopWork")
  /\ UNCHANGED <<serverVars, mainPc, cbVars, loopVars, envVars, linkVars>>

RecheckConnected ==
  /\ workPc = "recheckConnected"
  /\ WorkGoto(IF slamwarePltfm = NoSession THEN "loopTest" ELSE "loopWork")
  /\ UNCHANGED <<serverVars, mainPc, cbVars, loopVars, envVars, linkVars>>

(* Mutant: the workers are not reset when a work loop begins.               *)
MutNoReset ==
  /\ workPc = "loopWork"
  /\ pltfm' = slamwarePltfm
  /\ boundWorkers' = {}
  /\ tryCnt' = 1
  /\ WorkGoto("initTest")
  /\ UNCHANGED <<serverVars, mainPc, cbVars, idx, cntOk, isWorkLoopInitOk,
                 envVars, linkVars>>

(* loopWork_ copies the handle; reinitWorkLoop_ resets every worker.        *)
EnterLoopWork ==
  /\ workPc = "loopWork"
  /\ pltfm' = slamwarePltfm
  /\ isWorkLoopInitOk' = [w \in Workers |-> FALSE]
  /\ boundWorkers' = {}
  /\ tryCnt' = 1
  /\ WorkGoto("initTest")
  /\ UNCHANGED <<serverVars, mainPc, cbVars, idx, cntOk, envVars, linkVars>>

(* Mutant: the count of the last attempt is kept.                           *)
MutInitTestKeepsCount ==
  /\ workPc = "initTest"
  /\ WorkGoto(IF tryCnt <= MaxLoopTryCnt /\ shouldContinueRunning
              THEN "initWorker" ELSE "release")
  /\ idx' = 1
  /\ UNCHANGED <<serverVars, mainPc, cbVars, pltfm, tryCnt, cntOk,
                 isWorkLoopInitOk, boundWorkers, envVars, linkVars>>

InitTest ==
  /\ workPc = "initTest"
  /\ WorkGoto(IF tryCnt <= MaxLoopTryCnt /\ shouldContinueRunning
              THEN "initWorker" ELSE "release")
  /\ idx' = 1
  /\ cntOk' = 0
  /\ UNCHANGED <<serverVars, mainPc, cbVars, pltfm, tryCnt, isWorkLoopInitOk,
                 boundWorkers, envVars, linkVars>>

(* A worker whose flag is set counts as initialised and is skipped.         *)
SkipInitialisedWorker ==
  /\ workPc = "initWorker"
  /\ idx \in Workers
  /\ isWorkLoopInitOk[idx]
  /\ cntOk' = cntOk + 1
  /\ idx' = idx + 1
  /\ UNCHANGED <<serverVars, mainPc, cbVars, workPc, pltfm, tryCnt,
                 isWorkLoopInitOk, boundWorkers, envVars, linkVars>>

ReinitWorkerOk ==
  /\ workPc = "initWorker"
  /\ idx \in Workers
  /\ ~isWorkLoopInitOk[idx]
  /\ pltfm \in up
  /\ isWorkLoopInitOk' = [isWorkLoopInitOk EXCEPT ![idx] = TRUE]
  /\ boundWorkers' = boundWorkers \cup {idx}
  /\ cntOk' = cntOk + 1
  /\ idx' = idx + 1
  /\ UNCHANGED <<serverVars, mainPc, cbVars, workPc, pltfm, tryCnt, envVars,
                 linkVars>>

(* reinitWorkLoop returns false or throws something else than a connection  *)
(* exception: the next worker is tried.  The base class has already set the *)
(* flag, and only a worker that is not eager has cleared it again.          *)
ReinitWorkerFails ==
  /\ workPc = "initWorker"
  /\ idx \in Workers
  /\ ~isWorkLoopInitOk[idx]
  /\ ~healthy
  /\ isWorkLoopInitOk' = [isWorkLoopInitOk EXCEPT ![idx] = idx \in EagerWorkers]
  /\ idx' = idx + 1
  /\ UNCHANGED <<serverVars, mainPc, cbVars, workPc, pltfm, tryCnt, cntOk,
                 boundWorkers, envVars, linkVars>>

(* A connection exception (the link broke, or the core timed out) leaves    *)
(* reinitWorkLoop_ and loopWork_ and is caught in workThreadFun_.           *)
ReinitConnectionLost ==
  /\ workPc = "initWorker"
  /\ idx \in Workers
  /\ ~isWorkLoopInitOk[idx]
  /\ pltfm \notin up \/ ~healthy
  /\ isWorkLoopInitOk' = [isWorkLoopInitOk EXCEPT ![idx] = idx \in EagerWorkers]
  /\ WorkGoto("release")
  /\ UNCHANGED <<serverVars, mainPc, cbVars, pltfm, tryCnt, idx, cntOk,
                 boundWorkers, envVars, linkVars>>

CountInitialised ==
  /\ workPc = "initWorker"
  /\ idx = NumWorkers + 1
  /\ tryCnt' = tryCnt + 1
  /\ WorkGoto(IF cntOk = NumWorkers THEN "workTest" ELSE "initTest")
  /\ UNCHANGED <<serverVars, mainPc, cbVars, pltfm, idx, cntOk,
                 isWorkLoopInitOk, boundWorkers, envVars, linkVars>>

WorkTest ==
  /\ workPc = "workTest"
  /\ WorkGoto(IF shouldContinueRunning THEN "perform" ELSE "release")
  /\ idx' = 1
  /\ UNCHANGED <<serverVars, mainPc, cbVars, pltfm, tryCnt, cntOk,
                 isWorkLoopInitOk, boundWorkers, envVars, linkVars>>

(* checkToPerform of one worker; OperationFailException and every other     *)
(* exception that is not about the connection are logged, and the next      *)
(* worker follows.                                                          *)
PerformWorker ==
  /\ workPc = "perform"
  /\ idx \in Workers
  /\ idx' = idx + 1
  /\ UNCHANGED <<serverVars, mainPc, cbVars, workPc, pltfm, tryCnt, cntOk,
                 isWorkLoopInitOk, boundWorkers, envVars, linkVars>>

PerformConnectionLost ==
  /\ workPc = "perform"
  /\ idx \in Workers
  /\ pltfm \notin up \/ ~healthy
  /\ WorkGoto("release")
  /\ UNCHANGED <<serverVars, mainPc, cbVars, loopVars, envVars, linkVars>>

SleepToNextTrigger ==
  /\ workPc = "perform"
  /\ idx = NumWorkers + 1
  /\ WorkGoto("workTest")
  /\ UNCHANGED <<serverVars, mainPc, cbVars, loopVars, envVars, linkVars>>

(* Mutant: the handle is cleared without being taken out for disconnect.    *)
MutReleaseForgets ==
  /\ workPc = "release"
  /\ slamwarePltfm' = NoSession
  /\ pltfm' = NoSession
  /\ WorkGoto("disconnect")
  /\ UNCHANGED <<state, isStopRequested, workersBuilt, workDat, mainPc, cbVars,
                 tryCnt, idx, cntOk, isWorkLoopInitOk, boundWorkers, envVars,
                 linkVars>>

(* Mutant: the session is disconnected but stays the shared handle.         *)
MutReleaseKeepsHandle ==
  /\ workPc = "release"
  /\ pltfm' = slamwarePltfm
  /\ WorkGoto("disconnect")
  /\ UNCHANGED <<serverVars, mainPc, cbVars, tryCnt, idx, cntOk,
                 isWorkLoopInitOk, boundWorkers, envVars, linkVars>>

(* safeReleaseSlamwarePlatform_: the handle is swapped out under the lock   *)
(* and disconnected outside of it.                                          *)
ReleasePlatform ==
  /\ workPc = "release"
  /\ pltfm' = slamwarePltfm
  /\ slamwarePltfm' = NoSession
  /\ WorkGoto("disconnect")
  /\ UNCHANGED <<state, isStopRequested, workersBuilt, workDat, mainPc, cbVars,
                 tryCnt, idx, cntOk, isWorkLoopInitOk, boundWorkers, envVars,
                 linkVars>>

DisconnectPlatform ==
  /\ workPc = "disconnect"
  /\ open' = open \ {pltfm}
  /\ up' = up \ {pltfm}
  /\ pltfm' = NoSession
  /\ WorkGoto("loopTest")
  /\ UNCHANGED <<serverVars, mainPc, cbVars, tryCnt, idx, cntOk,
                 isWorkLoopInitOk, boundWorkers, envVars>>

WorkEnd ==
  /\ workPc = "end"
  /\ state' = "Stopped"
  /\ WorkGoto("done")
  /\ UNCHANGED <<isStopRequested, slamwarePltfm, workersBuilt, workDat, mainPc,
                 cbVars, loopVars, envVars, linkVars>>

-----------------------------------------------------------------------------
(* The environment.                                                         *)

(* SIGINT: rclcpp's handler shuts ROS down.                                 *)
Shutdown ==
  /\ rosOk
  /\ rosOk' = FALSE
  /\ UNCHANGED <<serverVars, mainPc, cbVars, workPc, loopVars, healthy, linkVars>>

CoreFails ==
  /\ healthy
  /\ healthy' = FALSE
  /\ UNCHANGED <<serverVars, mainPc, cbVars, workPc, loopVars, rosOk, linkVars>>

LinkBreaks ==
  /\ ~healthy
  /\ \E s \in up : up' = up \ {s}
  /\ UNCHANGED <<serverVars, mainPc, cbVars, workPc, loopVars, envVars, open>>

CoreRecovers ==
  /\ ~healthy
  /\ healthy' = TRUE
  /\ UNCHANGED <<serverVars, mainPc, cbVars, workPc, loopVars, rosOk, linkVars>>

-----------------------------------------------------------------------------
Handler == ForwardHandler \/ ConstructVelocityAction \/ SetVelocity
           \/ SetVelocityFails

(* What the main thread does by itself, messages aside.                     *)
MainStep ==
  \/ StartRun \/ MainTryConnect \/ MainRetryWait \/ BuildWorkers \/ SetRunning
  \/ SpawnWorkThread \/ Handler \/ SpinOver \/ RequestStop
  \/ WaitUntilStopped \/ Cleanup

ConnectStep == WorkBegin \/ LoopTest \/ CheckConnected \/ WorkTryConnect
               \/ WorkRetryWait \/ RecheckConnected

InitStep == EnterLoopWork \/ InitTest \/ SkipInitialisedWorker \/ ReinitWorkerOk
            \/ ReinitWorkerFails \/ ReinitConnectionLost \/ CountInitialised

PerformStep == WorkTest \/ PerformWorker \/ PerformConnectionLost
               \/ SleepToNextTrigger

WorkStep == ConnectStep \/ InitStep \/ PerformStep \/ ReleasePlatform
            \/ DisconnectPlatform \/ WorkEnd

EnvStep == Shutdown \/ CoreFails \/ LinkBreaks \/ CoreRecovers

Next ==
  \/ MainStep
  \/ \E topic \in Topics : ReceiveMessage(topic)
  \/ WorkStep
  \/ EnvStep

Spec == Init /\ [][Next]_vars

(* Both threads are scheduled, and a call on the core returns (the SDK's    *)
(* calls time out).  A loop that keeps running over a broken link meets it: *)
(* some worker's trigger interval elapses and its call throws.  Nothing is  *)
(* assumed of messages, of the shutdown or of the core.                     *)
Fairness ==
  /\ WF_vars(MainStep)
  /\ WF_vars(WorkStep)
  /\ SF_vars(PerformConnectionLost /\ pltfm \notin up)

FairSpec == Spec /\ Fairness

-----------------------------------------------------------------------------
(* Properties.                                                              *)

MainPcs == {"startRun", "connect", "retryWait", "buildWorkers", "setRunning", "spawn",
            "spin", "handler", "requestStop", "waitUntilStopped", "cleanup",
            "exited"}
WorkPcs == {"none", "begin", "loopTest", "checkConnected", "connect", "retryWait",
            "recheckConnected", "loopWork", "initTest", "initWorker",
            "workTest", "perform", "release", "disconnect", "end", "done"}

(* The type of every variable of the two threads and of the core.           *)
TypeOK ==
  /\ state \in {"NotInit", "Running", "Stopped"}
  /\ isStopRequested \in BOOLEAN
  /\ slamwarePltfm \in Handles
  /\ workersBuilt \in BOOLEAN
  /\ workDat \in BOOLEAN
  /\ mainPc \in MainPcs
  /\ cbTopic \in Topics
  /\ cbPltfm \in Handles
  /\ velocityControllAction \in
       [session : Handles, flag : {"Monitored", "NotMonitored"}]
  /\ workPc \in WorkPcs
  /\ pltfm \in Handles
  /\ tryCnt \in 1 .. MaxLoopTryCnt + 1
  /\ idx \in 1 .. NumWorkers + 1
  /\ cntOk \in 0 .. NumWorkers
  /\ isWorkLoopInitOk \in [Workers -> BOOLEAN]
  /\ boundWorkers \subseteq Workers
  /\ rosOk \in BOOLEAN
  /\ healthy \in BOOLEAN
  /\ up \subseteq Sessions
  /\ open \subseteq Sessions

(* The points at which the work thread iterates over serverWorkers_ with    *)
(* its copy of the handle.                                                  *)
UsingPlatform == workPc \in {"initTest", "initWorker", "workTest", "perform"}

(* The BOOST_ASSERTs of the two threads: the work thread begins in state    *)
(* Running, enters loopWork_ only with a connection although the handle was *)
(* tested without holding its lock, and once main has joined the thread the *)
(* server is not running any more.                                          *)
AssertionsHold ==
  /\ workPc = "begin" => state = "Running"
  /\ workPc = "loopWork" => slamwarePltfm # NoSession
  /\ mainPc = "cleanup" => state # "Running"

(* While the work thread calls the core, the handle it copied is still the  *)
(* shared one and has not been disconnected under it; the workers and the   *)
(* work data it uses exist.                                                 *)
PlatformStableWhileUsed ==
  UsingPlatform => /\ pltfm = slamwarePltfm
                   /\ pltfm \in open
                   /\ workersBuilt
                   /\ workDat

(* No connection to the core is ever forgotten: each one that was opened    *)
(* and not disconnected is the shared handle or the one the work thread is  *)
(* about to disconnect, and none is left when the process ends.             *)
NoSessionLeak ==
  /\ open \subseteq {slamwarePltfm, pltfm}
  /\ mainPc = "exited" => open = {}

(* A worker that performs has completed its initialisation on the session   *)
(* of this work loop, whatever failed or was retried before.  Eager workers *)
(* are left out; AllWorkersBound is about them.                             *)
StrictWorkersBound ==
  workPc \in {"workTest", "perform"} =>
    Workers \ EagerWorkers \subseteq boundWorkers

(* reinitWorkLoop_'s "check if all workers are ok": every worker that       *)
(* performs was initialised on this session.                                *)
AllWorkersBound ==
  workPc \in {"workTest", "perform"} => boundWorkers = Workers

(* A velocity is only ever sent with the guard its topic stands for: a      *)
(* command on the guarded topic never drives the robot unmonitored, nor the *)
(* other way round.                                                         *)
VelocityGuardMatchesTopic ==
  [][SetVelocity => velocityControllAction.flag = FlagOf(cbTopic)]_vars

(* Once the node spins, SIGINT ends the process, whatever the core does.    *)
(* (During startRun it does not: see the README.)                           *)
ShutdownExits == (mainPc = "spin" /\ ~rosOk) ~> mainPc = "exited"

(* If the core stays reachable, the workers perform for ever from some      *)
(* moment on: no retry, stale flag or lost handle wedges the reconnection.  *)
ReconnectionSettles ==
  <>[](healthy /\ rosOk) => <>[](workPc \in {"workTest", "perform"})

(* If moreover velocities keep coming, the velocity action is eventually    *)
(* one of the session in use: the action of a dead session does not stay.   *)
TeleoperationRecovers ==
  (/\ <>[](healthy /\ rosOk)
   /\ []<>(mainPc = "handler" /\ cbTopic \in VelocityTopics))
    => <>[](velocityControllAction.session = slamwarePltfm)

-----------------------------------------------------------------------------
(* The inductive invariant of SlamwareServerProofs, in named parts.          *)

Starting == {"startRun", "connect", "retryWait", "buildWorkers", "setRunning",
             "spawn"}

(* The threads run one after the other outside of the spin phase.           *)
ThreadPhases ==
  /\ mainPc \in Starting <=> workPc = "none"
  /\ mainPc \in {"cleanup", "exited"} => workPc = "done"
  /\ isStopRequested => mainPc \in {"waitUntilStopped", "cleanup", "exited"}

(* state_ is determined by where the threads are.                           *)
StateFollowsThreads ==
  /\ mainPc \in Starting \ {"spawn"} => state = "NotInit"
  /\ mainPc = "spawn" => state = "Running"
  /\ mainPc \notin Starting \cup {"exited"} =>
       state = IF workPc = "done" THEN "Stopped" ELSE "Running"
  /\ mainPc = "exited" => state = "NotInit"

(* Who writes the handle when: main before the thread exists and after it   *)
(* was joined, the work thread in between.                                  *)
HandleOwnership ==
  /\ mainPc \in {"startRun", "connect", "retryWait", "exited"}
       => slamwarePltfm = NoSession
  /\ mainPc \in {"buildWorkers", "setRunning", "spawn"}
       => slamwarePltfm # NoSession
  /\ workPc \in {"connect", "retryWait", "disconnect"}
       => slamwarePltfm = NoSession
  /\ workPc \in {"loopWork", "release"} => slamwarePltfm # NoSession
  /\ UsingPlatform => slamwarePltfm # NoSession /\ pltfm = slamwarePltfm
  /\ workPc = "release" => pltfm = slamwarePltfm
  /\ ~UsingPlatform /\ workPc \notin {"release", "disconnect"}
       => pltfm = NoSession
  /\ open = {slamwarePltfm, pltfm} \ {NoSession}

(* What init_ built lasts until cleanup_.                                   *)
Built ==
  mainPc \notin {"startRun", "connect", "retryWait", "buildWorkers", "exited"}
    => workersBuilt /\ workDat

BuiltWorkDat ==
  mainPc \in {"connect", "retryWait", "buildWorkers"} => workDat

(* The count of reinitWorkLoop_ reaches NumWorkers only when every flag is  *)
(* set, and the flag of a worker that is not eager tells the truth.         *)
CountIsHonest ==
  /\ workPc = "initWorker" =>
       /\ cntOk <= idx - 1
       /\ cntOk = idx - 1 => \A w \in 1 .. idx - 1 : isWorkLoopInitOk[w]
  /\ workPc \in {"workTest", "perform"} => \A w \in Workers : isWorkLoopInitOk[w]
  /\ UsingPlatform =>
       \A w \in Workers \ EagerWorkers : isWorkLoopInitOk[w] => w \in boundWorkers

TryCntInRange == workPc = "initWorker" => tryCnt <= MaxLoopTryCnt

IInv ==
  /\ TypeOK
  /\ ThreadPhases
  /\ StateFollowsThreads
  /\ HandleOwnership
  /\ Built
  /\ BuiltWorkDat
  /\ CountIsHonest
  /\ TryCntInRange

=============================================================================
