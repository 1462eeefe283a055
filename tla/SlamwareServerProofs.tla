------------------------ MODULE SlamwareServerProofs ------------------------
(***************************************************************************)
(* Proofs about SlamwareServer, for any number of workers, sessions and    *)
(* initialisation attempts: the inductive invariant IInv, and from it the  *)
(* type invariant and the safety invariants the runs check.                *)
(***************************************************************************)
EXTENDS SlamwareServer, TLAPS

USE ServerAssumption DEF Workers, Handles, Topics, VelocityTopics

LEMMA InitIInv == Init => IInv
<1> SUFFICES ASSUME Init PROVE IInv
  OBVIOUS
<1> USE DEF Init
<1>1. TypeOK
  <2>1. tryCnt \in 1 .. MaxLoopTryCnt + 1 /\ idx \in 1 .. NumWorkers + 1
        /\ cntOk \in 0 .. NumWorkers
    OBVIOUS
  <2>2. velocityControllAction \in
          [session : Handles, flag : {"Monitored", "NotMonitored"}]
    BY DEF EmptyAction
  <2>3. isWorkLoopInitOk \in [Workers -> BOOLEAN]
    OBVIOUS
  <2>4. QED
    BY <2>1, <2>2, <2>3 DEF TypeOK, MainPcs, WorkPcs
<1>2. ThreadPhases /\ StateFollowsThreads
  BY DEF ThreadPhases, StateFollowsThreads, Starting
<1>3. HandleOwnership
  BY DEF HandleOwnership, UsingPlatform
<1>4. Built /\ BuiltWorkDat /\ CountIsHonest /\ TryCntInRange
  BY DEF Built, BuiltWorkDat, CountIsHonest, TryCntInRange, UsingPlatform
<1>5. QED
  BY <1>1, <1>2, <1>3, <1>4 DEF IInv

(* Every step of the main thread preserves the invariant.                   *)
LEMMA MainStepIInv == IInv /\ MainStep => IInv'
<1> SUFFICES ASSUME IInv, MainStep PROVE IInv'
  OBVIOUS
<1> USE DEF IInv, TypeOK, ThreadPhases, StateFollowsThreads, HandleOwnership,
            Built, BuiltWorkDat, CountIsHonest, TryCntInRange, MainPcs, WorkPcs,
            Starting, UsingPlatform, EmptyAction, FlagOf,
            serverVars, cbVars, loopVars, envVars, linkVars, vars,
            shouldContinueRunning, FreshSessions, ConnectOk, ConnectFailed,
            HandlerReturns
<1>1. CASE StartRun
  BY <1>1 DEF StartRun
<1>2. CASE MainTryConnect
  BY <1>2 DEF MainTryConnect
<1>3. CASE MainRetryWait
  BY <1>3 DEF MainRetryWait
<1>4. CASE BuildWorkers
  BY <1>4 DEF BuildWorkers
<1>5. CASE SetRunning
  BY <1>5 DEF SetRunning
<1>6. CASE SpawnWorkThread
  BY <1>6 DEF SpawnWorkThread
<1>7. CASE ForwardHandler
  BY <1>7 DEF ForwardHandler
<1>8. CASE ConstructVelocityAction
  BY <1>8 DEF ConstructVelocityAction
<1>9. CASE SetVelocity
  BY <1>9 DEF SetVelocity
<1>10. CASE SetVelocityFails
  BY <1>10 DEF SetVelocityFails
<1>11. CASE SpinOver
  BY <1>11 DEF SpinOver
<1>12. CASE RequestStop
  BY <1>12 DEF RequestStop
<1>13. CASE WaitUntilStopped
  BY <1>13 DEF WaitUntilStopped
<1>14. CASE Cleanup
  BY <1>14 DEF Cleanup
<1>15. QED
  BY <1>1, <1>2, <1>3, <1>4, <1>5, <1>6, <1>7, <1>8, <1>9, <1>10, <1>11, <1>12,
     <1>13, <1>14 DEF MainStep, Handler

(* So does every step of the work thread.                                   *)
LEMMA WorkStepIInv == IInv /\ WorkStep => IInv'
<1> SUFFICES ASSUME IInv, WorkStep PROVE IInv'
  OBVIOUS
<1> USE DEF IInv, TypeOK, ThreadPhases, StateFollowsThreads, HandleOwnership,
            Built, BuiltWorkDat, CountIsHonest, TryCntInRange, MainPcs, WorkPcs,
            Starting, UsingPlatform, WorkGoto,
            serverVars, cbVars, loopVars, envVars, linkVars, vars,
            shouldContinueRunning, FreshSessions, ConnectOk, ConnectFailed
<1>1. CASE WorkBegin
  BY <1>1 DEF WorkBegin
<1>2. CASE LoopTest
  BY <1>2 DEF LoopTest
<1>3. CASE CheckConnected
  BY <1>3 DEF CheckConnected
<1>4. CASE WorkTryConnect
  BY <1>4 DEF WorkTryConnect
<1>5. CASE WorkRetryWait
  BY <1>5 DEF WorkRetryWait
<1>6. CASE RecheckConnected
  BY <1>6 DEF RecheckConnected
<1>7. CASE EnterLoopWork
  BY <1>7 DEF EnterLoopWork
<1>8. CASE InitTest
  BY <1>8 DEF InitTest
<1>9. CASE SkipInitialisedWorker
  BY <1>9 DEF SkipInitialisedWorker
<1>10. CASE ReinitWorkerOk
  BY <1>10 DEF ReinitWorkerOk
<1>11. CASE ReinitWorkerFails
  BY <1>11 DEF ReinitWorkerFails
<1>12. CASE ReinitConnectionLost
  BY <1>12 DEF ReinitConnectionLost
<1>13. CASE CountInitialised
  BY <1>13 DEF CountInitialised
<1>14. CASE WorkTest
  BY <1>14 DEF WorkTest
<1>15. CASE PerformWorker
  BY <1>15 DEF PerformWorker
<1>16. CASE PerformConnectionLost
  BY <1>16 DEF PerformConnectionLost
<1>17. CASE SleepToNextTrigger
  BY <1>17 DEF SleepToNextTrigger
<1>18. CASE ReleasePlatform
  BY <1>18 DEF ReleasePlatform
<1>19. CASE DisconnectPlatform
  BY <1>19 DEF DisconnectPlatform
<1>20. CASE WorkEnd
  BY <1>20 DEF WorkEnd
<1>21. QED
  BY <1>1, <1>2, <1>3, <1>4, <1>5, <1>6, <1>7, <1>8, <1>9, <1>10, <1>11,
     <1>12, <1>13, <1>14, <1>15, <1>16, <1>17, <1>18, <1>19, <1>20
     DEF WorkStep, ConnectStep, InitStep, PerformStep

(* An arriving message, and whatever the core or a signal does, too.        *)
LEMMA MessageIInv ==
  ASSUME NEW topic \in Topics, IInv, ReceiveMessage(topic)
  PROVE  IInv'
<1> USE DEF IInv, ReceiveMessage, serverVars, loopVars, envVars, linkVars
<1>1. TypeOK'
  BY DEF TypeOK, MainPcs
<1>2. ThreadPhases' /\ StateFollowsThreads' /\ HandleOwnership'
  BY DEF ThreadPhases, StateFollowsThreads, HandleOwnership, Starting,
         UsingPlatform
<1>3. Built' /\ BuiltWorkDat' /\ CountIsHonest' /\ TryCntInRange'
  BY DEF Built, BuiltWorkDat, CountIsHonest, TryCntInRange, UsingPlatform
<1>4. QED
  BY <1>1, <1>2, <1>3

LEMMA EnvStepIInv == IInv /\ EnvStep => IInv'
<1> SUFFICES ASSUME IInv, EnvStep PROVE IInv'
  OBVIOUS
<1>1. /\ UNCHANGED <<serverVars, mainPc, cbVars, workPc, loopVars, open>>
      /\ up' \subseteq up
      /\ rosOk' \in BOOLEAN /\ healthy' \in BOOLEAN
  BY DEF EnvStep, Shutdown, CoreFails, LinkBreaks, CoreRecovers, envVars,
         linkVars, IInv, TypeOK
<1>2. TypeOK'
  BY <1>1 DEF IInv, TypeOK, serverVars, cbVars, loopVars
<1>3. /\ ThreadPhases' /\ StateFollowsThreads' /\ HandleOwnership'
      /\ Built' /\ BuiltWorkDat' /\ CountIsHonest' /\ TryCntInRange'
  BY <1>1 DEF IInv, ThreadPhases, StateFollowsThreads, HandleOwnership, Built,
       BuiltWorkDat, CountIsHonest, TryCntInRange, UsingPlatform, serverVars,
       loopVars
<1>4. QED
  BY <1>2, <1>3 DEF IInv

(* The inductive invariant holds in every reachable state.                  *)
THEOREM InductiveInvariant == Spec => []IInv
<1>1. IInv /\ [Next]_vars => IInv'
  <2> SUFFICES ASSUME IInv, [Next]_vars PROVE IInv'
    OBVIOUS
  <2>1. CASE Next
    BY <2>1, MainStepIInv, WorkStepIInv, MessageIInv, EnvStepIInv DEF Next
  <2>2. CASE UNCHANGED vars
    BY <2>2 DEF vars, serverVars, cbVars, loopVars, envVars, linkVars, IInv,
         TypeOK, ThreadPhases, StateFollowsThreads, HandleOwnership, Built,
         BuiltWorkDat, CountIsHonest, TryCntInRange, UsingPlatform
  <2>3. QED
    BY <2>1, <2>2
<1>2. QED
  BY InitIInv, <1>1, PTL DEF Spec

(* Every variable keeps its type.                                           *)
THEOREM TypeCorrectness == Spec => []TypeOK
<1>1. IInv => TypeOK
  BY DEF IInv
<1>2. QED
  BY <1>1, InductiveInvariant, PTL

(* The BOOST_ASSERTs of startRun, workThreadFun_, loopWork_ and             *)
(* waitUntilStopped never fail.                                             *)
THEOREM AssertionsNeverFail == Spec => []AssertionsHold
<1>1. IInv => AssertionsHold
  BY DEF IInv, AssertionsHold, ThreadPhases, StateFollowsThreads,
         HandleOwnership, Starting
<1>2. QED
  BY <1>1, InductiveInvariant, PTL

(* The handle the work thread uses stays shared and connected, and the      *)
(* workers it iterates over exist.                                          *)
THEOREM PlatformStability == Spec => []PlatformStableWhileUsed
<1>1. IInv => PlatformStableWhileUsed
  <2> SUFFICES ASSUME IInv, UsingPlatform PROVE PlatformStableWhileUsed
    BY DEF PlatformStableWhileUsed
  <2>1. pltfm = slamwarePltfm /\ pltfm \in open
    BY DEF IInv, HandleOwnership
  <2>2. mainPc \notin Starting \cup {"cleanup", "exited"}
    BY DEF IInv, ThreadPhases, UsingPlatform
  <2>3. workersBuilt /\ workDat
    BY <2>2 DEF IInv, Built, Starting
  <2>4. QED
    BY <2>1, <2>3 DEF PlatformStableWhileUsed
<1>2. QED
  BY <1>1, InductiveInvariant, PTL

(* No connection is left open and forgotten.                                *)
THEOREM SessionsAccountedFor == Spec => []NoSessionLeak
<1>1. IInv => NoSessionLeak
  <2> SUFFICES ASSUME IInv PROVE NoSessionLeak
    OBVIOUS
  <2>1. open \subseteq {slamwarePltfm, pltfm}
    BY DEF IInv, HandleOwnership
  <2>2. ASSUME mainPc = "exited" PROVE open = {}
    <3>1. slamwarePltfm = NoSession /\ workPc = "done"
      BY <2>2 DEF IInv, HandleOwnership, ThreadPhases
    <3>2. pltfm = NoSession
      BY <3>1 DEF IInv, HandleOwnership, UsingPlatform
    <3>3. QED
      BY <3>1, <3>2 DEF IInv, HandleOwnership
  <2>3. QED
    BY <2>1, <2>2 DEF NoSessionLeak
<1>2. QED
  BY <1>1, InductiveInvariant, PTL

(* A worker that is not eager performs only after it was initialised on     *)
(* this session.                                                            *)
THEOREM StrictWorkersInitialised == Spec => []StrictWorkersBound
<1>1. IInv => StrictWorkersBound
  BY DEF IInv, StrictWorkersBound, CountIsHonest, UsingPlatform
<1>2. QED
  BY <1>1, InductiveInvariant, PTL
=============================================================================
