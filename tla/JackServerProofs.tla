-------------------------- MODULE JackServerProofs --------------------------
(***************************************************************************)
(* For any goals and modes: the jack stands still when the last goal is    *)
(* done, and a goal commands at most one speed late.                       *)
(***************************************************************************)
EXTENDS JackServer, TLAPS

USE ModesAssumption

-----------------------------------------------------------------------------
(* A goal that has commanded a speed late comes by the look at the mode     *)
(* before the next.                                                         *)
LateIsPast ==
  \A g \in Goals : \/ late[g] = 0
                   \/ late[g] = 1 /\ paused # 2 /\ pc[g] \notin {"read", "speed"}

IInv == TypeOK /\ LateIsPast /\ StopsWithLastGoal

Positions == {"unsent", "loop", "paused", "read", "speed", "feedback", "done"}

LEMMA InitIInv == Init => IInv
<1> SUFFICES ASSUME Init PROVE IInv
  OBVIOUS
<1>1. TypeOK
  <2>1. /\ ok \in BOOLEAN /\ moving \in BOOLEAN /\ enabled \in BOOLEAN
        /\ threw \in BOOLEAN
    BY Zenon DEF Init
  <2>2. is_cancel_requested \in [Goals -> BOOLEAN] /\ expired \in [Goals -> BOOLEAN]
    BY Zenon DEF Init
  <2> QED BY <2>1, <2>2 DEF Init, TypeOK
<1>2. LateIsPast /\ StopsWithLastGoal
  BY DEF Init, LateIsPast, StopsWithLastGoal
<1> QED BY <1>1, <1>2 DEF IInv

-----------------------------------------------------------------------------
LEMMA GotoMoves ==
  ASSUME TypeOK, NEW g \in Goals, NEW where \in Positions, Goto(g, where)
  PROVE  /\ pc' \in [Goals -> Positions] /\ pc'[g] = where
         /\ \A h \in Goals \ {g} : pc'[h] = pc[h]
  BY DEF TypeOK, Goto, Positions

(* A step of a goal that leaves the jack moving leaves that goal, too,      *)
(* executing - or a read has failed, or the node was interrupted.           *)
LEMMA GoalStep ==
  ASSUME IInv, NEW g \in Goals, execute_callback(g)
  PROVE  /\ pc' \in [Goals -> Positions]
         /\ moving' \in BOOLEAN /\ threw' \in BOOLEAN /\ late' \in [Goals -> 0 .. 2]
         /\ LateIsPast'
         /\ ~moving' \/ threw' \/ ~ok' \/ Executing(g)'
<1> USE GotoMoves DEF IInv, TypeOK, LateIsPast, Positions, Executing
<1>1. UNCHANGED <<paused, ok>>
  BY DEF execute_callback, mainVars
<1>2. CASE Loop(g)
  <2>1. CASE ~ok /\ Goto(g, "done") /\ UNCHANGED moving
    BY <1>1, <1>2, <2>1 DEF Loop
  <2>2. CASE Finish(g)
    BY <1>1, <1>2, <2>2 DEF Loop, Finish, stop_motor
  <2>3. CASE paused = 2 /\ Goto(g, "read") /\ UNCHANGED moving
    BY <1>1, <1>2, <2>3 DEF Loop
  <2>4. CASE paused # 2 /\ Goto(g, "paused") /\ UNCHANGED moving
    BY <1>1, <1>2, <2>4 DEF Loop
  <2> QED BY <1>2, <2>1, <2>2, <2>3, <2>4, Zenon DEF Loop
<1>3. CASE Paused(g)
  BY <1>1, <1>3 DEF Paused, stop_motor
<1>4. CASE Read(g)
  <2>1. CASE threw' = TRUE /\ Goto(g, "done") /\ UNCHANGED moving
    BY <1>1, <1>4, <2>1 DEF Read
  <2>2. CASE Finish(g) /\ UNCHANGED threw
    BY <1>1, <1>4, <2>2 DEF Read, Finish, stop_motor
  <2>3. CASE Goto(g, "speed") /\ UNCHANGED <<moving, threw>>
    BY <1>1, <1>4, <2>3 DEF Read
  <2> QED BY <1>4, <2>1, <2>2, <2>3 DEF Read
<1>5. CASE Speed(g)
  <2>1. late' \in [Goals -> 0 .. 2] /\ LateIsPast'
    BY <1>1, <1>5 DEF Speed
  <2>2. moving' \in BOOLEAN /\ threw' \in BOOLEAN
    BY <1>5, Zenon DEF Speed
  <2>3. pc' \in [Goals -> Positions] /\ Executing(g)'
    BY <1>5 DEF Speed
  <2> QED BY <2>1, <2>2, <2>3
<1>6. CASE Feedback(g)
  <2>1. CASE threw' = TRUE /\ Goto(g, "done")
    BY <1>1, <1>6, <2>1 DEF Feedback
  <2>2. CASE Goto(g, "loop") /\ UNCHANGED threw
    BY <1>1, <1>6, <2>2 DEF Feedback
  <2> QED BY <1>6, <2>1, <2>2 DEF Feedback
<1> QED
  BY <1>2, <1>3, <1>4, <1>5, <1>6 DEF execute_callback

-----------------------------------------------------------------------------
LEMMA NextIInv == IInv /\ [Next]_vars => IInv'
<1> SUFFICES ASSUME IInv, [Next]_vars PROVE IInv'
  OBVIOUS
<1> USE DEF IInv, TypeOK, LateIsPast, StopsWithLastGoal, Executing,
            goalVars, driveVars, mainVars
<1>1. CASE mode_callback
  BY <1>1 DEF mode_callback
<1>2. ASSUME NEW g \in Goals, goal_callback(g) PROVE IInv'
  BY <1>2, GotoMoves DEF goal_callback, Positions
<1>3. ASSUME NEW g \in Goals, cancel_callback(g) PROVE IInv'
  BY <1>3 DEF cancel_callback, stop_motor
<1>4. ASSUME NEW g \in Goals, execute_callback(g) PROVE IInv'
  <2>1. UNCHANGED <<paused, is_cancel_requested, expired, ok, mainPc, enabled, monitorPc>>
    BY <1>4 DEF execute_callback
  <2> QED BY <2>1, <1>4, GoalStep DEF Positions
<1>5. ASSUME NEW g \in Goals, Expire(g) PROVE IInv'
  BY <1>5 DEF Expire
<1>6. CASE monitor_faults
  <2>1. UNCHANGED <<paused, goalVars, mainVars, threw, late>>
    BY <1>6 DEF monitor_faults
  <2>2. /\ monitorPc' \in {"watch", "enable", "stop"}
        /\ moving' = moving \/ moving' = FALSE
    BY <1>6, Zenon DEF monitor_faults, stop_motor
  <2>3. enabled' \in BOOLEAN /\ moving' \in BOOLEAN
    BY <1>6, <2>2, Zenon DEF monitor_faults
  <2>4. moving' => moving
    BY <2>2, Zenon
  <2> QED BY <2>1, <2>2, <2>3, <2>4
<1>7. CASE Main
  BY <1>7 DEF Main, Interrupt, main_stops, stop_motor
<1>8. CASE Trip
  BY <1>8 DEF Trip
<1>9. CASE UNCHANGED vars
  BY <1>9 DEF vars
<1> QED
  BY <1>1, <1>2, <1>3, <1>4, <1>5, <1>6, <1>7, <1>8, <1>9 DEF Next

-----------------------------------------------------------------------------
(* Every variable of the jack server keeps its type.                        *)
THEOREM TypeCorrect == Spec => []TypeOK
<1>1. IInv => TypeOK
  BY DEF IInv
<1> QED BY InitIInv, NextIInv, <1>1, PTL DEF Spec

(* execute_callback of jack_action_server.py, with any number of goals next *)
(* to each other: the last one to end leaves the jack standing still.       *)
THEOREM LastGoalStops == Spec => []StopsWithLastGoal
<1>1. IInv => StopsWithLastGoal
  BY DEF IInv
<1> QED BY InitIInv, NextIInv, <1>1, PTL DEF Spec

(* The look at the mode in the loop: of the speeds a goal commands only one *)
(* can come after the mode left 2.                                          *)
THEOREM AtMostOneLate == Spec => []ModeLatency
<1>1. IInv => ModeLatency
  <2> SUFFICES ASSUME IInv, NEW g \in Goals PROVE late[g] <= 1
    BY DEF ModeLatency
  <2> QED BY DEF IInv, LateIsPast
<1> QED BY InitIInv, NextIInv, <1>1, PTL DEF Spec

=============================================================================
