----------------------------- MODULE JackServer -----------------------------
(***************************************************************************)
(* JackControlActionServer (jack_action_server.py) with its JackDriver     *)
(* (jack_driver.py): goals of the action jack_control lower or lift a      *)
(* platform until an input says that it is there.                          *)
(*                                                                         *)
(* Goal, cancel and mode callbacks share a callback group, but a goal that *)
(* was accepted executes as a task of the multi-threaded executor, next to *)
(* the callbacks and to other goals: each step of its loop between two     *)
(* looks at shared state is an action.  The driver's fault monitor is one  *)
(* more thread.  It reads the same socket, each reader throwing away what  *)
(* the other waits for, so that a read may fail at any time; a failed read *)
(* throws (two values where three are expected, a comparison with None)    *)
(* and the action library aborts the goal.  Commands are taken as          *)
(* delivered.                                                              *)
(***************************************************************************)
EXTENDS Naturals

CONSTANTS
  Goals,    (* the goals that are ever sent                                 *)
  Modes     (* values of RobotMode.robot_mode; 2 drives, 5 is an emergency  *)

ASSUME ModesAssumption == {1, 2, 5} \subseteq Modes

VARIABLES
  paused,                 (* self._paused, the last robot mode              *)
  pc,                     (* where each goal is                             *)
  is_cancel_requested, expired,
  ok,                     (* rclpy.ok()                                     *)
  mainPc,
  moving,                 (* the speed last commanded is not zero           *)
  enabled,                (* the drive is in operation, not in fault        *)
  monitorPc,
  threw,                  (* history: a read failed in a goal               *)
  late                    (* history: speeds (up to 2) each goal commanded  *)
                          (* since the mode is not 2                        *)

goalVars  == <<pc, is_cancel_requested, expired>>
driveVars == <<enabled, monitorPc>>
mainVars  == <<ok, mainPc>>
vars == <<paused, goalVars, mainVars, moving, driveVars, threw, late>>

Init ==
  /\ paused = 1
  /\ pc = [g \in Goals |-> "unsent"]
  /\ is_cancel_requested = [g \in Goals |-> FALSE]
  /\ expired = [g \in Goals |-> FALSE]
  /\ ok = TRUE /\ mainPc = "spin"
  /\ moving = FALSE /\ enabled = TRUE
  /\ monitorPc = "watch"
  /\ threw = FALSE /\ late = [g \in Goals |-> 0]

Executing(g) == pc[g] \notin {"unsent", "done"}
Goto(g, where) == pc' = [pc EXCEPT ![g] = where]
stop_motor == moving' = FALSE

-----------------------------------------------------------------------------
(* Callbacks.                                                               *)

(* Mutant: the mode is kept as a flag.                                      *)
MutMode ==
  /\ ok
  /\ paused' \in {0, 1}
  /\ UNCHANGED <<goalVars, mainVars, moving, driveVars, threw, late>>

mode_callback ==
  /\ ok
  /\ paused' \in Modes
  /\ late' = IF paused' = 2 THEN [g \in Goals |-> 0] ELSE late
  /\ UNCHANGED <<goalVars, mainVars, moving, driveVars, threw>>

(* A goal that is accepted executes at once, whatever others do.  One that  *)
(* is neither FLOOR nor CEILING aborts before it commands anything; it is   *)
(* like one rejected.                                                       *)
goal_callback(g) ==
  /\ ok /\ pc[g] = "unsent"
  /\ Goto(g, IF paused = 2 THEN "loop" ELSE "done")
  /\ UNCHANGED <<paused, is_cancel_requested, expired, mainVars, moving,
                 driveVars, threw, late>>

cancel_callback(g) ==
  /\ ok /\ Executing(g)
  /\ is_cancel_requested' = [is_cancel_requested EXCEPT ![g] = TRUE]
  /\ stop_motor
  /\ UNCHANGED <<paused, pc, expired, mainVars, driveVars, threw, late>>

-----------------------------------------------------------------------------
(* execute_callback of one goal.                                            *)

Finish(g) == stop_motor /\ Goto(g, "done")

(* Mutant: the cancel callback has already stopped the motor.               *)
MutLoop(g) ==
  /\ pc[g] = "loop"
  /\ \/ ~ok /\ Goto(g, "done") /\ UNCHANGED moving
     \/ ok /\ is_cancel_requested[g] /\ Goto(g, "done") /\ UNCHANGED moving
     \/ ok /\ ~is_cancel_requested[g] /\ expired[g] /\ Finish(g)
     \/ /\ ok /\ ~is_cancel_requested[g] /\ ~expired[g]
        /\ Goto(g, IF paused = 2 THEN "read" ELSE "paused")
        /\ UNCHANGED moving
  /\ UNCHANGED <<threw, late>>

(* Mutant: a pause is waited for before anything else is looked at.         *)
MutLoopPaused(g) ==
  /\ pc[g] = "loop"
  /\ \/ ~ok /\ Goto(g, "done") /\ UNCHANGED moving
     \/ ok /\ paused # 2 /\ Goto(g, "paused") /\ UNCHANGED moving
     \/ ok /\ paused = 2 /\ (is_cancel_requested[g] \/ expired[g]) /\ Finish(g)
     \/ /\ ok /\ paused = 2 /\ ~is_cancel_requested[g] /\ ~expired[g]
        /\ Goto(g, "read")
        /\ UNCHANGED moving
  /\ UNCHANGED <<threw, late>>

Loop(g) ==
  /\ pc[g] = "loop"
  /\ \/ ~ok /\ Goto(g, "done") /\ UNCHANGED moving
     \/ ok /\ (is_cancel_requested[g] \/ expired[g]) /\ Finish(g)
     \/ /\ ok /\ ~is_cancel_requested[g] /\ ~expired[g]
        /\ Goto(g, IF paused = 2 THEN "read" ELSE "paused")
        /\ UNCHANGED moving
  /\ UNCHANGED <<threw, late>>

(* Mutant: a pause leaves the motor as it is.                               *)
MutPaused(g) ==
  /\ pc[g] = "paused"
  /\ IF paused = 5 THEN Finish(g) ELSE Goto(g, "loop") /\ UNCHANGED moving
  /\ UNCHANGED <<threw, late>>

(* The mode is read again: it may be 2 by now, and the motor is stopped     *)
(* all the same.                                                            *)
Paused(g) ==
  /\ pc[g] = "paused"
  /\ stop_motor
  /\ Goto(g, IF paused = 5 THEN "done" ELSE "loop")
  /\ UNCHANGED <<threw, late>>

(* read_din_status finds nothing, the target, or not the target.            *)
Read(g) ==
  /\ pc[g] = "read"
  /\ \/ threw' = TRUE /\ Goto(g, "done") /\ UNCHANGED moving
     \/ Finish(g) /\ UNCHANGED threw
     \/ Goto(g, "speed") /\ UNCHANGED <<moving, threw>>
  /\ UNCHANGED late

Speed(g) ==
  /\ pc[g] = "speed"
  /\ moving' = TRUE
  /\ late' = [late EXCEPT ![g] = IF paused = 2 \/ @ = 2 THEN @ ELSE @ + 1]
  /\ Goto(g, "feedback")
  /\ UNCHANGED threw

(* Mutant: the loop goes on with the inputs.                                *)
MutFeedback(g) ==
  /\ pc[g] = "feedback"
  /\ \/ threw' = TRUE /\ Goto(g, "done")
     \/ Goto(g, "read") /\ UNCHANGED threw
  /\ UNCHANGED <<moving, late>>

(* get_jack_state reads the inputs and the speed.                           *)
Feedback(g) ==
  /\ pc[g] = "feedback"
  /\ \/ threw' = TRUE /\ Goto(g, "done")
     \/ Goto(g, "loop") /\ UNCHANGED threw
  /\ UNCHANGED <<moving, late>>

execute_callback(g) ==
  /\ Loop(g) \/ Paused(g) \/ Read(g) \/ Speed(g) \/ Feedback(g)
  /\ UNCHANGED <<paused, is_cancel_requested, expired, mainVars, driveVars>>

-----------------------------------------------------------------------------
(* The fault monitor, the main thread, the environment.                     *)

monitor_faults ==
  /\ \/ /\ monitorPc = "watch" /\ ~enabled
        /\ monitorPc' = "enable"
        /\ UNCHANGED <<enabled, moving>>
     \/ /\ monitorPc = "enable"
        /\ enabled' = TRUE /\ monitorPc' = "stop"
        /\ UNCHANGED moving
     \/ /\ monitorPc = "stop"
        /\ stop_motor /\ monitorPc' = "watch"
        /\ UNCHANGED enabled
  /\ mainPc # "ended"
  /\ UNCHANGED <<paused, goalVars, mainVars, threw, late>>

(* An interrupt: the signal handler ends the context, main stops the motor. *)
Interrupt ==
  /\ mainPc = "spin" /\ mainPc' = "interrupted" /\ ok' = FALSE
  /\ UNCHANGED moving

main_stops ==
  /\ mainPc = "interrupted" /\ mainPc' = "ended"
  /\ stop_motor
  /\ UNCHANGED ok

Main ==
  /\ Interrupt \/ main_stops
  /\ UNCHANGED <<paused, goalVars, driveVars, threw, late>>

(* The time of a goal is up.                                                *)
Expire(g) ==
  /\ Executing(g)
  /\ expired' = [expired EXCEPT ![g] = TRUE]
  /\ UNCHANGED <<paused, pc, is_cancel_requested, mainVars, moving, driveVars,
                 threw, late>>

Trip ==
  /\ enabled' = FALSE
  /\ UNCHANGED <<paused, goalVars, mainVars, moving, monitorPc, threw, late>>

Next ==
  \/ mode_callback
  \/ \E g \in Goals : goal_callback(g) \/ cancel_callback(g) \/ execute_callback(g)
                      \/ Expire(g)
  \/ monitor_faults \/ Main \/ Trip

Spec == Init /\ [][Next]_vars

(* Threads run.                                                             *)
FairSpec ==
  /\ Spec
  /\ \A g \in Goals : WF_vars(execute_callback(g))
  /\ WF_vars(monitor_faults)

-----------------------------------------------------------------------------
(* Properties.                                                              *)

(* The type of every variable.                                              *)
TypeOK ==
  /\ paused \in Modes
  /\ pc \in [Goals -> {"unsent", "loop", "paused", "read", "speed", "feedback", "done"}]
  /\ is_cancel_requested \in [Goals -> BOOLEAN] /\ expired \in [Goals -> BOOLEAN]
  /\ ok \in BOOLEAN /\ mainPc \in {"spin", "interrupted", "ended"}
  /\ moving \in BOOLEAN /\ enabled \in BOOLEAN
  /\ monitorPc \in {"watch", "enable", "stop"}
  /\ threw \in BOOLEAN /\ late \in [Goals -> 0 .. 2]

(* When no goal executes any more the jack stands still, whichever of them  *)
(* was cancelled, expired, paused or arrived, in whatever order - unless a  *)
(* read failed or the node was interrupted.                                 *)
StopsWithLastGoal ==
  ok /\ ~threw /\ (\A g \in Goals : ~Executing(g)) => ~moving

(* When the mode stops being 2, a goal commands at most one more speed: it  *)
(* reads the inputs, for up to a second, between its look at the mode and   *)
(* the command.                                                             *)
ModeLatency == \A g \in Goals : late[g] <= 1

(* A mode that stays different from 2 in the end has the jack stand still,  *)
(* for ever, as long as no read failed: a goal that ended in an exception   *)
(* stops nothing any more.                                                  *)
HeldWhilePaused == [](ok /\ ~threw) /\ <>[](paused # 2) => <>[](~moving)

(* A goal whose time is up ends, in whatever mode it waits.                 *)
GoalsEnd == \A g \in Goals : Executing(g) /\ expired[g] ~> pc[g] = "done"

=============================================================================
