---------------------------- MODULE MCRobotMode ----------------------------
(* A TLC instance of RobotMode with its IO node.                            *)
EXTENDS RobotMode
=============================================================================
