----------------------------- MODULE MCMotorFlow ----------------------------
(* Two drives, the mode to drive in and another one.                        *)
EXTENDS MotorFlow, TLC

CONSTANTS right, left

MCDrives == {right, left}

=============================================================================
