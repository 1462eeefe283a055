----------------------------- MODULE MCDeviceIO -----------------------------
(* A TLC instance of the IO node with the diagnostics.  Nothing in it reads *)
(* the IO topics back, so queues of one message show everything.            *)
EXTENDS Diagnostics
=============================================================================
