---------------------------- MODULE Diagnostics ----------------------------
(***************************************************************************)
(* DiagnosticsCheck (diagnostics_node.py), composed with the IO node: it   *)
(* hears the IO node's heartbeat, calls the node lost after a second of    *)
(* silence, and publishes /diagnostics_system_ready, to which the IO node  *)
(* in turn listens.                                                        *)
(*                                                                         *)
(* The other devices are checked the same way and are off by default; of   *)
(* all checks only the one of the IO node is here.  Both parameters may be *)
(* set while the node runs.                                                *)
(***************************************************************************)
EXTENDS DeviceIO

VARIABLES
  use_diagnostics, check_io,   (* parameters                                *)
  io_heartbeat,     (* messages are on their way                            *)
  last_time,        (* of the last heartbeat: "never", "recent", "old"      *)
  system_ready,     (* the field of the message, kept between publications  *)
  diagnostics_system_ready     (* the topic                                 *)

diagVars == <<use_diagnostics, check_io, io_heartbeat, last_time, system_ready,
              diagnostics_system_ready>>
sysVars == <<vars, diagVars>>

SysInit ==
  /\ Init
  /\ use_diagnostics = TRUE /\ check_io = TRUE
  /\ io_heartbeat = FALSE
  /\ last_time = "never"
  /\ system_ready = 0
  /\ diagnostics_system_ready = <<>>

(* The heartbeat is a timer of the IO node's one thread: while it waits for *)
(* the bus there is none.                                                   *)
check_enable ==
  /\ ioPc = "idle"
  /\ io_heartbeat' = TRUE
  /\ UNCHANGED <<vars, use_diagnostics, check_io, last_time, system_ready,
                 diagnostics_system_ready>>

io_callback ==
  /\ io_heartbeat
  /\ last_time' = "recent"
  /\ io_heartbeat' = FALSE
  /\ UNCHANGED <<vars, use_diagnostics, check_io, system_ready,
                 diagnostics_system_ready>>

SecondPasses ==
  /\ last_time = "recent" /\ last_time' = "old"
  /\ UNCHANGED <<vars, use_diagnostics, check_io, io_heartbeat, system_ready,
                 diagnostics_system_ready>>

(* Mutant: only a device that was never heard of is in error.               *)
MutReadiness ==
  CASE ~use_diagnostics -> 1
    [] use_diagnostics /\ check_io -> IF last_time # "never" THEN 0 ELSE 2
    [] use_diagnostics /\ ~check_io -> system_ready

(* With no device to check the loop over them sets nothing.                 *)
DeviceReadiness ==
  CASE ~use_diagnostics -> 1
    [] use_diagnostics /\ check_io -> IF last_time = "recent" THEN 0 ELSE 2
    [] use_diagnostics /\ ~check_io -> system_ready

pub_diagnostic ==
  /\ system_ready' = DeviceReadiness
  /\ diagnostics_system_ready' = Published(diagnostics_system_ready, system_ready')
  /\ UNCHANGED <<vars, use_diagnostics, check_io, io_heartbeat, last_time>>

SetParameter ==
  /\ use_diagnostics' \in BOOLEAN /\ check_io' \in BOOLEAN
  /\ UNCHANGED <<vars, io_heartbeat, last_time, system_ready,
                 diagnostics_system_ready>>

(* The IO node's steps, with the readiness it hears of being what was       *)
(* published.                                                               *)
ReadyArrives ==
  /\ diagnostics_system_ready # <<>>
  /\ ready /\ isSystemReady' = Head(diagnostics_system_ready)
  /\ diagnostics_system_ready' = Tail(diagnostics_system_ready)
  /\ UNCHANGED <<use_diagnostics, check_io, io_heartbeat, last_time, system_ready>>

IoNodeStep == IoWork /\ UNCHANGED diagVars

SysNext ==
  \/ IoNodeStep \/ ReadyArrives \/ check_enable
  \/ io_callback \/ SecondPasses \/ pub_diagnostic \/ SetParameter

SysSpec == SysInit /\ [][SysNext]_sysVars

SysFairSpec ==
  /\ SysSpec
  /\ SF_sysVars(IoNodeStep /\ sent_digital)
  /\ WF_sysVars(IoNodeStep /\ (sent_relay \/ read_relay \/ destroy_node))
  /\ SF_sysVars(IoNodeStep /\ FrameArrives)
  /\ WF_sysVars(io_callback) /\ WF_sysVars(SecondPasses) /\ WF_sysVars(pub_diagnostic)

-----------------------------------------------------------------------------
(* An IO node that died is in the end, and for ever, a fault to everybody   *)
(* who listens, although its last heartbeats may still be on their way and  *)
(* checks are turned off and on.                                            *)
LostNodeIsFault ==
  <>[](ioPc = "down") /\ <>[](use_diagnostics /\ check_io)
    => <>[](system_ready = 2 /\ \A i \in DOMAIN diagnostics_system_ready :
                                  diagnostics_system_ready[i] = 2)

=============================================================================
