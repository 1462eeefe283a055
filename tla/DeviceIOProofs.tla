--------------------------- MODULE DeviceIOProofs ---------------------------
(***************************************************************************)
(* For queues of any depth: the relays follow the inputs, do not close     *)
(* again unasked, and the node implements IoPort - alone, and composed     *)
(* with the diagnostics.                                                   *)
(***************************************************************************)
EXTENDS Diagnostics, SequenceTheorems, TLAPS

USE QueueDepthAssumption

(* A publication keeps a queue within its type and depth.                   *)
LEMMA PublishedType ==
  ASSUME NEW S, NEW q \in Seq(S), Len(q) <= QueueDepth, NEW m \in S
  PROVE  Published(q, m) \in Seq(S) /\ Len(Published(q, m)) <= QueueDepth
  BY EmptySeq DEF Published

-----------------------------------------------------------------------------
(* What was commanded is what was asked for, and a decision about to be     *)
(* written is the one the last poll allows.                                 *)
CommandAsked == status \/ button_status => asked
DecisionAllowed == ioPc = "write" /\ status => Safe(seen)

IInv == TypeOK /\ CommandAsked /\ DecisionAllowed
        /\ RelaysFollowInputs /\ NoRestartUnasked

LEMMA InitIInv == Init => IInv
<1> SUFFICES ASSUME Init PROVE IInv
  OBVIOUS
<1>1. TypeOK
  <2>1. <<>> \in Seq(BOOLEAN) /\ <<>> \in Seq(Status) /\ Len(<<>>) <= QueueDepth
    BY EmptySeq
  <2>2. TopicsOK
    BY <2>1, Zenon DEF Init, TopicsOK
  <2>3. seen \in Seen
    BY DEF Init, Seen
  <2>4. isSystemReady \in Readiness
    BY DEF Init, Readiness
  <2> QED BY <2>2, <2>3, <2>4 DEF Init, TypeOK
<1> QED
  BY <1>1 DEF Init, IInv, CommandAsked, DecisionAllowed, RelaysFollowInputs,
              NoRestartUnasked

LEMMA NextIInv == IInv /\ [Next]_vars => IInv'
<1> SUFFICES ASSUME IInv, [Next]_vars PROVE IInv'
  OBVIOUS
<1> USE DEF IInv, TypeOK, TopicsOK, CommandAsked, DecisionAllowed,
            RelaysFollowInputs, NoRestartUnasked, Written
<1>1. CASE sent_digital
  <2> PICK d \in Seen, button \in BOOLEAN :
        /\ status' = AfterPoll(d, button).status
        /\ button_status' = AfterPoll(d, button).button
        /\ seen' = d
        /\ asked' = (Safe(d) /\ (asked \/ (button /\ isSystemReady = 0)))
        /\ emergency_io' = Published(emergency_io, d.ok)
    BY <1>1 DEF sent_digital
  <2>1. d.ok \in BOOLEAN
    BY DEF Seen
  <2>2. /\ emergency_io' \in Seq(BOOLEAN) /\ Len(emergency_io') <= QueueDepth
    BY <2>1, PublishedType
  <2>3. /\ AfterPoll(d, button).status \in BOOLEAN
        /\ AfterPoll(d, button).button \in BOOLEAN
    BY DEF AfterPoll
  <2>4. AfterPoll(d, button).status \/ AfterPoll(d, button).button
        => Safe(d) /\ (asked \/ (button /\ isSystemReady = 0))
    BY DEF AfterPoll
  <2> QED BY <1>1, <2>2, <2>3, <2>4 DEF sent_digital, Safe
<1>2. CASE sent_relay
  <2>1. UNCHANGED <<emergency_io, status_io, status, button_status, isSystemReady,
                    seen, asked>>
        /\ ioPc = "write" /\ ioPc' = "report"
    BY <1>2 DEF sent_relay, topics
  <2>2. CASE coils' = status /\ missed' = missed
    BY <2>1, <2>2 DEF Safe
  <2>3. CASE missed' = TRUE /\ coils' = coils
    BY <2>1, <2>3 DEF Safe
  <2> QED BY <1>2, <2>2, <2>3 DEF sent_relay
<1>3. CASE read_relay
  <2>1. [charge |-> seen.charge, relays |-> coils] \in Status
    BY DEF Seen, Status
  <2>2. status_io' \in Seq(Status) /\ Len(status_io') <= QueueDepth
    BY <1>3, <2>1, PublishedType DEF read_relay
  <2> QED BY <1>3, <2>2 DEF read_relay, Safe
<1>4. CASE BusFails
  BY <1>4 DEF BusFails, topics, Safe
<1>5. CASE destroy_node
  BY <1>5 DEF destroy_node, topics, Safe
<1>6. CASE ready
  BY <1>6 DEF ready, topics, Safe
<1>7. ASSUME NEW command \in Commands, relay_status(command) PROVE IInv'
  BY <1>7 DEF relay_status, topics, Safe
<1>8. ASSUME NEW bypass \in BOOLEAN, handle_service_response(bypass) PROVE IInv'
  BY <1>8 DEF handle_service_response, topics, Safe
<1>9. CASE UNCHANGED vars
  BY <1>9 DEF vars, ioVars, topics, Safe
<1> QED
  BY <1>1, <1>2, <1>3, <1>4, <1>5, <1>6, <1>7, <1>8, <1>9
  DEF Next, IoWork, data_callback

-----------------------------------------------------------------------------
(* Every variable keeps its type, and no queue grows beyond its depth.      *)
THEOREM TypeCorrect == Spec => []TypeOK
<1>1. IInv => TypeOK
  BY DEF IInv
<1> QED BY InitIInv, NextIInv, <1>1, PTL DEF Spec

(* data_callback of all_io.py: the relays are closed only if the last poll  *)
(* whose decision was written saw the emergency loop closed and no charger. *)
THEOREM RelaySafety == Spec => []RelaysFollowInputs
<1>1. IInv => RelaysFollowInputs
  BY DEF IInv
<1> QED BY InitIInv, NextIInv, <1>1, PTL DEF Spec

(* After the inputs opened the relays, only a button, command or bypass of  *)
(* later closes them.                                                       *)
THEOREM RestartSafety == Spec => []NoRestartUnasked
<1>1. IInv => NoRestartUnasked
  BY DEF IInv
<1> QED BY InitIInv, NextIInv, <1>1, PTL DEF Spec

-----------------------------------------------------------------------------
LEMMA StepRefinesIoPort == IInv /\ [Next]_vars => [Port!Next]_<<Port!topics, Port!port>>
<1> SUFFICES ASSUME IInv, [Next]_vars PROVE [Port!Next]_<<Port!topics, Port!port>>
  OBVIOUS
<1> USE DEF Port!Next, topics, Port!topics, Published, Port!Published,
            Seen, Port!Seen, Safe, Port!Safe
<1>1. CASE sent_digital
  BY <1>1 DEF sent_digital, Port!Poll
<1>2. CASE sent_relay
  BY <1>2 DEF sent_relay, Port!Write, IInv, TypeOK, DecisionAllowed
<1>3. CASE read_relay
  BY <1>3 DEF read_relay, Port!Report, IInv, TypeOK
<1>4. CASE BusFails
  BY <1>4 DEF BusFails, Port!Fail
<1>5. CASE destroy_node
  BY <1>5 DEF destroy_node, Port!End
<1>6. CASE ready
  BY <1>6 DEF ready, topics, Port!port
<1>7. ASSUME NEW command \in Commands, relay_status(command)
      PROVE  UNCHANGED <<Port!topics, Port!port>>
  BY <1>7 DEF relay_status, topics, Port!port
<1>8. ASSUME NEW bypass \in BOOLEAN, handle_service_response(bypass)
      PROVE  UNCHANGED <<Port!topics, Port!port>>
  BY <1>8 DEF handle_service_response, topics, Port!port
<1>9. CASE UNCHANGED vars
  BY <1>9 DEF vars, ioVars, topics, Port!port
<1> QED
  BY <1>1, <1>2, <1>3, <1>4, <1>5, <1>6, <1>7, <1>8, <1>9
  DEF Next, IoWork, data_callback

(* The IO node is the port its listeners assume, whatever it is commanded.  *)
THEOREM ImplementsIoPort == Spec => RefinesIoPort
<1>1. Init => Port!Init
  BY DEF Init, Port!Init
<1> QED
  BY InitIInv, NextIInv, <1>1, StepRefinesIoPort, PTL DEF Spec, RefinesIoPort, Port!Spec

-----------------------------------------------------------------------------
LEMMA SysStepIsIoStep == SysNext => [Next]_vars
<1> USE DEF vars
<1>1. CASE IoNodeStep
  BY <1>1 DEF IoNodeStep, Next
<1>2. CASE ReadyArrives
  BY <1>2 DEF ReadyArrives, Next
<1>3. ASSUME SysNext, ~IoNodeStep, ~ReadyArrives PROVE UNCHANGED vars
  BY <1>3 DEF SysNext, check_enable, io_callback, SecondPasses, pub_diagnostic,
              SetParameter
<1> QED BY <1>1, <1>2, <1>3

(* With readiness coming from the diagnostics node, which in turn watches   *)
(* the IO node, the IO node does nothing it would not do alone: what is     *)
(* proved of it holds of the two together.                                  *)
THEOREM ComposedImplementsDeviceIO == SysSpec => Spec
<1>1. SysInit => Init
  BY DEF SysInit
<1>2. SysNext => [Next]_vars
  BY SysStepIsIoStep
<1>3. UNCHANGED sysVars => UNCHANGED vars
  BY DEF sysVars
<1> QED BY <1>1, <1>2, <1>3, PTL DEF SysSpec, Spec

(* The relays of all_io.py follow the inputs, whatever diagnostics_node.py  *)
(* publishes and whenever it does.                                          *)
THEOREM ComposedRelaySafety == SysSpec => []RelaysFollowInputs
<1> QED BY ComposedImplementsDeviceIO, RelaySafety, PTL

=============================================================================
