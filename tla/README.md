# A TLA+ development for the SMR300L robot software

This directory holds TLA+ specifications of the parts of the repository that
carry its own logic, the TLC configurations that check them on small instances,
and TLAPS proofs of what holds for every instance. Paths below are relative to
`src/src/`.

## 1. The system

The repository is the software of a differential-drive robot: ROS 2 nodes in
Python that run the robot's electrical and safety equipment (`next2_*`,
`dan_ros_motor`, `xbee`), and a multi-threaded C++ node that bridges a SLAMTEC
localisation core to ROS (`slamware_ros_sdk`). Vendored libraries
(`slamware_sdk`: boost, Eigen, rpos) make up 97 % of its lines.

| Part | State it keeps | Operations | Talks to |
|---|---|---|---|
| **slamware server, threads** (`slamware_ros_sdk_server.cpp`, `..._node.cpp`, `server_worker_base.cpp`) | platform handle, run state, stop flag, workers and their init flags, velocity action | start, connect, retry, initialise workers, perform, disconnect, stop; 20 message handlers | core (remote calls), ROS topics |
| **slamware server, map storage** (`server_map_holder.cpp`) | allocated and written rectangles, row-major array | clear, reserve, write a piece, publish | called by the map workers |
| **slamware server, map sync** (`server_workers.cpp`, handlers) | `syncMapRequested`, `shouldReinitMap_` | reinit, sync the whole map, update near the robot, read events, load a map | core; the spin thread shares the flag |
| other workers, message conversion, parameters | none worth the name | periodic read, convert, publish | core, topics |
| **device IO** (`next2_io/scripts/all_io.py`) | relay byte, button latch, readiness | poll inputs, write relays, read them back, bypass commands | Modbus, `emergency_io`, `status_io` |
| **robot mode** (`next2_system/scripts/robot_mode.py`) | flags from IO, diagnostics and services; mode | six-step cycle on a timer, `set_mode`, `pause_mode`, `docking_mode` | `robot_mode`, `allowed_master_on` |
| **diagnostics** (`next2_system/scripts/diagnostics_node.py`) | last message times, `system_ready` | check time-outs, publish | heartbeats of all nodes |
| **motor node** (`dan_ros_motor/scripts/motor_daniel_pdo.py`) | flow state, last permission, speeds, heartbeat | one flow state per tick, commands, odometry | CAN drives, `cmd_vel`, `robot_mode`, `allowed_master_on` |
| **jack action server** (`dan_ros_motor/scripts/jack_*`) | goals, last robot mode; the driver's fault monitor | lower, lift, cancel, monitor faults | one CAN socket, action clients, `robot_mode` |
| xbee (`xbee/script/*.py`) | operation flags, frame buffer | station handshake with time-outs, framing | radio, action clients |
| xiao board (`next2_system/src/xiao.ino`), battery, indicator, bypass parameters | watchdogs, tables | poll and publish | serial, CAN, DMX |

`PROJECT.json` lists every part under `components`, with the reason for those
that are left out, and under `hazards` what in this code is hard to test.

What makes these parts hard:

* **Threads.** The server's spin thread and work thread share a handle guarded
  by a lock that is released between the test and the use, two atomics, and a
  velocity action with no lock.
* **Remote calls that fail in the middle.** A sync of the map is many calls;
  the core may explore, close a loop, load another map or disappear between any
  two, and the spin thread may ask for another sync.
* **Reconnection.** Every worker keeps state of a session that may be dead.
* **Integers at boundaries.** The map grows in all directions; floor and
  ceiling to a multiple of 16 of negative cell indices are computed on unsigned
  magnitudes.
* **The emergency chain.** A pressed button passes through three nodes with
  their own timers and topics before the drives are off, and a drive does not
  answer what it is told.
* **Tasks next to each other.** Several jack goals run at once, each reading
  inputs for up to a second between its look at the robot mode and its command,
  and steal each other's answers from the socket.

## 2. What each part must guarantee

* *Threads:* assertions of both threads hold; the handle the work thread uses
  stays valid; every session opened is closed; a worker performs only after
  it was initialised on this session; a stop ends the process; after every
  failure the loop works again if the core does.
* *Map storage:* the array behaves as a picture of cells: growing never moves
  or invents one; the published grid shows the written part.
* *Map sync:* one resolution in the map; success means the whole area; loop
  closures are never forgotten; every request is answered.
* *Device IO:* the relays are closed only if the last poll allows it, whatever
  was commanded in between; they never close again unasked; an emergency opens
  them even if the node dies.
* *Robot mode:* an emergency takes the drives' permission away within a cycle
  and is never hidden by a pause or a request; no emergency stays latched; the
  node never hangs in a service call; publishing never ends it.
* *Diagnostics:* an IO node that died is reported as a fault and stays one.
* *Motor node:* after its constructor, which enables the drives unasked, no
  drive is enabled or set in motion without permission; a permission that stays
  away ends in shut-down drives, whatever frames were lost; no speed asked for
  before an emergency is driven after it; an emergency is a way back for every
  drive, one that tripped or lost its power included.
* *Jack:* the platform stands still after the last goal and while the robot may
  not move; every goal whose time is up ends.

## 3. Modules

| Module | Models | State and actions against the code |
|---|---|---|
| `SlamwareServer` | threads and connection | `mainPc`/`workPc` are the two threads between accesses to what they share; each action is one such section: `MainTryConnect` is one turn of `loopTryConnectToSlamwarePlatform_`, `InitTest`, `SkipInitialisedWorker`, `ReinitWorkerOk`, `ReinitWorkerFails`, `CountInitialised` are the loop of `reinitWorkLoop_`, `PerformWorker`, `PerformConnectionLost`, `SleepToNextTrigger` that of `loopWork_`. `up` and `open` are the core's view of the sessions; `boundWorkers` is a history variable. |
| `CellRects` | static rectangle functions of `ServerMapHolder` | one operator per `sf...` function, its name kept; `CopyRows` is the row loops |
| `MapPicture` | nothing: it is the abstract map | a function from cells to values, an extent, the last publication |
| `MapHolder` | `ServerMapHolder` and its publication | `availCellIdxRect`, `validCellIdxRect`, `mapDat`; `clear`, `reserveByCellIdxRect`, `setMapData` (with `checkToExtendMap_`), `fillRosMapMsg`; implements `MapPicture` |
| `MapSync` | map workers, sync requests | `pc` is the worker's next remote call; the spin thread's handlers are actions of their own, `srvCbSyncSetStcm_` one per call; `local[t]` is the generation and resolution tile `t` was read at; the core is the environment |
| `IoTopics` | the topics between the IO node and the mode node | queues that keep the last `QueueDepth` messages; what a message carries |
| `IoPort` | nothing: it is the abstract IO node | polls, sets the relays to at most what the inputs allow, reports, in this order; may lose a frame or die |
| `DeviceIO` | `all_io.py` | `data_callback` is one step per exchange on the bus (`sent_digital`, `sent_relay`, `read_relay`); `relay_status`, `handle_service_response` and `ready` are the other callbacks; implements `IoPort` |
| `Diagnostics` | `diagnostics_node.py`, composed with `DeviceIO` | the heartbeat of the IO node (`check_enable`), its callback and age, `pub_diagnostic`, parameters set at run time; `ReadyArrives` is the IO node's `ready` with the value that was published |
| `RobotMode` | `robot_mode.py`, composed with `IoPort` over `IoTopics` | `CheckEmerCharge`, `CheckButton`, `Control` are the steps of `run_state_machine` that do something, one per timer tick; a callback or a service (`Request`) may come between any two; `modePc` says whether the node spins, waits in a service call or has thrown |
| `MotorFlow` | `motor_daniel_pdo.py` and its drives | one action per callback and per state of `flow_state_machine`; `cia` is the CiA 402 state of each drive, `After` what a word of `motor_transition` or `reset_fault` does to it, `op` and `moving` the drives that are operational in CANopen and that have a speed; `Hearers` and `Hears` say who hears a frame; `Trip` and `Reboot` are a drive in fault and one that lost its power; bit 3 of the status word is `Faulty`, bit 1 `SwitchedOn` |
| `JackServer` | `jack_action_server.py`, `jack_driver.py` | `pc[g]` is where goal `g`'s task is between two looks at shared state (`Loop`, `Paused`, `Read`, `Speed`, `Feedback`); callbacks, the fault monitor and main are threads next to it |
| `EmergencyChain` | the IO, diagnostics, mode and motor nodes and the jack over their topics | the actions of `Diagnostics`, `RobotMode`, `MotorFlow` and `JackServer`, with what a node receives being what another published: `ready_queue` is `/diagnostics_system_ready` at the mode node, `mode_queue` and `jack_queue` are `/robot_mode` at its two subscribers, `master_on_queue` is `/allowed_master_on`; `Number` gives a mode its constant in `RobotMode.msg` |
| `SlamwareServerProofs`, `MapHolderProofs`, `MapSyncProofs`, `DeviceIOProofs`, `RobotModeProofs`, `MotorFlowProofs`, `JackServerProofs`, `EmergencyChainProofs` | | inductive invariants, lemmas and theorems (section 5) |

`MC*` modules and `.cfg` files instantiate them. `Mut...` operators are not
used by any specification: each is what a definition would be with a plausible
bug, and `PROJECT.json` pairs it with the property that notices.

How the emergency chain composes. Each node is checked alone against an
environment that may do more than its neighbours do: `DeviceIO` implements
`IoPort`, which is the IO node that `RobotMode` is checked with; `RobotMode`
hears any readiness, `MotorFlow` any mode and permission, `JackServer` any mode.
`EmergencyChain` puts the five nodes together over the topics between them, each
topic a queue of its own at each subscriber, and `EmergencyChainProofs` shows
that in it each node only takes steps of its own specification, so what was
checked and proved of a node holds in the chain. What concerns several nodes at
once is proved of `EmergencyChain` itself (section 5). Its states are the product
of five nodes and seven queues, too many for TLC to exhaust, so it is proved and
no run checks it. Random simulation with TLC (two drives, two goals, queues of
two messages, some thirty million states) found no violation of its properties,
and TLC reaches the states its action properties are about: `EmergencyThrough`
with a goal still executing, and `FaultThrough`. Liveness is checked node by
node: `EmergencyShown` of `RobotMode` ends in `allowed_master_on` being FALSE for
ever, which is the premise of `EmergencyStops` of `MotorFlow`, and the last
permission published is the one that is handled (`NewsArrives`).

Abstractions. A worker's perform is one call on the core that returns or
throws; the topics that forward a message to the core without touching the
server's state are one, `Forward`. Map areas in metres are cell rectangles, a
row of tiles stands for the tiling of `syncWholeMap_`, and cell contents are
left to `MapHolder`. The two master-on buttons are one input, the relay byte
(0x03 or 0x00) is a Boolean, and flags of the mode node that nothing reads are
left out. `isMCUEmergency_charge`, `isMCUMaster_on` and `isMasterOnSys` always
have the same value (line 119) and are one variable. A speed in `MotorFlow` and
`JackServer` is zero or not; what a drive answers may be stale while the bus is
not healthy, because the socket queues frames. The commands of the jack are
taken as delivered; its reads may all fail.

## 4. Runs

| Run | Question | Instance and why it is enough |
|---|---|---|
| `server` | Do the threads' assertions and ownership rules survive every order of connecting, failing, retrying and stopping? Does a stop end the process, does the loop recover? | 2 workers, one eager, 3 sessions (when a session is opened only the handler's copy and the velocity action can still hold an old one), 2 attempts |
| `server_all_workers` | finding: a worker performs uninitialised | as above |
| `server_velocity_guard` | finding: one velocity action for two guards | as above |
| `map_holder` | Is the array with its offsets a picture? | alignment 2, slack 1, five pieces around the origin that overlap, touch and stick out on every side; cell values at the bounds of the three classes |
| `map_sync` | Is the server's map right in the end, whatever happens during a sync? | 3 tiles (an area with an inside; steps between any two calls), 3 generations (a loaded map uses two), 2 resolutions |
| `map_sync_request` | finding: a request during a sync is erased | 2 tiles |
| `device_io` | Do the relays follow the inputs, whatever is commanded, lost or broken? Is the node the `IoPort` its listeners assume? Is its death noticed? | with the diagnostics node; queues of one message (a longer one only delays), every input, command, parameter and readiness value |
| `robot_mode` | Does the mode node hang? How late may an emergency be? | queues of one message: losing messages is then frequent, and delays are as long as one likes since a callback may come any time; readiness OK and FAULT; all requests (10 million states, about two minutes) |
| `robot_mode_live` | Is a lasting emergency shown in the end, and is the way back open? | as above, with diagnostics OK and only pauses requested, the request that competes with an emergency for the published mode |
| `robot_mode_survives` | finding: publishing may end the node | as `robot_mode` |
| `motor` | Can anything move without permission? Does an emergency stop the drives, and do they come back? | two drives in any CiA 402 states, so that one hears what the other misses; mode 2 and another |
| `jack` | Does the jack stand still when it should, with goals next to each other? | two goals: one ends, or is past its look at the mode, while the other moves the jack; the modes to drive, to pause and of an emergency |

Findings:

* `server_all_workers` — Odometry and ImuRawData leave `isWorkLoopInitOk_` set
  when their own initialisation throws; the retry skips them and "successed to
  reinit all workers" is logged.
* `server_velocity_guard` — `msgCbRobotControl_` and `msgCbRobotControlNoLimit_`
  share one action; the first to construct it fixes the guard of both.
* `map_sync_request` — `syncMapRequested.store(false)` at the end of a sync
  erases a request made while the sync was reading. Only the requests of the
  other thread are lost; loop closures are read by the work thread itself and
  `LoopClosureNotForgotten` holds.
* `robot_mode_survives` — with READY_TO_START and the robot rolling,
  `self.allowed_master_on_msg = False` (`robot_mode.py:349`) replaces the message
  object; the publication that follows throws and ends the node. It needs a
  charger that is reported between two steps of one cycle.

Some things the code does contradict nothing it says, and are exceptions of a
property or hazards without one (`PROJECT.json` has them at their lines):

* During `startRun` the connection loop tests only `isStopRequested_`, so
  SIGINT with an unreachable core does not end the process. `ShutdownExits` is
  therefore stated from `spin` on.
* A permission that goes FALSE and TRUE between two ticks of the motor node
  skips `emergency_press`: the drives may turn on at the speed of before.
* The constructor of the motor node enables the drives (`motor_daniel_pdo.py:157`)
  before any permission. `Init` of `MotorFlow` is the state after it, and
  `OnlyWithPermission` speaks of the steps from there.
* The motor node starts a drive that lost its power only on the edge of
  `is_heartbeat`. With both drives gone in the same second the node may wait
  for an edge that never comes, and a drive that is not operational and sends
  no heartbeat is not noticed next to one that does; `BusWorks` and
  `AbsenceShows` exclude these.
* `check_motor_enable` (`motor_daniel_pdo.py:501`) tests bit 1 of the status
  word, which says *switched on*. A drive that heard Switchon and lost Enable
  Operation passes, and the node goes round sending speeds to a drive that takes
  none, for ever. And a drive that this check finds in fault (it tripped after
  `alarm_check`), or disabled (it lost its power), is sent Switchon and Enable
  Operation for ever: CiA 402 wants a reset or a Shutdown first, and the flow does
  not leave `enable_check`. TLC finds both when `DrivesAgain` is stated without
  its premise `<>Recoverable`: no drive disabled or left switched on, and the
  look for faults still to come. On a healthy bus one tick in `emergency_state`
  makes it true (`EmergencyReadies` of `MotorFlowProofs`), so pressing the emergency button
  and releasing it brings the drives back, and `DrivesAgain` shows that it does.
  The fault path alone is no such guarantee: an emergency taken back at once,
  between `reset_fault` and the `init` that follows it, replaces the
  initialisation by `emergency_release`, which sends no Shutdown.
* A read of the jack's inputs that gets no answer throws and leaves the motor
  running, with nothing left to stop it but the next goal; and an interrupt may
  stop the jack just before a goal starts it again. `StopsWithLastGoal` and
  `HeldWhilePaused` except both (`threw`, `ok`).
* The area of the map is an int product before it is a size; `clear_map` through
  the topic requests no sync; `set_stcm` leaves map update off; and
  `server_workers.cpp:388` reads a value that a missing parameter leaves
  uninitialised (it only chooses how many tiles a sync asks for).

Fairness. `SlamwareServer`: weak fairness for each thread (they are operating
system threads and SDK calls time out), strong fairness for a worker's call over
a broken link (the loop keeps calling it, and the call throws). `MapSync`: weak
fairness for the work thread and for a service call in progress, strong fairness
for ReadEvents, which gets its turn between any two passes. Nothing is assumed
of the core, of callers or of SIGINT. `DeviceIO`: the executor keeps calling the
timer (strong fairness of `sent_digital`, which other callbacks may precede any
number of times), a callback that started goes on (weak), and of frames sent for
ever some arrive (strong); with `Diagnostics`, its timer fires, a second passes
and heartbeats on their way arrive (weak). `MotorFlow`: its timer fires (weak),
and `check_heartbeat`, a timer of its own, samples now and then either value of
`is_heartbeat` (strong). What lets it drive again is a premise, not fairness:
from some time on frames arrive, what is read is current and drives neither
reboot nor trip (`healthy`), a heartbeat is read again and again, a drive that is
not operational is heard to be (`AbsenceShows`), and the drives are at some time
`Recoverable`. A drive that tripped or was left behind before stays as it is until
the code does something about it. `JackServer`: weak fairness of each
goal's task and of the monitor, which are threads. `RobotMode`: weak fairness of the timer's cycle, of
the delivery of each topic and of the IO node. Liveness properties state as premises what
they need (`<>[](healthy /\ ...)`).

## 5. Proofs

Eight modules, one per component and one for the emergency chain, hold what is
proved for every value of the constants; `PROJECT.json` lists the theorems. Each
rests on an `IInv` that is shown to hold initially and to survive each action,
one step per action.

`SlamwareServerProofs` (any number of workers, sessions and attempts under
`ServerAssumption`): `TypeOK`, `AssertionsHold`, `PlatformStableWhileUsed`,
`NoSessionLeak` and `StrictWorkersBound`. None of these is inductive alone.
`NoSessionLeak`, for example, needs to know that the work thread's copy is empty
when it connects (`HandleOwnership`), which needs to know that main does not
connect while the work thread exists (`ThreadPhases`). `CountIsHonest` carries
the argument about initialisation: the count equals the number of workers passed
only if each of their flags is set, and a flag of a worker that is not eager is
set only if it was bound.

`MapHolderProofs` (any positive alignment, any slack, any pieces, anywhere; the
run has alignment 2 and five pieces): the chain goes from arithmetic
(`FloorIsBelow` and `CeilIsAbove`, negative indices included) over rectangles
(`MergeContains`, `AdjustedContains`, which is the code's last `BOOST_ASSERT`)
to growth (`ReservedHolds`, `ExtendedHolds`, `AvailHolds`), from which `Storage`
and `NextPieceFits` follow. `RowMajor` and `CopyRowsType` show that the row
loops never read outside their source array, hence `TypeOK`. `CopyRowsRead` says
what they do to one cell, although source and destination have different corners
and widths: a column left of the copied rectangle falls into the remainder of
the previous row (`DivUnique`). With the invariant that allocated cells nobody
wrote are zero (`Unwritten`: needed because the hull of two pieces shows cells
between them), every operation is one of `MapPicture`: `ImplementsPicture`.

`MapSyncProofs` (any number of tiles, generations and resolutions): `TypeOK`,
`ResolutionUniform`, `LoopClosureNotForgotten`, `SyncDeliversWholeArea`. The
invariant has to say why a tile that is too old will be read again
(`ClosureNoted`: the event, the reinitialisation or the request is still there),
that a sync has read nothing older than its start (`SyncIsRecent`), and that what
it has read is a prefix of its area (`SyncProgress`).

`DeviceIOProofs` and `RobotModeProofs` hold for queues of any depth. The IO
node's invariant adds two facts to the properties: what is commanded was asked
for (`CommandAsked`), and a decision about to be written is one the last poll
allows (`DecisionAllowed`); with it every step of `DeviceIO` is a step of
`IoPort` or changes nothing `IoPort` sees (`ImplementsIoPort`). The composition
with the diagnostics node does nothing the IO node would not do alone
(`ComposedImplementsDeviceIO`), so these theorems hold of it (`ComposedRelaySafety`
is one). That the mode node never calls `io_service` (`IoNeverWaitedFor`) needs
the argument carried through the queue: without a lost frame every report in it
is *clean* (no charger with closed relays), since the IO node opens the relays
before it reports, hence the flags taken from one report are clean as well. For
`EmergencyIsPrompt` the invariant says that a cycle past its look at the button
has noted an emergency that a publication already missed; it assumes that
diagnostics never report 3, as the diagnostics node does not.

`MotorFlowProofs` (any drives and modes): `TypeOK`, `OnlyWithPermission`,
`RestsAfterEmergency`, `ModeLatency`. The point is `HeldInEmergency`: while the
last permission handled is no, the flow is in `emergency_state`, so no state that
enables or moves anything can run; and `LateIsPast`: after a late speed the flow
is past the states that lead to another without a look at the mode. That Shutdown
enables no drive, whichever of them hear it and in whatever state they are, is
`ShutdownEnablesNone`.

`JackServerProofs` (any number of goals): `TypeOK`, `StopsWithLastGoal`,
`ModeLatency`. A step of a goal that leaves the jack moving leaves that goal
executing, or a read has failed, or the node was interrupted (`GoalStep`).

`EmergencyChainProofs` (queues of any depth, any drives and goals) uses the
theorems of the nodes through their instances. The invariants of the nodes
together (`ChainInvariants`) show that each step of the chain is a step, or a
stutter, of `RobotMode`, of `MotorFlow` and of `JackServer`
(`ChainImplementsRobotMode` and its like), hence `ChainNodeSafety`, and that every
message is one that its subscriber's action takes (`ChainQueuesOK`): the
composition leaves out nothing the nodes do. `ChainNewsArrives` says that bounded
queues, services, waits and crashes never leave a subscriber with an old word:
the last message is never the one that is dropped (`LatestPublished`,
`LatestTaken`), the permission that stands in the motor node is the last it
handled (`PermissionHandled`; this needs `HeldInEmergency` of `MotorFlow`), and
the mode node publishes whenever what it decided changes. On this rest the
end-to-end properties. `ChainEmergencyHolds`: once an open emergency loop got
through the nodes (`EmergencyThrough`: every message on its way and every flag
agrees with it), no step of any node enables a drive or sets it in motion, and
only a poll that finds the loop closed ends this; its parts are that only a poll
tells of a closed loop (`ButtonKnownStays`), that each cycle confirms the
emergency (`EmergencyStateStays`), that no readiness the diagnostics node
publishes lets a mode through that allows power (`EmergencyDecided`), and that
the motor node holds the drives without permission (`MotorHeld`).
`ChainFaultHolds` says the same of an IO node that died and was reported, until a
parameter turns its check off. `ChainJackHolds` adds the jack: no mode to drive in
is published then (`NoModeToDrive`), and a goal that is not past its look at the
mode does not get past it (`GoalHalted`).

Only model-checked: all liveness (out of the prover's reach).

Assumptions: those named in the modules (`AlignmentAssumption`,
`ServerAssumption`, ...), which TLC evaluates in the runs.

## 6. Plan

1. (done) `SlamwareServer`, `CellRects`, `MapHolder`, `MapPicture`, `MapSync`.
2. (done) `DeviceIO`, `RobotMode`, `IoPort` between them; `Diagnostics` with
   `DeviceIO`.
3. (done) `MotorFlow` behind `allowed_master_on` and `robot_mode`; `JackServer`.
4. (done) Proofs of every safety property of the runs, and of the refinements of
   `IoPort` and `MapPicture`.
5. (done) `EmergencyChain`: the five nodes from the emergency button to the wheels
   and the jack in one specification, proved.
6. Open: the dead-man relay of the xiao board with its serial line; the checks
   of the other devices in `Diagnostics`, which copy the one that is there.

## 7. Not modelled

* *xbee* (`xbee/script/*.py`): its launch file starts a `zigbee.py` that the
  repository does not have, and the peer of its protocol is not here either, so
  the other side could only be guessed.
* *xiao board and node*: a relay that a serial line has to keep closed. What it
  guarantees is a time limit on bytes, and only the line connects it to the
  rest; its heartbeat is a check of the diagnostics that is off by default.
* *Diagnostics of the other devices*: copies of the check that is modelled, off
  by default.
* *Message conversion, parameter tables, logging, launch files, the client
  sample, teleoperation, battery, indicator*: no state, or one poll loop.
* *Drivers that no launch file starts* (`next2_motor`, `sliding_control.py`,
  `motor_node_daniel.py`, `mode.py`, `dan_test`) and the bypass parameters'
  node, which is commented out (its answers are an input of `DeviceIO`).
* *The vendored SDK, boost and Eigen*: nearly all the lines of the repository.
* *Numeric code*: odometry, float rounding of areas, overflow of the map's size.
