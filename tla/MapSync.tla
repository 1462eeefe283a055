------------------------------- MODULE MapSync -------------------------------
(***************************************************************************)
(* How the server's copy of the explored map follows the core's: the       *)
(* ExploreMapUpdate and ReadEvents workers of the work thread              *)
(* (server_workers.cpp), the handlers of the spin thread that change the   *)
(* core's map or ask for a sync (slamware_ros_sdk_server.cpp), and the     *)
(* flag syncMapRequested they share.  Every call on the core is a step of  *)
(* its own; between two calls the core and the other thread may act.       *)
(*                                                                         *)
(* The map is a row of tiles, in the order syncWholeMap_ asks for them.    *)
(* What a tile shows is the generation of the core's map it was read from: *)
(* a loop closure, a clear or a loaded map begins a new generation, and a  *)
(* tile of an older one is stale.                                          *)
(***************************************************************************)
EXTENDS Naturals

CONSTANTS
  NumTiles,      (* tiles of the area the robot can see                     *)
  MaxGen,        (* bound on the generations of the core's map              *)
  Resolutions,   (* resolutions a map may have                              *)
  NoTile

Tiles == 1 .. NumTiles
Gens == 0 .. MaxGen
TileData == [gen : Gens, res : Resolutions]

ASSUME MapSyncAssumption ==
  /\ NumTiles \in Nat \ {0}
  /\ MaxGen \in Nat
  /\ NoTile \notin TileData

VARIABLES
  coreGen, coreRes,    (* the core's map: its generation and resolution     *)
  known,               (* the tiles of the core's known area                *)
  mapUpdate,           (* the core maps what it sees                        *)
  event,               (* a loop closure event not read yet                 *)
  healthy,             (* the core answers and the link holds               *)
  syncMapRequested,    (* workDat_->syncMapRequested                        *)
  shouldReinitMap,     (* of the ExploreMapUpdate worker                    *)
  holderRes, local,    (* exploreMapHolder: resolution_, and its tiles      *)
  pc,                  (* the ExploreMapUpdate worker's next call           *)
  area, next,          (* syncWholeMap_: area to read, next tile to ask for *)
  stcmPc,              (* srvCbSyncSetStcm_'s next call                     *)
  startGen,            (* history: generation when the sync began           *)
  closureGen,          (* history: generation of the last loop closure or   *)
                       (* reconnection                                      *)
  askedGen             (* history: generation when a sync was last asked    *)

coreVars   == <<coreGen, coreRes, known, mapUpdate, event, healthy>>
holderVars == <<holderRes, local>>
syncVars   == <<pc, area, next, startGen>>
history    == <<closureGen, askedGen>>
vars == <<coreVars, syncMapRequested, shouldReinitMap, holderVars, syncVars,
          stcmPc, history>>

Init ==
  /\ coreGen = 0
  /\ coreRes \in Resolutions
  /\ known \in {{}, {1}}
  /\ mapUpdate = TRUE
  /\ event = FALSE
  /\ healthy = TRUE
  /\ syncMapRequested = TRUE
  /\ shouldReinitMap = TRUE
  /\ holderRes \in Resolutions
  /\ local = [t \in Tiles |-> NoTile]
  /\ pc = "idle"
  /\ area = {} /\ next = 1
  /\ stcmPc = "idle"
  /\ startGen = 0 /\ closureGen = 0 /\ askedGen = 0

Cleared == [t \in Tiles |-> NoTile]

requestSyncMap ==
  /\ syncMapRequested' = TRUE
  /\ askedGen' = coreGen

(* A pass is over: its local variables are gone.                            *)
Return == pc' = "idle" /\ area' = {} /\ next' = 1 /\ startGen' = 0

-----------------------------------------------------------------------------
(* The ExploreMapUpdate worker, between two passes over the workers at pc   *)
(* "idle".                                                                  *)

(* doPerform: a map to reinitialise first, then a requested sync, else the  *)
(* surroundings of the robot.                                               *)
BeginPerform ==
  /\ pc = "idle"
  /\ \/ /\ shouldReinitMap
        /\ syncMapRequested' = TRUE
        /\ pc' = "probe"
     \/ /\ ~shouldReinitMap
        /\ pc' = IF syncMapRequested THEN "syncArea" ELSE "nearArea"
        /\ UNCHANGED syncMapRequested
  /\ UNCHANGED <<coreVars, shouldReinitMap, holderVars, area, next, startGen,
                 stcmPc, history>>

(* checkToReinitMap_: a small map is read for its resolution.               *)
Probe ==
  /\ pc = "probe"
  /\ holderRes' = coreRes
  /\ local' = Cleared
  /\ shouldReinitMap' = FALSE
  /\ pc' = "syncArea"
  /\ UNCHANGED <<coreVars, syncMapRequested, area, next, startGen, stcmPc,
                 history>>

(* syncWholeMap_ reads the known area and starts from an empty map; an empty *)
(* area fails the sync.                                                     *)
ReadKnownArea ==
  /\ pc = "syncArea"
  /\ \/ /\ known = {}
        /\ Return
        /\ UNCHANGED local
     \/ /\ known # {}
        /\ area' = known
        /\ next' \in known /\ \A u \in known : next' <= u
        /\ local' = Cleared
        /\ startGen' = coreGen
        /\ pc' = "syncTile"
  /\ UNCHANGED <<coreVars, syncMapRequested, shouldReinitMap, holderRes, stcmPc,
                 history>>

Store(t) == local' = [local EXCEPT ![t] = [gen |-> coreGen, res |-> coreRes]]

(* Mutant: what the core sends is stored without a look at its resolution.  *)
MutReceiveUnchecked(t) == Store(t) /\ UNCHANGED shouldReinitMap

(* updateMapInCellIdxRect_ succeeds.                                        *)
Receive(t) ==
  /\ coreRes = holderRes
  /\ Store(t)
  /\ UNCHANGED shouldReinitMap

(* Mutant: the mismatch is reported but nothing is done about it.           *)
MutMismatchIgnored ==
  /\ pc \in {"syncTile", "nearTile"}
  /\ coreRes # holderRes
  /\ Return
  /\ UNCHANGED <<coreVars, syncMapRequested, shouldReinitMap, holderVars, stcmPc,
                 history>>

(* checkRecvResolution_: a piece of another resolution is not stored but    *)
(* has the map reinitialised.                                               *)
ResolutionMismatch ==
  /\ pc \in {"syncTile", "nearTile"}
  /\ coreRes # holderRes
  /\ shouldReinitMap' = TRUE
  /\ Return
  /\ UNCHANGED <<coreVars, syncMapRequested, holderVars, stcmPc, history>>

LastTile == \A t \in area : t <= next

(* Mutant: the loop runs one tile past the end of the area.                 *)
MutSyncTileOverrun ==
  /\ pc = "syncTile"
  /\ Receive(next)
  /\ IF \A t \in area : t < next THEN pc' = "syncDone" /\ UNCHANGED next
     ELSE pc' = "syncTile" /\ next' = next + 1
  /\ UNCHANGED <<coreVars, syncMapRequested, holderRes, area, startGen, stcmPc,
                 history>>

SyncTile ==
  /\ pc = "syncTile"
  /\ Receive(next)
  /\ IF LastTile THEN pc' = "syncDone" /\ UNCHANGED next
     ELSE pc' = "syncTile" /\ next' = next + 1
  /\ UNCHANGED <<coreVars, syncMapRequested, holderRes, area, startGen, stcmPc,
                 history>>

SyncDone ==
  /\ pc = "syncDone"
  /\ syncMapRequested' = FALSE
  /\ Return
  /\ UNCHANGED <<coreVars, shouldReinitMap, holderVars, stcmPc, history>>

(* updateMapNearRobot_, wherever the last pose puts the robot; away from    *)
(* the known area nothing is read.                                          *)
ReadNearArea ==
  /\ pc = "nearArea"
  /\ \/ /\ known = {}
        /\ requestSyncMap
        /\ Return
     \/ /\ known # Tiles
        /\ Return
        /\ UNCHANGED <<syncMapRequested, askedGen>>
     \/ /\ next' \in known
        /\ pc' = "nearTile"
        /\ UNCHANGED <<syncMapRequested, askedGen, area, startGen>>
  /\ UNCHANGED <<coreVars, shouldReinitMap, holderVars, stcmPc, closureGen>>

NearTile ==
  /\ pc = "nearTile"
  /\ Receive(next)
  /\ Return
  /\ UNCHANGED <<coreVars, syncMapRequested, holderRes, stcmPc, history>>

(* Mutant: a piece that cannot be read is skipped.                          *)
MutCallFailsSkips ==
  /\ ~healthy
  /\ pc \in {"probe", "syncArea", "syncTile", "nearArea", "nearTile"}
  /\ IF pc # "syncTile" THEN Return
     ELSE /\ pc' = IF LastTile THEN "syncDone" ELSE "syncTile"
          /\ next' = IF LastTile THEN next ELSE next + 1
          /\ UNCHANGED <<area, startGen>>
  /\ UNCHANGED <<coreVars, syncMapRequested, shouldReinitMap, holderVars, stcmPc,
                 history>>

(* A call fails (OperationFailException, caught by getMapByPltfm_ or by     *)
(* loopWork_): the pass is over with what it has stored so far.             *)
CallFails ==
  /\ ~healthy
  /\ pc \in {"probe", "syncArea", "syncTile", "nearArea", "nearTile"}
  /\ Return
  /\ UNCHANGED <<coreVars, syncMapRequested, shouldReinitMap, holderVars, stcmPc,
                 history>>

(* Mutant: a new connection does not reinitialise the map.                  *)
MutReconnectKeepsMap ==
  /\ ~healthy
  /\ pc # "syncDone"
  /\ Return
  /\ event' = FALSE
  /\ closureGen' = coreGen
  /\ UNCHANGED <<coreGen, coreRes, known, mapUpdate, healthy, syncMapRequested,
                 shouldReinitMap, holderVars, stcmPc, askedGen>>

(* The connection is lost in a call of some worker, a new one is made and   *)
(* the workers are initialised on it: reinitWorkLoop asks for a new map,    *)
(* and a new event provider knows nothing of earlier events.                *)
Reconnect ==
  /\ ~healthy
  /\ pc # "syncDone"
  /\ Return
  /\ shouldReinitMap' = TRUE
  /\ event' = FALSE
  /\ closureGen' = coreGen
  /\ UNCHANGED <<coreGen, coreRes, known, mapUpdate, healthy, syncMapRequested,
                 holderVars, stcmPc, askedGen>>

(* Mutant: a loop closure is read but no sync requested.                    *)
MutReadEventsNoRequest ==
  /\ pc = "idle"
  /\ event
  /\ event' = FALSE
  /\ UNCHANGED <<coreGen, coreRes, known, mapUpdate, healthy, syncMapRequested,
                 shouldReinitMap, holderVars, syncVars, stcmPc, history>>

(* ServerReadEventsWorker::doPerform, in the same thread.                   *)
ReadEvents ==
  /\ pc = "idle"
  /\ event
  /\ event' = FALSE
  /\ requestSyncMap
  /\ UNCHANGED <<coreGen, coreRes, known, mapUpdate, healthy, shouldReinitMap,
                 holderVars, syncVars, stcmPc, closureGen>>

WorkStep == BeginPerform \/ Probe \/ ReadKnownArea \/ SyncTile \/ SyncDone
            \/ ReadNearArea \/ NearTile \/ ResolutionMismatch \/ CallFails

-----------------------------------------------------------------------------
(* The spin thread.                                                         *)

msgCbSyncMap ==
  /\ stcmPc = "idle"
  /\ requestSyncMap
  /\ UNCHANGED <<coreVars, shouldReinitMap, holderVars, syncVars, stcmPc,
                 closureGen>>

(* The core forgets its map: what it maps from now on is another one.       *)
ForgetMap ==
  /\ coreGen < MaxGen
  /\ coreGen' = coreGen + 1
  /\ known' = {}

msgCbClearMap ==
  /\ stcmPc = "idle"
  /\ ForgetMap
  /\ UNCHANGED <<coreRes, mapUpdate, event, healthy, syncMapRequested,
                 shouldReinitMap, holderVars, syncVars, stcmPc, history>>

msgCbSetMapUpdate ==
  /\ stcmPc = "idle"
  /\ mapUpdate' \in BOOLEAN
  /\ UNCHANGED <<coreGen, coreRes, known, event, healthy, syncMapRequested,
                 shouldReinitMap, holderVars, syncVars, stcmPc, history>>

(* srvCbSyncSetStcm_: clear, stop mapping, load, request a sync.  (Stopping *)
(* the current action and the localisation around it do not touch the map.) *)
StcmClear ==
  /\ stcmPc = "idle"
  /\ ForgetMap
  /\ stcmPc' = "updateOff"
  /\ UNCHANGED <<coreRes, mapUpdate, event, healthy, syncMapRequested,
                 shouldReinitMap, holderVars, syncVars, history>>

StcmUpdateOff ==
  /\ stcmPc = "updateOff"
  /\ mapUpdate' = FALSE
  /\ stcmPc' = "load"
  /\ UNCHANGED <<coreGen, coreRes, known, event, healthy, syncMapRequested,
                 shouldReinitMap, holderVars, syncVars, history>>

StcmLoad ==
  /\ stcmPc = "load"
  /\ coreGen < MaxGen
  /\ coreGen' = coreGen + 1
  /\ coreRes' \in Resolutions
  /\ known' = Tiles
  /\ stcmPc' = "request"
  /\ UNCHANGED <<mapUpdate, event, healthy, syncMapRequested, shouldReinitMap,
                 holderVars, syncVars, history>>

StcmRequest ==
  /\ stcmPc = "request"
  /\ requestSyncMap
  /\ stcmPc' = "idle"
  /\ UNCHANGED <<coreVars, shouldReinitMap, holderVars, syncVars, closureGen>>

(* A call throws and the service returns without a request; the last call   *)
(* before the request is setMapLocalization(true).                          *)
StcmFails ==
  /\ ~healthy
  /\ stcmPc # "idle"
  /\ stcmPc' = "idle"
  /\ UNCHANGED <<coreVars, syncMapRequested, shouldReinitMap, holderVars,
                 syncVars, history>>

SpinStep == StcmUpdateOff \/ StcmLoad \/ StcmRequest \/ StcmFails

-----------------------------------------------------------------------------
(* The core.                                                                *)

Explore ==
  /\ mapUpdate
  /\ \E t \in Tiles \ known :
       /\ known = {} \/ (t - 1) \in known \/ (t + 1) \in known
       /\ known' = known \cup {t}
  /\ UNCHANGED <<coreGen, coreRes, mapUpdate, event, healthy, syncMapRequested,
                 shouldReinitMap, holderVars, syncVars, stcmPc, history>>

LoopClosure ==
  /\ mapUpdate
  /\ known # {}
  /\ coreGen < MaxGen
  /\ coreGen' = coreGen + 1
  /\ event' = TRUE
  /\ closureGen' = coreGen + 1
  /\ UNCHANGED <<coreRes, known, mapUpdate, healthy, syncMapRequested,
                 shouldReinitMap, holderVars, syncVars, stcmPc, askedGen>>

CoreFails ==
  /\ healthy
  /\ healthy' = FALSE
  /\ UNCHANGED <<coreGen, coreRes, known, mapUpdate, event, syncMapRequested,
                 shouldReinitMap, holderVars, syncVars, stcmPc, history>>

CoreRecovers ==
  /\ ~healthy
  /\ healthy' = TRUE
  /\ UNCHANGED <<coreGen, coreRes, known, mapUpdate, event, syncMapRequested,
                 shouldReinitMap, holderVars, syncVars, stcmPc, history>>

Next ==
  \/ WorkStep \/ Reconnect \/ ReadEvents
  \/ msgCbSyncMap \/ msgCbClearMap \/ msgCbSetMapUpdate \/ StcmClear \/ SpinStep
  \/ Explore \/ LoopClosure \/ CoreFails \/ CoreRecovers

Spec == Init /\ [][Next]_vars

(* The work thread makes its calls and gives every worker its turn; a       *)
(* service that was called is carried through.  Nothing is assumed of the   *)
(* core or of the callers.                                                  *)
Fairness ==
  /\ WF_vars(WorkStep)
  /\ SF_vars(ReadEvents)
  /\ WF_vars(SpinStep)

FairSpec == Spec /\ Fairness

-----------------------------------------------------------------------------
(* Properties.                                                              *)

(* The type of every variable.                                              *)
TypeOK ==
  /\ coreGen \in Gens /\ coreRes \in Resolutions /\ known \subseteq Tiles
  /\ mapUpdate \in BOOLEAN /\ event \in BOOLEAN /\ healthy \in BOOLEAN
  /\ syncMapRequested \in BOOLEAN /\ shouldReinitMap \in BOOLEAN
  /\ holderRes \in Resolutions
  /\ local \in [Tiles -> TileData \cup {NoTile}]
  /\ pc \in {"idle", "probe", "syncArea", "syncTile", "syncDone", "nearArea",
             "nearTile"}
  /\ area \subseteq Tiles /\ next \in Tiles
  /\ stcmPc \in {"idle", "updateOff", "load", "request"}
  /\ startGen \in Gens /\ closureGen \in Gens /\ askedGen \in Gens

NoTileOlderThan(g) == \A t \in Tiles : local[t] # NoTile => local[t].gen >= g

(* Nothing left to do: no request, no reinitialisation, no pass under way.  *)
Settled == pc = "idle" /\ ~syncMapRequested /\ ~shouldReinitMap

(* The holder never mixes cells of two resolutions, although a loaded map   *)
(* may change the core's between any two calls of a sync: setMapData's      *)
(* "inconsistent resolution" is never thrown.                               *)
ResolutionUniform ==
  \A t \in Tiles : local[t] # NoTile => local[t].res = holderRes

(* A loop closure, or whatever happened while the connection was down, is   *)
(* never forgotten: once its event was read and nothing is left to do, no   *)
(* tile is older, whatever failed, or was asked for by others, on the way.  *)
LoopClosureNotForgotten == Settled /\ ~event => NoTileOlderThan(closureGen)

(* A sync that reports success has read every tile of the area the core     *)
(* knew when it began, none of them older than that, and shows no other.    *)
SyncDeliversWholeArea ==
  [][pc = "syncTile" /\ pc' = "syncDone" =>
       \A t \in Tiles :
         /\ local'[t] # NoTile <=> t \in area
         /\ local'[t] # NoTile => local'[t].gen >= startGen]_vars

(* The log says "whold explore map synchronized." and the request is        *)
(* dropped: then no tile should be older than the request.                  *)
RequestsHonoured == Settled => NoTileOlderThan(askedGen)

(* When the core stays reachable, keeps a known area and no map is loaded   *)
(* any more, every request is answered: no failure, mismatch or retry goes  *)
(* round for ever.                                                          *)
RequestAnswered ==
  <>[](healthy /\ known # {} /\ stcmPc = "idle") => []<>(~syncMapRequested)

(* And the corrections of loop closures reach the map.                      *)
LoopClosureReachesMap ==
  <>[](healthy /\ known # {}) => <>[](NoTileOlderThan(closureGen))

=============================================================================
