---------------------------- MODULE MapSyncProofs ----------------------------
(***************************************************************************)
(* For any number of tiles, generations and resolutions: the map has one   *)
(* resolution, no loop closure is forgotten, and a sync that succeeds has  *)
(* read the whole area.                                                    *)
(***************************************************************************)
EXTENDS MapSync, TLAPS

USE MapSyncAssumption

-----------------------------------------------------------------------------
(* Nothing older than the last closure stays unless something is still to   *)
(* be done about it.                                                        *)
ClosureNoted ==
  \/ event \/ shouldReinitMap \/ syncMapRequested
  \/ NoTileOlderThan(closureGen)

InSync == pc \in {"syncTile", "syncDone"}

(* What a sync has read is of the time since it began; a closure meanwhile  *)
(* has left its event, which is not read before the sync is over.           *)
SyncIsRecent ==
  /\ closureGen <= coreGen
  /\ InSync => /\ startGen <= coreGen
               /\ NoTileOlderThan(startGen)
               /\ event \/ closureGen <= startGen

Contiguous(S) == \A a, b \in S : \A t \in Tiles : a <= t /\ t <= b => t \in S

(* The part of the area that has been read.                                 *)
SyncProgress ==
  /\ Contiguous(known) /\ Contiguous(area)
  /\ pc = "syncTile" =>
       /\ next \in area
       /\ \A t \in Tiles : local[t] # NoTile <=> t \in area /\ t < next

IInv == TypeOK /\ ResolutionUniform /\ ClosureNoted /\ SyncIsRecent /\ SyncProgress

Pcs == {"idle", "probe", "syncArea", "syncTile", "syncDone", "nearArea", "nearTile"}

LEMMA InitIInv == Init => IInv
<1> SUFFICES ASSUME Init PROVE IInv
  OBVIOUS
<1>1. TypeOK
  <2>1. /\ mapUpdate \in BOOLEAN /\ event \in BOOLEAN /\ healthy \in BOOLEAN
        /\ syncMapRequested \in BOOLEAN /\ shouldReinitMap \in BOOLEAN
    BY Zenon DEF Init
  <2>2. known \subseteq Tiles /\ area \subseteq Tiles /\ next \in Tiles
    BY DEF Init, Tiles
  <2>3. local \in [Tiles -> TileData \cup {NoTile}]
    BY DEF Init
  <2>4. /\ coreGen \in Gens /\ coreRes \in Resolutions /\ holderRes \in Resolutions
        /\ startGen \in Gens /\ closureGen \in Gens /\ askedGen \in Gens
    BY DEF Init, Gens
  <2>5. pc \in Pcs /\ stcmPc \in {"idle", "updateOff", "load", "request"}
    BY DEF Init, Pcs
  <2> QED BY <2>1, <2>2, <2>3, <2>4, <2>5 DEF TypeOK, Pcs
<1>2. ResolutionUniform /\ SyncIsRecent
  BY DEF Init, ResolutionUniform, SyncIsRecent, InSync
<1>3. ClosureNoted
  BY Zenon DEF Init, ClosureNoted
<1>4. SyncProgress
  BY DEF Init, SyncProgress, Contiguous, Tiles
<1> QED BY <1>1, <1>2, <1>3, <1>4 DEF IInv

-----------------------------------------------------------------------------
(* What is stored is of the core's present generation and of the holder's   *)
(* resolution.                                                              *)
LEMMA StoreKeeps ==
  ASSUME TypeOK, ResolutionUniform, NEW t \in Tiles, Receive(t), UNCHANGED holderRes
  PROVE  /\ local' \in [Tiles -> TileData \cup {NoTile}]
         /\ shouldReinitMap' = shouldReinitMap
         /\ local'[t] # NoTile /\ local'[t].gen = coreGen
         /\ \A u \in Tiles \ {t} : local'[u] = local[u]
         /\ ResolutionUniform'
<1> DEFINE data == [gen |-> coreGen, res |-> coreRes]
<1>1. data \in TileData /\ data.gen = coreGen /\ data.res = holderRes
  BY DEF TypeOK, TileData, Receive
<1>2. local' = [local EXCEPT ![t] = data] /\ shouldReinitMap' = shouldReinitMap
  BY DEF Receive, Store
<1> HIDE DEF data
<1>3. /\ local' \in [Tiles -> TileData \cup {NoTile}] /\ local'[t] = data
      /\ \A u \in Tiles \ {t} : local'[u] = local[u]
  BY <1>1, <1>2 DEF TypeOK
<1>4. ResolutionUniform'
  BY <1>1, <1>3 DEF ResolutionUniform
<1> QED BY <1>1, <1>2, <1>3, <1>4

LEMMA ClearedIsEmpty ==
  ASSUME local' = Cleared
  PROVE  /\ local' \in [Tiles -> TileData \cup {NoTile}]
         /\ \A t \in Tiles : local'[t] = NoTile
  BY DEF Cleared

-----------------------------------------------------------------------------
(* The steps of the work thread.                                            *)
LEMMA WorkIInv ==
  ASSUME IInv, WorkStep \/ Reconnect \/ ReadEvents
  PROVE  IInv'
<1> USE DEF IInv, TypeOK
<1> USE DEF coreVars, holderVars, syncVars, history
<1>1. CASE BeginPerform
  <2>1. /\ UNCHANGED <<coreVars, shouldReinitMap, holderVars, area, next, startGen,
                       stcmPc, history>>
        /\ pc' \in {"probe", "syncArea", "nearArea"}
    BY <1>1, Zenon DEF BeginPerform
  <2>2. syncMapRequested' \in BOOLEAN
    BY <1>1, Zenon DEF BeginPerform
  <2>3. syncMapRequested => syncMapRequested'
    BY <1>1, Zenon DEF BeginPerform
  <2> QED BY <2>1, <2>2, <2>3 DEF ResolutionUniform, ClosureNoted, SyncIsRecent, InSync,
                            SyncProgress, NoTileOlderThan, Contiguous
<1>2. CASE Probe
  <2>1. /\ UNCHANGED <<coreVars, syncMapRequested, area, next, startGen, stcmPc,
                       history>>
        /\ holderRes' = coreRes /\ pc' = "syncArea"
        /\ local' = Cleared
    BY <1>2 DEF Probe
  <2>2. shouldReinitMap' \in BOOLEAN
    BY <1>2, Zenon DEF Probe
  <2> QED BY <2>1, <2>2, ClearedIsEmpty DEF ResolutionUniform, ClosureNoted, SyncIsRecent, InSync,
                            SyncProgress, NoTileOlderThan, Contiguous
<1>3. CASE ReadKnownArea
  <2>1. UNCHANGED <<coreVars, syncMapRequested, shouldReinitMap, holderRes, stcmPc,
                    history>>
    BY <1>3 DEF ReadKnownArea
  <2>2. CASE Return /\ UNCHANGED local
    BY <2>1, <2>2 DEF Return, Gens, Tiles, ResolutionUniform, ClosureNoted,
                      SyncIsRecent, InSync, SyncProgress, NoTileOlderThan, Contiguous
  <2>3. ASSUME local' = Cleared, area' = known, startGen' = coreGen, pc' = "syncTile",
               next' \in known, \A u \in known : next' <= u
        PROVE  IInv'
    <3>1. TypeOK'
      BY <2>1, <2>3, ClearedIsEmpty
    <3>2. ResolutionUniform' /\ \A g : NoTileOlderThan(g)'
      BY <2>3, ClearedIsEmpty DEF ResolutionUniform, NoTileOlderThan
    <3>3. ClosureNoted' /\ SyncIsRecent'
      BY <2>1, <2>3, <3>2 DEF ClosureNoted, SyncIsRecent, InSync, Gens
    <3>4. SyncProgress'
      BY <2>1, <2>3, ClearedIsEmpty DEF SyncProgress, Contiguous, Tiles
    <3> QED BY <3>1, <3>2, <3>3, <3>4
  <2> QED BY <1>3, <2>2, <2>3 DEF ReadKnownArea
<1>4. CASE SyncTile
  <2>1. /\ pc = "syncTile" /\ Receive(next)
        /\ UNCHANGED <<coreVars, syncMapRequested, holderRes, area, startGen, stcmPc,
                       history>>
    BY <1>4 DEF SyncTile
  <2>2. /\ pc' \in {"syncTile", "syncDone"}
        /\ pc' = "syncTile" => ~LastTile /\ next' = next + 1
        /\ pc' = "syncDone" => next' = next
    BY <1>4 DEF SyncTile
  <2>3. ~LastTile => next + 1 \in area
    BY <2>1 DEF LastTile, SyncProgress, Contiguous, Tiles
  <2>4. TypeOK'
    BY <2>1, <2>2, <2>3, StoreKeeps DEF Tiles
  <2>5. ClosureNoted' /\ SyncIsRecent'
    BY <2>1, <2>2, StoreKeeps DEF ClosureNoted, SyncIsRecent, InSync, NoTileOlderThan, Gens
  <2>6. SyncProgress'
    BY <2>1, <2>2, <2>3, StoreKeeps DEF SyncProgress, Contiguous, Tiles
  <2> QED BY <2>1, <2>4, <2>5, <2>6, StoreKeeps
<1>5. CASE SyncDone
  <2>1. /\ UNCHANGED <<coreVars, shouldReinitMap, holderVars, stcmPc, history>>
        /\ pc = "syncDone"
        /\ Return
    BY <1>5 DEF SyncDone
  <2>2. syncMapRequested' \in BOOLEAN
    BY <1>5, Zenon DEF SyncDone
  <2>3. ClosureNoted'
    BY <2>1 DEF ClosureNoted, SyncIsRecent, InSync, NoTileOlderThan, TileData, Gens
  <2> QED BY <2>1, <2>2, <2>3 DEF Return, Gens, Tiles, ResolutionUniform,
                      SyncIsRecent, InSync, SyncProgress, NoTileOlderThan, Contiguous
<1>6. CASE ReadNearArea
  <2>1. UNCHANGED <<coreVars, shouldReinitMap, holderVars, stcmPc, closureGen>>
    BY <1>6 DEF ReadNearArea
  <2>2. CASE Return /\ UNCHANGED <<syncMapRequested, askedGen>>
    BY <2>1, <2>2 DEF Return, Gens, Tiles, ResolutionUniform, ClosureNoted,
                      SyncIsRecent, InSync, SyncProgress, NoTileOlderThan, Contiguous
  <2>3. CASE Return /\ requestSyncMap
    <3>1. syncMapRequested' \in BOOLEAN /\ syncMapRequested' /\ askedGen' = coreGen
      BY <2>3, Zenon DEF requestSyncMap
    <3> QED BY <2>1, <2>3, <3>1 DEF Return, Gens, Tiles, ResolutionUniform,
                      ClosureNoted, SyncIsRecent, InSync, SyncProgress, Contiguous
  <2>4. ASSUME next' \in known, pc' = "nearTile",
               UNCHANGED <<syncMapRequested, askedGen, area, startGen>>
        PROVE  IInv'
    BY <2>1, <2>4 DEF ResolutionUniform, ClosureNoted, SyncIsRecent, InSync,
                      SyncProgress, NoTileOlderThan, Contiguous
  <2> QED BY <1>6, <2>2, <2>3, <2>4 DEF ReadNearArea
<1>7. CASE NearTile
  <2>1. /\ UNCHANGED <<coreVars, syncMapRequested, holderRes, stcmPc, history>>
        /\ Receive(next) /\ Return
    BY <1>7 DEF NearTile
  <2>2. ClosureNoted'
    BY <2>1, StoreKeeps DEF ClosureNoted, SyncIsRecent, NoTileOlderThan, Gens
  <2> QED BY <2>1, <2>2, StoreKeeps DEF Return, Gens, Tiles, ResolutionUniform,
                      SyncIsRecent, InSync, SyncProgress, Contiguous
<1>8. CASE ResolutionMismatch
  <2>1. /\ UNCHANGED <<coreVars, syncMapRequested, holderVars, stcmPc, history>>
        /\ Return
    BY <1>8 DEF ResolutionMismatch
  <2>2. shouldReinitMap' \in BOOLEAN /\ shouldReinitMap'
    BY <1>8, Zenon DEF ResolutionMismatch
  <2> QED BY <2>1, <2>2 DEF Return, Gens, Tiles, ResolutionUniform, ClosureNoted,
                      SyncIsRecent, InSync, SyncProgress, NoTileOlderThan, Contiguous
<1>9. CASE CallFails
  BY <1>9 DEF CallFails, Return, Gens, Tiles, ResolutionUniform, ClosureNoted,
              SyncIsRecent, InSync, SyncProgress, NoTileOlderThan, Contiguous
<1>10. CASE Reconnect
  <2>1. /\ UNCHANGED <<coreGen, coreRes, known, mapUpdate, healthy, syncMapRequested,
                       holderVars, stcmPc, askedGen>>
        /\ Return /\ closureGen' = coreGen
    BY <1>10 DEF Reconnect
  <2>2. /\ shouldReinitMap' \in BOOLEAN /\ shouldReinitMap'
        /\ event' \in BOOLEAN
    BY <1>10, Zenon DEF Reconnect
  <2> QED BY <2>1, <2>2 DEF Return, Gens, Tiles, ResolutionUniform, ClosureNoted,
                      SyncIsRecent, InSync, SyncProgress, Contiguous
<1>11. CASE ReadEvents
  <2>1. /\ UNCHANGED <<coreGen, coreRes, known, mapUpdate, healthy, shouldReinitMap,
                       holderVars, syncVars, stcmPc, closureGen>>
        /\ pc = "idle" /\ askedGen' = coreGen
    BY <1>11 DEF ReadEvents, requestSyncMap
  <2>2. /\ syncMapRequested' \in BOOLEAN /\ syncMapRequested'
        /\ event' \in BOOLEAN
    BY <1>11, Zenon DEF ReadEvents, requestSyncMap
  <2> QED BY <2>1, <2>2 DEF ResolutionUniform, ClosureNoted,
                      SyncIsRecent, InSync, SyncProgress, Contiguous
<1> QED
  BY <1>1, <1>2, <1>3, <1>4, <1>5, <1>6, <1>7, <1>8, <1>9, <1>10, <1>11 DEF WorkStep

-----------------------------------------------------------------------------
(* The spin thread and the core leave the holder and the pass alone.        *)
LEMMA OtherIInv ==
  ASSUME IInv,
         \/ msgCbSyncMap \/ msgCbClearMap \/ msgCbSetMapUpdate \/ StcmClear \/ SpinStep
         \/ Explore \/ LoopClosure \/ CoreFails \/ CoreRecovers
  PROVE  IInv'
<1> USE DEF IInv, TypeOK, ResolutionUniform, ClosureNoted, SyncIsRecent, InSync,
            SyncProgress, NoTileOlderThan, Contiguous,
            coreVars, holderVars, syncVars, history
<1>1. CASE msgCbSyncMap
  <2>1. syncMapRequested' \in BOOLEAN /\ syncMapRequested'
    BY <1>1, Zenon DEF msgCbSyncMap, requestSyncMap
  <2>2. UNCHANGED <<coreVars, shouldReinitMap, holderVars, syncVars, stcmPc, closureGen>>
        /\ askedGen' = coreGen
    BY <1>1 DEF msgCbSyncMap, requestSyncMap
  <2> QED BY <2>1, <2>2
<1>2. CASE msgCbClearMap
  BY <1>2 DEF msgCbClearMap, ForgetMap, Gens
<1>3. CASE msgCbSetMapUpdate
  BY <1>3 DEF msgCbSetMapUpdate
<1>4. CASE StcmClear
  BY <1>4 DEF StcmClear, ForgetMap, Gens
<1>5. CASE StcmUpdateOff
  <2>1. mapUpdate' \in BOOLEAN
    BY <1>5, Zenon DEF StcmUpdateOff
  <2>2. /\ UNCHANGED <<coreGen, coreRes, known, event, healthy, syncMapRequested,
                       shouldReinitMap, holderVars, syncVars, history>>
        /\ stcmPc' = "load"
    BY <1>5 DEF StcmUpdateOff
  <2> QED BY <2>1, <2>2
<1>6. CASE StcmLoad
  BY <1>6 DEF StcmLoad, Gens, Tiles
<1>7. CASE StcmRequest
  <2>1. syncMapRequested' \in BOOLEAN /\ syncMapRequested'
    BY <1>7, Zenon DEF StcmRequest, requestSyncMap
  <2>2. UNCHANGED <<coreVars, shouldReinitMap, holderVars, syncVars, closureGen>>
        /\ stcmPc' = "idle" /\ askedGen' = coreGen
    BY <1>7 DEF StcmRequest, requestSyncMap
  <2> QED BY <2>1, <2>2
<1>8. CASE StcmFails
  BY <1>8 DEF StcmFails
<1>9. CASE Explore
  BY <1>9 DEF Explore, Tiles
<1>10. CASE LoopClosure
  <2>1. event' \in BOOLEAN /\ event'
    BY <1>10, Zenon DEF LoopClosure
  <2>2. /\ coreGen' = coreGen + 1 /\ coreGen' \in Gens
        /\ closureGen' = coreGen + 1
        /\ UNCHANGED <<coreRes, known, mapUpdate, healthy, syncMapRequested,
                       shouldReinitMap, holderVars, syncVars, stcmPc, askedGen>>
    BY <1>10 DEF LoopClosure, Gens
  <2> QED BY <2>1, <2>2 DEF Gens
<1>11. CASE CoreFails
  <2>1. healthy' \in BOOLEAN
    BY <1>11, Zenon DEF CoreFails
  <2>2. UNCHANGED <<coreGen, coreRes, known, mapUpdate, event, syncMapRequested,
                    shouldReinitMap, holderVars, syncVars, stcmPc, history>>
    BY <1>11 DEF CoreFails
  <2> QED BY <2>1, <2>2
<1>12. CASE CoreRecovers
  <2>1. healthy' \in BOOLEAN
    BY <1>12, Zenon DEF CoreRecovers
  <2>2. UNCHANGED <<coreGen, coreRes, known, mapUpdate, event, syncMapRequested,
                    shouldReinitMap, holderVars, syncVars, stcmPc, history>>
    BY <1>12 DEF CoreRecovers
  <2> QED BY <2>1, <2>2
<1> QED
  BY <1>1, <1>2, <1>3, <1>4, <1>5, <1>6, <1>7, <1>8, <1>9, <1>10, <1>11, <1>12
  DEF SpinStep

LEMMA NextIInv == IInv /\ [Next]_vars => IInv'
<1>1. ASSUME IInv, UNCHANGED vars PROVE IInv'
  BY <1>1 DEF vars, coreVars, holderVars, syncVars, history, IInv, TypeOK,
              ResolutionUniform, ClosureNoted, SyncIsRecent, InSync, SyncProgress,
              NoTileOlderThan, Contiguous
<1> QED BY <1>1, WorkIInv, OtherIInv, Zenon DEF Next

-----------------------------------------------------------------------------
(* Every variable of the two threads and of the core keeps its type.        *)
THEOREM TypeCorrect == Spec => []TypeOK
<1>1. IInv => TypeOK
  BY DEF IInv
<1> QED BY InitIInv, NextIInv, <1>1, PTL DEF Spec

(* checkRecvResolution_ before every piece is stored: the holder never      *)
(* mixes two resolutions.                                                   *)
THEOREM OneResolution == Spec => []ResolutionUniform
<1>1. IInv => ResolutionUniform
  BY DEF IInv
<1> QED BY InitIInv, NextIInv, <1>1, PTL DEF Spec

(* ServerReadEventsWorker and reinitWorkLoop: once nothing is left to do,   *)
(* no tile is older than the last loop closure or reconnection.             *)
THEOREM ClosuresReach == Spec => []LoopClosureNotForgotten
<1>1. IInv => LoopClosureNotForgotten
  BY DEF IInv, ClosureNoted, LoopClosureNotForgotten, Settled
<1> QED BY InitIInv, NextIInv, <1>1, PTL DEF Spec

-----------------------------------------------------------------------------
LEMMA LastTileIsLast ==
  ASSUME IInv, [Next]_vars, pc = "syncTile", pc' = "syncDone"
  PROVE  \A t \in Tiles : /\ local'[t] # NoTile <=> t \in area
                          /\ local'[t] # NoTile => local'[t].gen >= startGen
<1> USE DEF IInv, TypeOK
<1>1. SyncTile
  BY DEF Next, WorkStep, BeginPerform, Probe, ReadKnownArea, SyncDone, ReadNearArea,
         NearTile, ResolutionMismatch, CallFails, Reconnect, ReadEvents, Return,
         msgCbSyncMap, msgCbClearMap, msgCbSetMapUpdate, StcmClear, SpinStep,
         StcmUpdateOff, StcmLoad, StcmRequest, StcmFails, Explore, LoopClosure,
         CoreFails, CoreRecovers, vars, syncVars
<1>2. Receive(next) /\ LastTile /\ UNCHANGED holderRes
  BY <1>1 DEF SyncTile
<1>3. ASSUME NEW t \in Tiles PROVE local'[t] # NoTile <=> t \in area
  BY <1>2, StoreKeeps DEF LastTile, SyncProgress, Tiles
<1>4. ASSUME NEW t \in Tiles, local'[t] # NoTile PROVE local'[t].gen >= startGen
  BY <1>2, <1>4, StoreKeeps DEF SyncIsRecent, InSync, NoTileOlderThan, Gens
<1> QED BY <1>3, <1>4

(* syncWholeMap_: a sync that reports success has read every tile of its    *)
(* area, none before it began.                                              *)
THEOREM SyncIsWhole == Spec => SyncDeliversWholeArea
<1>1. IInv /\ [Next]_vars
      => [pc = "syncTile" /\ pc' = "syncDone" =>
            \A t \in Tiles : /\ local'[t] # NoTile <=> t \in area
                             /\ local'[t] # NoTile => local'[t].gen >= startGen]_vars
  BY LastTileIsLast
<1> QED BY InitIInv, NextIInv, <1>1, PTL DEF Spec, SyncDeliversWholeArea

=============================================================================
