------------------------------ MODULE MapHolder ------------------------------
(***************************************************************************)
(* ServerMapHolder (server_map_holder.cpp): the explored map the server    *)
(* assembles from the pieces it fetches and publishes as an occupancy      *)
(* grid.  The cells live in one row-major array over the rectangle         *)
(* availCellIdxRect_, which is aligned, grows in every direction and is    *)
(* reallocated when it grows; validCellIdxRect_ bounds what was written.   *)
(*                                                                         *)
(* The work thread owns the holder, so its operations are atomic.  Areas   *)
(* in metres are left to the rectangles of cells they convert to, and the  *)
(* calls that throw or return before changing anything are stuttering      *)
(* steps (an invalid or a different resolution, an empty piece).           *)
(***************************************************************************)
EXTENDS CellRects

CONSTANTS
  MoreCellCntToExtend,   (* moreCellCntToExtend_, 32 by default             *)
  CellValues,            (* values of the core's 8-bit map                  *)
  KnownRects,            (* rectangles reserved before a whole sync         *)
  Updates,               (* pieces of map: [rect, dat]                      *)
  Cells                  (* the cells <<x, y>> the abstract map looks at    *)

ASSUME MapHolderAssumption ==
  /\ MoreCellCntToExtend \in Nat
  /\ CellValues \subseteq 0 .. 255
  /\ KnownRects \subseteq RectangleI
  /\ Cells \subseteq Int \X Int
  /\ \A u \in Updates :
       /\ u.rect \in RectangleI /\ ~IsEmpty(u.rect)
       /\ u.dat \in [Offsets(u.rect) -> CellValues]

VARIABLES
  availCellIdxRect, validCellIdxRect, mapDat,
  msgMap     (* what the last operation published, if it published          *)

vars == <<availCellIdxRect, validCellIdxRect, mapDat, msgMap>>

NoData == [k \in {} |-> 0]
NoMessage == [rect |-> NullRect, data |-> NoData]

Init ==
  /\ availCellIdxRect = NullRect
  /\ validCellIdxRect = NullRect
  /\ mapDat = NoData
  /\ msgMap = NoMessage

(* Mutant: the array is not released.                                       *)
MutClearKeepsData ==
  /\ availCellIdxRect' = NullRect
  /\ validCellIdxRect' = NullRect
  /\ UNCHANGED mapDat

Clear ==
  /\ availCellIdxRect' = NullRect
  /\ validCellIdxRect' = NullRect
  /\ mapDat' = NoData

(* clear() and reinit(resolution): the resolution itself is MapSync's.      *)
clear ==
  /\ Clear
  /\ msgMap' = NoMessage

-----------------------------------------------------------------------------
(* The rectangle and the data after reserveByCellIdxRect(r).                *)

(* Mutant: the new rectangle is not aligned.                                *)
MutReservedUnaligned(r) ==
  IF IsEmpty(r) \/ sfDoesCellIdxRectContain(availCellIdxRect, r)
  THEN availCellIdxRect
  ELSE sfMergeCellIdxRect(availCellIdxRect, r)

ReservedRect(r) ==
  IF IsEmpty(r) \/ sfDoesCellIdxRectContain(availCellIdxRect, r)
  THEN availCellIdxRect
  ELSE sfCalcAdjustedCellIdxRect(sfMergeCellIdxRect(availCellIdxRect, r))

(* memcpy.                                                                  *)
Same == [v \in 0 .. 255 |-> v]

(* Mutant: the old rows are copied to the corner of the new array.          *)
MutReservedDataOffset(avail) ==
  IF avail = availCellIdxRect THEN mapDat
  ELSE LET v == validCellIdxRect
           zeros == [k \in Offsets(avail) |-> 0]
       IN IF IsEmpty(v) THEN zeros
          ELSE CopyRows(zeros, 0, avail.w,
                        mapDat, CellOffset(availCellIdxRect, v.x, v.y),
                        availCellIdxRect.w, v.w, v.h, Same)

(* A new array of zeros into which the valid rows are copied.               *)
ReservedData(avail) ==
  IF avail = availCellIdxRect THEN mapDat
  ELSE LET v == validCellIdxRect
           zeros == [k \in Offsets(avail) |-> 0]
       IN IF IsEmpty(v) THEN zeros
          ELSE CopyRows(zeros, CellOffset(avail, v.x, v.y), avail.w,
                        mapDat, CellOffset(availCellIdxRect, v.x, v.y),
                        availCellIdxRect.w, v.w, v.h, Same)

reserveByCellIdxRect(r) ==
  /\ availCellIdxRect' = ReservedRect(r)
  /\ mapDat' = ReservedData(ReservedRect(r))
  /\ msgMap' = NoMessage
  /\ UNCHANGED validCellIdxRect

(* checkToExtendMap_: the sides the update sticks out of move some cells    *)
(* further than needed.                                                     *)
ExtendedRect(up) ==
  LET a == availCellIdxRect
      more == MoreCellCntToExtend
      xMin == IF up.x < a.x THEN up.x - more ELSE a.x
      yMin == IF up.y < a.y THEN up.y - more ELSE a.y
      xEnd == IF XEnd(a) < XEnd(up) THEN XEnd(up) + more ELSE XEnd(a)
      yEnd == IF YEnd(a) < YEnd(up) THEN YEnd(up) + more ELSE YEnd(a)
  IN Rect(xMin, yMin, xEnd - xMin, yEnd - yMin)

AvailFor(up) ==
  IF sfDoesCellIdxRectContain(availCellIdxRect, up) THEN availCellIdxRect
  ELSE ReservedRect(ExtendedRect(up))

setMapData(u) ==
  LET avail == AvailFor(u.rect)
  IN /\ availCellIdxRect' = avail
     /\ mapDat' = CopyRows(ReservedData(avail),
                           CellOffset(avail, u.rect.x, u.rect.y), avail.w,
                           u.dat, 0, u.rect.w, u.rect.w, u.rect.h, Same)
     /\ validCellIdxRect' = sfMergeCellIdxRect(validCellIdxRect, u.rect)
     /\ msgMap' = NoMessage

-----------------------------------------------------------------------------
(* fillRosMapMsg over the valid rectangle, as ServerExploreMapPublishWorker *)
(* calls it when there is data.                                             *)

RosCell ==
  [v \in 0 .. 255 |-> IF v = 0 THEN -1 ELSE IF v <= 127 THEN 0 ELSE 100]

FilledData(res) ==
  LET inter == sfIntersectionOfCellIdxRect(validCellIdxRect, res)
      empty == [k \in Offsets(res) |-> -1]
  IN IF IsEmpty(inter) THEN empty
     ELSE CopyRows(empty, CellOffset(res, inter.x, inter.y), res.w,
                   mapDat, CellOffset(availCellIdxRect, inter.x, inter.y),
                   availCellIdxRect.w, inter.w, inter.h, RosCell)

fillRosMapMsg ==
  /\ ~IsEmpty(validCellIdxRect)
  /\ msgMap' = [rect |-> validCellIdxRect, data |-> FilledData(validCellIdxRect)]
  /\ UNCHANGED <<availCellIdxRect, validCellIdxRect, mapDat>>

Next ==
  \/ clear
  \/ \E r \in KnownRects : reserveByCellIdxRect(r)
  \/ \E u \in Updates : setMapData(u)
  \/ fillRosMapMsg

Spec == Init /\ [][Next]_vars

-----------------------------------------------------------------------------
(* Properties.                                                              *)

(* The array always has exactly the cells of the available rectangle.       *)
TypeOK ==
  /\ availCellIdxRect \in RectangleI
  /\ validCellIdxRect \in RectangleI
  /\ mapDat \in [Offsets(availCellIdxRect) -> CellValues \cup {0}]
  /\ msgMap.rect \in RectangleI
  /\ msgMap.data \in [Offsets(msgMap.rect) -> {-1, 0, 100}]

Aligned(r) ==
  r.x % Alignment = 0 /\ r.y % Alignment = 0 /\ r.w % Alignment = 0
  /\ r.h % Alignment = 0

(* The written part lies in the allocated part, which is aligned and empty  *)
(* only as a whole, however the map grew.                                   *)
Storage ==
  /\ Aligned(availCellIdxRect)
  /\ IsEmpty(availCellIdxRect) => availCellIdxRect = NullRect
  /\ ~IsEmpty(validCellIdxRect) =>
       sfDoesCellIdxRectContain(availCellIdxRect, validCellIdxRect)

(* Whatever piece arrives or area is reserved next, in any direction and on *)
(* an empty map too, the BOOST_ASSERTs of checkToExtendMap_,                *)
(* sfCalcAdjustedCellIdxRect_, reserveByCellIdxRect and setMapData hold:    *)
(* the new rectangle contains what it was computed for, the piece, and      *)
(* everything already written.                                              *)
NextPieceFits ==
  /\ \A r \in KnownRects :
       ~IsEmpty(r) => sfDoesCellIdxRectContain(ReservedRect(r), r)
  /\ \A u \in Updates :
       LET ext == ExtendedRect(u.rect)
       IN /\ ~IsEmpty(ext)
          /\ sfDoesCellIdxRectContain(ReservedRect(ext), ext)
          /\ sfDoesCellIdxRectContain(AvailFor(u.rect), u.rect)
          /\ ~IsEmpty(validCellIdxRect) =>
               sfDoesCellIdxRectContain(AvailFor(u.rect), validCellIdxRect)

-----------------------------------------------------------------------------
(* The refinement of MapPicture.                                            *)

ShownPicture ==
  [c \in Cells |->
     IF InRect(validCellIdxRect, c[1], c[2])
     THEN mapDat[CellOffset(availCellIdxRect, c[1], c[2])] ELSE 0]

ShownMessage ==
  [extent |-> msgMap.rect,
   classes |-> [c \in {c \in Cells : InRect(msgMap.rect, c[1], c[2])} |->
                  msgMap.data[CellOffset(msgMap.rect, c[1], c[2])]]]

Picture == INSTANCE MapPicture WITH
  picture <- ShownPicture, extent <- validCellIdxRect, published <- ShownMessage

(* The array with its offsets behaves as a picture: through every growth a  *)
(* cell reads as what was last written to it, and the published message     *)
(* shows the picture, no cell moved and no old cell left.                   *)
RefinesPicture == Picture!Spec

=============================================================================
