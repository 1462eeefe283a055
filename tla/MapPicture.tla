------------------------------ MODULE MapPicture ------------------------------
(***************************************************************************)
(* What ServerMapHolder promises its clients, without its storage: a       *)
(* picture that gives every cell the value last written to it (unknown if  *)
(* never), the extent of what was written since the last clear, and the    *)
(* message a publication sends, which shows exactly the extent, each cell  *)
(* in the three classes of a ROS occupancy grid.                           *)
(***************************************************************************)
EXTENDS CellRects

CONSTANTS
  Cells,      (* the cells <<x, y>> looked at; they include every update    *)
  Updates     (* [rect, dat] updates, dat the row-major values of rect      *)

VARIABLES
  picture,    (* [Cells -> value]                                           *)
  extent,     (* bounding rectangle of the updates since the last clear     *)
  published   (* what was just published: an extent and its classes        *)

OccupancyClass(v) == IF v = 0 THEN -1 ELSE IF v <= 127 THEN 0 ELSE 100

(* A cell that was never written is 0, unknown.                             *)
Blank == [c \in Cells |-> 0]
NoMessage == [extent |-> NullRect, classes |-> [c \in {} |-> 0]]

CellsOf(r) == {c \in Cells : InRect(r, c[1], c[2])}

Init == picture = Blank /\ extent = NullRect /\ published = NoMessage

Clear ==
  /\ picture' = Blank
  /\ extent' = NullRect
  /\ published' = NoMessage

Write(u) ==
  /\ picture' = [c \in Cells |->
                   IF InRect(u.rect, c[1], c[2])
                   THEN u.dat[CellOffset(u.rect, c[1], c[2])]
                   ELSE picture[c]]
  /\ extent' = sfMergeCellIdxRect(extent, u.rect)
  /\ published' = NoMessage

Publish ==
  /\ ~IsEmpty(extent)
  /\ published' = [extent |-> extent,
                   classes |-> [c \in CellsOf(extent) |-> OccupancyClass(picture[c])]]
  /\ UNCHANGED <<picture, extent>>

(* Reserving room changes nothing here, but ends a publication.             *)
Reserve ==
  /\ published' = NoMessage
  /\ UNCHANGED <<picture, extent>>

Next == Clear \/ Reserve \/ (\E u \in Updates : Write(u)) \/ Publish

Spec == Init /\ [][Next]_<<picture, extent, published>>

=============================================================================
