------------------------------ MODULE CellRects ------------------------------
(***************************************************************************)
(* The integer rectangles of ServerMapHolder (server_map_holder.cpp): a    *)
(* rectangle of cell indices is its lower corner and its size, and it is   *)
(* empty unless both sizes are positive.  The static sf... functions are   *)
(* operators here, with their names.                                       *)
(***************************************************************************)
EXTENDS Integers

CONSTANT Alignment   (* C_MAP_DATA_SIZE_ALIGNMENT, 16 in the code *)

ASSUME AlignmentAssumption == Alignment \in Nat \ {0}

Rect(x, y, w, h) == [x |-> x, y |-> y, w |-> w, h |-> h]
RectangleI == [x : Int, y : Int, w : Int, h : Int]
NullRect == Rect(0, 0, 0, 0)

XEnd(r) == r.x + r.w
YEnd(r) == r.y + r.h

IsEmpty(r) == r.w <= 0 \/ r.h <= 0

InRect(r, x, y) == r.x <= x /\ x < XEnd(r) /\ r.y <= y /\ y < YEnd(r)

Smaller(a, b) == IF a <= b THEN a ELSE b
Larger(a, b) == IF a <= b THEN b ELSE a

sfDoesCellIdxRectContain(r, obj) ==
  /\ ~IsEmpty(r)
  /\ r.x <= obj.x /\ obj.x < XEnd(r)
  /\ obj.x + Larger(obj.w, 0) <= XEnd(r)
  /\ r.y <= obj.y /\ obj.y < YEnd(r)
  /\ obj.y + Larger(obj.h, 0) <= YEnd(r)

sfMergeCellIdxRect(a, b) ==
  IF IsEmpty(b) THEN a ELSE IF IsEmpty(a) THEN b
  ELSE LET xMin == Smaller(a.x, b.x)
           yMin == Smaller(a.y, b.y)
       IN Rect(xMin, yMin, Larger(XEnd(a), XEnd(b)) - xMin,
               Larger(YEnd(a), YEnd(b)) - yMin)

sfIntersectionOfCellIdxRect(a, b) ==
  IF IsEmpty(a) \/ IsEmpty(b) THEN NullRect
  ELSE LET xMin == Larger(a.x, b.x)
           yMin == Larger(a.y, b.y)
       IN Rect(xMin, yMin, Larger(Smaller(XEnd(a), XEnd(b)) - xMin, 0),
               Larger(Smaller(YEnd(a), YEnd(b)) - yMin, 0))

(* The code divides unsigned magnitudes, so the two signs are two cases.    *)
sfGetAlignedFloorCellIdx(i) ==
  IF i < 0 THEN -((((-i - 1) \div Alignment) + 1) * Alignment)
  ELSE (i \div Alignment) * Alignment

sfGetAlignedCeilSize(n) == ((n + (Alignment - 1)) \div Alignment) * Alignment

(* Mutant: the size is aligned before the corner moves down to a multiple   *)
(* of the alignment.                                                        *)
MutAdjustedSize(r) ==
  IF IsEmpty(r) THEN NullRect
  ELSE Rect(sfGetAlignedFloorCellIdx(r.x), sfGetAlignedFloorCellIdx(r.y),
            sfGetAlignedCeilSize(r.w), sfGetAlignedCeilSize(r.h))

sfCalcAdjustedCellIdxRect(r) ==
  IF IsEmpty(r) THEN NullRect
  ELSE LET xMin == sfGetAlignedFloorCellIdx(r.x)
           yMin == sfGetAlignedFloorCellIdx(r.y)
       IN Rect(xMin, yMin, sfGetAlignedCeilSize(XEnd(r) - xMin),
               sfGetAlignedCeilSize(YEnd(r) - yMin))

(* The offset of a cell in the row-major data of a rectangle.               *)
CellOffset(r, x, y) == (y - r.y) * r.w + (x - r.x)

Offsets(r) == 0 .. r.w * r.h - 1

-----------------------------------------------------------------------------
(* The loops that copy `rows` rows of `n` cells between two row-major       *)
(* arrays, one memcpy (or one inner loop) per row: an offset and a width on *)
(* each side, and a function that converts each cell on the way.            *)
CopyRows(dst, dstOff, dstW, src, srcOff, srcW, n, rows, conv) ==
  [k \in DOMAIN dst |->
     LET j == (k - dstOff) \div dstW
         i == (k - dstOff) % dstW
     IN IF dstOff <= k /\ j < rows /\ i < n
        THEN conv[src[srcOff + j * srcW + i]]
        ELSE dst[k]]

=============================================================================
