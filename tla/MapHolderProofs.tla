--------------------------- MODULE MapHolderProofs ---------------------------
(***************************************************************************)
(* For any alignment, slack, cell values and pieces: the storage contains  *)
(* what was written and is aligned, the next piece fits, the row loops     *)
(* stay inside the arrays, and the whole implements MapPicture.            *)
(***************************************************************************)
EXTENDS MapHolder, TLAPS

USE AlignmentAssumption, MapHolderAssumption

-----------------------------------------------------------------------------
(* Rounding to multiples of the alignment.                                  *)

LEMMA DivMod ==
  ASSUME NEW n \in Int
  PROVE  /\ n \div Alignment \in Int /\ n % Alignment \in 0 .. Alignment - 1
         /\ (n \div Alignment) * Alignment = n - (n % Alignment)
<1>1. n \div Alignment \in Int
  OBVIOUS
<1>2. n % Alignment \in 0 .. Alignment - 1
  OBVIOUS
<1>3. n = (n \div Alignment) * Alignment + (n % Alignment)
  OBVIOUS
<1> QED BY <1>1, <1>2, <1>3

LEMMA MultipleMod ==
  ASSUME NEW k \in Int PROVE (k * Alignment) % Alignment = 0
  OBVIOUS

(* sfGetAlignedFloorCellIdx rounds down, for negative indices as well.      *)
LEMMA FloorIsBelow ==
  ASSUME NEW i \in Int
  PROVE  /\ sfGetAlignedFloorCellIdx(i) \in Int
         /\ sfGetAlignedFloorCellIdx(i) <= i
         /\ sfGetAlignedFloorCellIdx(i) % Alignment = 0
<1>1. CASE i < 0
  <2> DEFINE j == -i - 1
             k == -((j \div Alignment) + 1)
  <2>1. j \in Int /\ j \div Alignment \in Int /\ k \in Int
    BY DivMod
  <2>2. sfGetAlignedFloorCellIdx(i) = k * Alignment
    BY <1>1, <2>1 DEF sfGetAlignedFloorCellIdx
  <2>3. ((j \div Alignment) + 1) * Alignment = (j \div Alignment) * Alignment + Alignment
    BY <2>1
  <2>4. (j \div Alignment) * Alignment >= j - (Alignment - 1)
    BY <2>1, DivMod
  <2>5. k * Alignment = -(((j \div Alignment) + 1) * Alignment)
    BY <2>1
  <2>6. k * Alignment <= i
    <3> HIDE DEF k
    <3>1. ((j \div Alignment) + 1) * Alignment >= j + 1
      BY <2>1, <2>3, <2>4
    <3> QED BY <2>1, <2>5, <3>1
  <2> QED BY <2>1, <2>2, <2>6, MultipleMod
<1>2. CASE i >= 0
  <2>1. sfGetAlignedFloorCellIdx(i) = (i \div Alignment) * Alignment
    BY <1>2 DEF sfGetAlignedFloorCellIdx
  <2>2. i \div Alignment \in Int /\ (i \div Alignment) * Alignment <= i
    BY DivMod
  <2> QED BY <2>1, <2>2, MultipleMod
<1> QED BY <1>1, <1>2

LEMMA CeilIsAbove ==
  ASSUME NEW n \in Int
  PROVE  /\ sfGetAlignedCeilSize(n) \in Int
         /\ sfGetAlignedCeilSize(n) >= n
         /\ sfGetAlignedCeilSize(n) % Alignment = 0
<1> DEFINE m == n + (Alignment - 1)
<1>1. m \in Int /\ m \div Alignment \in Int
  BY DivMod
<1>2. sfGetAlignedCeilSize(n) = (m \div Alignment) * Alignment
  BY DEF sfGetAlignedCeilSize
<1>3. (m \div Alignment) * Alignment >= n
  BY <1>1, DivMod
<1> QED BY <1>1, <1>2, <1>3, MultipleMod

-----------------------------------------------------------------------------
(* Rectangles.                                                              *)

LEMMA RectType ==
  ASSUME NEW x \in Int, NEW y \in Int, NEW w \in Int, NEW h \in Int
  PROVE  /\ Rect(x, y, w, h) \in RectangleI
         /\ Rect(x, y, w, h).x = x /\ Rect(x, y, w, h).y = y
         /\ Rect(x, y, w, h).w = w /\ Rect(x, y, w, h).h = h
  BY DEF Rect, RectangleI

(* The hull of two rectangles contains each that is not empty.              *)
LEMMA MergeContains ==
  ASSUME NEW a \in RectangleI, NEW b \in RectangleI
  PROVE  /\ sfMergeCellIdxRect(a, b) \in RectangleI
         /\ ~IsEmpty(a) => sfDoesCellIdxRectContain(sfMergeCellIdxRect(a, b), a)
         /\ ~IsEmpty(b) => sfDoesCellIdxRectContain(sfMergeCellIdxRect(a, b), b)
         /\ IsEmpty(a) /\ IsEmpty(b) => sfMergeCellIdxRect(a, b) = a
  BY DEF sfMergeCellIdxRect, sfDoesCellIdxRectContain, IsEmpty, Rect, RectangleI,
         XEnd, YEnd, Smaller, Larger

(* A rectangle that contains two contains their hull.                       *)
LEMMA ContainsMerge ==
  ASSUME NEW a \in RectangleI, NEW b \in RectangleI, NEW r \in RectangleI,
         ~IsEmpty(a) => sfDoesCellIdxRectContain(r, a),
         ~IsEmpty(b) => sfDoesCellIdxRectContain(r, b),
         ~IsEmpty(sfMergeCellIdxRect(a, b))
  PROVE  sfDoesCellIdxRectContain(r, sfMergeCellIdxRect(a, b))
  BY DEF sfMergeCellIdxRect, sfDoesCellIdxRectContain, IsEmpty, Rect, RectangleI,
         XEnd, YEnd, Smaller, Larger

LEMMA ContainsTransitive ==
  ASSUME NEW a \in RectangleI, NEW b \in RectangleI, NEW c \in RectangleI,
         ~IsEmpty(b), ~IsEmpty(c),
         sfDoesCellIdxRectContain(a, b), sfDoesCellIdxRectContain(b, c)
  PROVE  sfDoesCellIdxRectContain(a, c)
  BY DEF sfDoesCellIdxRectContain, IsEmpty, RectangleI, XEnd, YEnd, Larger

LEMMA ContainsByEnds ==
  ASSUME NEW r \in RectangleI, NEW obj \in RectangleI, ~IsEmpty(r), ~IsEmpty(obj),
         r.x <= obj.x, r.y <= obj.y, XEnd(obj) <= XEnd(r), YEnd(obj) <= YEnd(r)
  PROVE  sfDoesCellIdxRectContain(r, obj)
  BY DEF sfDoesCellIdxRectContain, IsEmpty, RectangleI, XEnd, YEnd, Larger

(* sfCalcAdjustedCellIdxRect: the BOOST_ASSERT at its end holds.            *)
LEMMA AdjustedContains ==
  ASSUME NEW r \in RectangleI, ~IsEmpty(r)
  PROVE  /\ sfCalcAdjustedCellIdxRect(r) \in RectangleI
         /\ Aligned(sfCalcAdjustedCellIdxRect(r))
         /\ ~IsEmpty(sfCalcAdjustedCellIdxRect(r))
         /\ sfDoesCellIdxRectContain(sfCalcAdjustedCellIdxRect(r), r)
<1> DEFINE x == sfGetAlignedFloorCellIdx(r.x)
           y == sfGetAlignedFloorCellIdx(r.y)
           w == sfGetAlignedCeilSize(XEnd(r) - x)
           h == sfGetAlignedCeilSize(YEnd(r) - y)
<1>1. /\ r.x \in Int /\ r.y \in Int /\ r.w \in Int /\ r.h \in Int
      /\ r.w > 0 /\ r.h > 0
      /\ XEnd(r) = r.x + r.w /\ YEnd(r) = r.y + r.h
  BY DEF RectangleI, IsEmpty, XEnd, YEnd
<1>2. /\ x \in Int /\ x <= r.x /\ x % Alignment = 0
      /\ y \in Int /\ y <= r.y /\ y % Alignment = 0
  BY <1>1, FloorIsBelow
<1>3. /\ w \in Int /\ w >= XEnd(r) - x /\ w % Alignment = 0
      /\ h \in Int /\ h >= YEnd(r) - y /\ h % Alignment = 0
  BY <1>1, <1>2, CeilIsAbove
<1> DEFINE adj == Rect(x, y, w, h)
<1>4. sfCalcAdjustedCellIdxRect(r) = adj
  BY DEF sfCalcAdjustedCellIdxRect
<1> HIDE DEF x, y, w, h
<1>5. adj \in RectangleI /\ adj.x = x /\ adj.y = y /\ adj.w = w /\ adj.h = h
  BY <1>2, <1>3, RectType
<1> HIDE DEF adj
<1>6. Aligned(adj)
  BY <1>2, <1>3, <1>5 DEF Aligned
<1>7. ~IsEmpty(adj)
  BY <1>1, <1>2, <1>3, <1>5 DEF IsEmpty
<1>8. XEnd(adj) >= XEnd(r) /\ YEnd(adj) >= YEnd(r)
  BY <1>1, <1>2, <1>3, <1>5 DEF XEnd, YEnd
<1>9. sfDoesCellIdxRectContain(adj, r)
  BY <1>2, <1>5, <1>7, <1>8, ContainsByEnds
<1> QED BY <1>4, <1>5, <1>6, <1>7, <1>9

-----------------------------------------------------------------------------
(* The storage after a reservation.                                         *)

RectsOK == availCellIdxRect \in RectangleI /\ validCellIdxRect \in RectangleI

IInv == RectsOK /\ Storage

(* reserveByCellIdxRect: the new rectangle holds the area asked for and     *)
(* everything already held.                                                 *)
LEMMA ReservedHolds ==
  ASSUME IInv, NEW r \in RectangleI
  PROVE  /\ ReservedRect(r) \in RectangleI
         /\ Aligned(ReservedRect(r))
         /\ IsEmpty(ReservedRect(r)) => ReservedRect(r) = NullRect
         /\ ~IsEmpty(r) => sfDoesCellIdxRectContain(ReservedRect(r), r)
         /\ ~IsEmpty(availCellIdxRect) =>
              sfDoesCellIdxRectContain(ReservedRect(r), availCellIdxRect)
<1> USE DEF IInv, RectsOK
<1>1. CASE IsEmpty(r) \/ sfDoesCellIdxRectContain(availCellIdxRect, r)
  <2>1. ReservedRect(r) = availCellIdxRect
    BY <1>1 DEF ReservedRect
  <2>2. ~IsEmpty(availCellIdxRect) =>
          sfDoesCellIdxRectContain(availCellIdxRect, availCellIdxRect)
    BY DEF sfDoesCellIdxRectContain, IsEmpty, RectangleI, XEnd, YEnd, Larger
  <2> QED BY <1>1, <2>1, <2>2 DEF Storage
<1>2. CASE ~IsEmpty(r) /\ ~sfDoesCellIdxRectContain(availCellIdxRect, r)
  <2> DEFINE hull == sfMergeCellIdxRect(availCellIdxRect, r)
  <2>1. ReservedRect(r) = sfCalcAdjustedCellIdxRect(hull)
    BY <1>2 DEF ReservedRect
  <2>2. /\ hull \in RectangleI
        /\ sfDoesCellIdxRectContain(hull, r)
        /\ ~IsEmpty(availCellIdxRect) => sfDoesCellIdxRectContain(hull, availCellIdxRect)
    BY <1>2, MergeContains
  <2>3. ~IsEmpty(hull)
    BY <2>2 DEF sfDoesCellIdxRectContain
  <2> HIDE DEF hull
  <2> QED BY <1>2, <2>1, <2>2, <2>3, AdjustedContains, ContainsTransitive
<1> QED BY <1>1, <1>2

(* checkToExtendMap_: what is extended holds the piece and everything       *)
(* already held, an empty storage included.                                 *)
LEMMA ExtendedHolds ==
  ASSUME IInv, NEW up \in RectangleI, ~IsEmpty(up)
  PROVE  /\ ExtendedRect(up) \in RectangleI
         /\ ~IsEmpty(ExtendedRect(up))
         /\ sfDoesCellIdxRectContain(ExtendedRect(up), up)
<1> DEFINE a == availCellIdxRect
           more == MoreCellCntToExtend
           xMin == IF up.x < a.x THEN up.x - more ELSE a.x
           yMin == IF up.y < a.y THEN up.y - more ELSE a.y
           xEnd == IF XEnd(a) < XEnd(up) THEN XEnd(up) + more ELSE XEnd(a)
           yEnd == IF YEnd(a) < YEnd(up) THEN YEnd(up) + more ELSE YEnd(a)
           ext == Rect(xMin, yMin, xEnd - xMin, yEnd - yMin)
<1>1. /\ up.x \in Int /\ up.y \in Int /\ up.w \in Int /\ up.h \in Int
      /\ a.x \in Int /\ a.y \in Int /\ XEnd(a) \in Int /\ YEnd(a) \in Int
      /\ up.w > 0 /\ up.h > 0 /\ more \in Nat
      /\ XEnd(up) = up.x + up.w /\ YEnd(up) = up.y + up.h
  BY DEF IInv, RectsOK, RectangleI, IsEmpty, XEnd, YEnd
<1> HIDE DEF a, more
<1>2. /\ xMin \in Int /\ xMin <= up.x /\ xEnd \in Int /\ xEnd >= XEnd(up)
      /\ yMin \in Int /\ yMin <= up.y /\ yEnd \in Int /\ yEnd >= YEnd(up)
  BY <1>1
<1> HIDE DEF xMin, yMin, xEnd, yEnd
<1>3. /\ ext \in RectangleI /\ ext.x = xMin /\ ext.y = yMin
      /\ ext.w = xEnd - xMin /\ ext.h = yEnd - yMin
  <2>1. xEnd - xMin \in Int /\ yEnd - yMin \in Int
    BY <1>2
  <2> QED BY <1>2, <2>1 DEF Rect, RectangleI
<1>4. ExtendedRect(up) = ext
  BY DEF ExtendedRect, a, more, xMin, yMin, xEnd, yEnd
<1> HIDE DEF ext
<1>5. ~IsEmpty(ext) /\ XEnd(ext) = xEnd /\ YEnd(ext) = yEnd
  BY <1>1, <1>2, <1>3 DEF IsEmpty, XEnd, YEnd
<1>6. sfDoesCellIdxRectContain(ext, up)
  BY <1>2, <1>3, <1>5, ContainsByEnds
<1> QED BY <1>3, <1>4, <1>5, <1>6

LEMMA AvailHolds ==
  ASSUME IInv, NEW up \in RectangleI, ~IsEmpty(up)
  PROVE  /\ AvailFor(up) \in RectangleI
         /\ Aligned(AvailFor(up))
         /\ ~IsEmpty(AvailFor(up))
         /\ sfDoesCellIdxRectContain(AvailFor(up), up)
         /\ ~IsEmpty(validCellIdxRect) =>
              sfDoesCellIdxRectContain(AvailFor(up), validCellIdxRect)
<1> USE DEF IInv, RectsOK, Storage
<1>1. ~IsEmpty(validCellIdxRect) => ~IsEmpty(availCellIdxRect)
  BY DEF sfDoesCellIdxRectContain
<1>2. CASE sfDoesCellIdxRectContain(availCellIdxRect, up)
  BY <1>2 DEF AvailFor, sfDoesCellIdxRectContain
<1>3. CASE ~sfDoesCellIdxRectContain(availCellIdxRect, up)
  <2> DEFINE avail == ReservedRect(ExtendedRect(up))
  <2>1. AvailFor(up) = avail
    BY <1>3 DEF AvailFor
  <2>2. /\ avail \in RectangleI /\ Aligned(avail)
        /\ sfDoesCellIdxRectContain(avail, ExtendedRect(up))
        /\ ~IsEmpty(availCellIdxRect) => sfDoesCellIdxRectContain(avail, availCellIdxRect)
    BY ExtendedHolds, ReservedHolds
  <2>3. ~IsEmpty(avail)
    BY <2>2 DEF sfDoesCellIdxRectContain
  <2> HIDE DEF avail
  <2>4. sfDoesCellIdxRectContain(avail, up)
    BY <2>2, ExtendedHolds, ContainsTransitive
  <2>5. ~IsEmpty(validCellIdxRect) => sfDoesCellIdxRectContain(avail, validCellIdxRect)
    BY <1>1, <2>2, ContainsTransitive
  <2> QED BY <2>1, <2>2, <2>3, <2>4, <2>5
<1> QED BY <1>2, <1>3

LEMMA AvailKeeps ==
  ASSUME IInv, NEW up \in RectangleI, ~IsEmpty(up), ~IsEmpty(availCellIdxRect)
  PROVE  sfDoesCellIdxRectContain(AvailFor(up), availCellIdxRect)
<1> USE DEF IInv, RectsOK
<1>1. sfDoesCellIdxRectContain(availCellIdxRect, availCellIdxRect)
  BY DEF sfDoesCellIdxRectContain, IsEmpty, RectangleI, XEnd, YEnd, Larger
<1>2. sfDoesCellIdxRectContain(ReservedRect(ExtendedRect(up)), availCellIdxRect)
  BY ExtendedHolds, ReservedHolds
<1> QED BY <1>1, <1>2 DEF AvailFor

-----------------------------------------------------------------------------
LEMMA NullRectHolds ==
  /\ NullRect \in RectangleI /\ IsEmpty(NullRect)
  /\ NullRect.x % Alignment = 0 /\ NullRect.y % Alignment = 0
  /\ NullRect.w % Alignment = 0 /\ NullRect.h % Alignment = 0
<1>1. 0 % Alignment = 0
  BY MultipleMod
<1> QED BY <1>1 DEF NullRect, Rect, RectangleI, IsEmpty

LEMMA InitIInv == Init => IInv
  BY NullRectHolds DEF Init, IInv, RectsOK, Storage, Aligned

LEMMA NextIInv == IInv /\ [Next]_vars => IInv'
<1> SUFFICES ASSUME IInv, [Next]_vars PROVE IInv'
  OBVIOUS
<1>1. CASE clear
  BY <1>1, NullRectHolds DEF clear, Clear, IInv, RectsOK, Storage, Aligned
<1>2. ASSUME NEW r \in KnownRects, reserveByCellIdxRect(r) PROVE IInv'
  <2>1. r \in RectangleI
    OBVIOUS
  <2>2. availCellIdxRect' = ReservedRect(r) /\ UNCHANGED validCellIdxRect
    BY <1>2 DEF reserveByCellIdxRect
  <2>3. ~IsEmpty(validCellIdxRect) =>
          sfDoesCellIdxRectContain(ReservedRect(r), validCellIdxRect)
    <3>1. ~IsEmpty(validCellIdxRect) => ~IsEmpty(availCellIdxRect)
      BY DEF IInv, Storage, sfDoesCellIdxRectContain
    <3> QED BY <2>1, <3>1, ReservedHolds, ContainsTransitive DEF IInv, RectsOK, Storage
  <2> QED BY <2>1, <2>2, <2>3, ReservedHolds DEF IInv, RectsOK, Storage, Aligned
<1>3. ASSUME NEW u \in Updates, setMapData(u) PROVE IInv'
  <2>1. u.rect \in RectangleI /\ ~IsEmpty(u.rect)
    OBVIOUS
  <2>2. /\ availCellIdxRect' = AvailFor(u.rect)
        /\ validCellIdxRect' = sfMergeCellIdxRect(validCellIdxRect, u.rect)
    BY <1>3 DEF setMapData
  <2>3. /\ validCellIdxRect' \in RectangleI
        /\ ~IsEmpty(validCellIdxRect') =>
             sfDoesCellIdxRectContain(AvailFor(u.rect), validCellIdxRect')
    BY <2>1, <2>2, AvailHolds, MergeContains, ContainsMerge DEF IInv, RectsOK
  <2> QED BY <2>1, <2>2, <2>3, AvailHolds DEF IInv, RectsOK, Storage, Aligned
<1>4. CASE fillRosMapMsg
  BY <1>4 DEF fillRosMapMsg, IInv, RectsOK, Storage
<1>5. CASE UNCHANGED vars
  BY <1>5 DEF vars, IInv, RectsOK, Storage
<1> QED BY <1>1, <1>2, <1>3, <1>4, <1>5 DEF Next

-----------------------------------------------------------------------------
(* ServerMapHolder's storage: aligned, and holding what was written,        *)
(* however it grew, for every alignment and slack and pieces of any size    *)
(* anywhere.                                                                *)
THEOREM StorageSafety == Spec => []Storage
<1>1. IInv => Storage
  BY DEF IInv
<1> QED BY InitIInv, NextIInv, <1>1, PTL DEF Spec

(* The BOOST_ASSERTs of checkToExtendMap_, sfCalcAdjustedCellIdxRect_,      *)
(* reserveByCellIdxRect and setMapData hold for whatever comes next.        *)
THEOREM PiecesFit == Spec => []NextPieceFits
<1>1. ASSUME IInv PROVE NextPieceFits
  <2>1. ASSUME NEW r \in KnownRects, ~IsEmpty(r)
        PROVE  sfDoesCellIdxRectContain(ReservedRect(r), r)
    BY <1>1, <2>1, ReservedHolds
  <2>2. ASSUME NEW u \in Updates
        PROVE  /\ ~IsEmpty(ExtendedRect(u.rect))
               /\ sfDoesCellIdxRectContain(ReservedRect(ExtendedRect(u.rect)),
                                           ExtendedRect(u.rect))
               /\ sfDoesCellIdxRectContain(AvailFor(u.rect), u.rect)
               /\ ~IsEmpty(validCellIdxRect) =>
                    sfDoesCellIdxRectContain(AvailFor(u.rect), validCellIdxRect)
    BY <1>1, ExtendedHolds, ReservedHolds, AvailHolds
  <2> QED BY <2>1, <2>2 DEF NextPieceFits
<1> QED BY InitIInv, NextIInv, <1>1, PTL DEF Spec

-----------------------------------------------------------------------------
(* Rows, columns and the array over the rectangle.                         *)

(* A row and a column give an offset within the array.                      *)
LEMMA RowMajor ==
  ASSUME NEW w \in Nat, NEW h \in Nat, NEW c \in Int, NEW l \in Int,
         0 <= c, c < w, 0 <= l, l < h
  PROVE  l * w + c \in 0 .. w * h - 1
<1>1. l * w >= 0 /\ (h - 1 - l) * w >= 0
  OBVIOUS
<1>2. (h - 1 - l) * w = w * h - w - l * w
  OBVIOUS
<1>3. l * w \in Int /\ w * h \in Int
  OBVIOUS
<1> QED BY <1>1, <1>2, <1>3

LEMMA DivModNat ==
  ASSUME NEW n \in Nat, NEW w \in Nat \ {0}
  PROVE  n \div w \in Nat /\ n % w \in Nat
  OBVIOUS

(* The row loops read inside the source array: what they produce is an      *)
(* array over the destination's cells, whatever the widths and offsets.     *)
LEMMA CopyRowsType ==
  ASSUME NEW r \in RectangleI, ~IsEmpty(r), NEW s \in RectangleI,
         NEW p \in RectangleI, ~IsEmpty(p), sfDoesCellIdxRectContain(s, p),
         NEW off \in Int, NEW T, NEW V, NEW conv,
         NEW dst \in [Offsets(r) -> T], NEW src \in [Offsets(s) -> V],
         \A v \in V : conv[v] \in T
  PROVE  CopyRows(dst, off, r.w, src, CellOffset(s, p.x, p.y), s.w, p.w, p.h, conv)
           \in [Offsets(r) -> T]
<1>1. /\ r.w \in Nat \ {0} /\ s.w \in Nat /\ s.h \in Nat
      /\ s.x \in Int /\ s.y \in Int /\ p.x \in Int /\ p.y \in Int
      /\ p.w \in Int /\ p.h \in Int
      /\ s.x <= p.x /\ p.x + p.w <= s.x + s.w
      /\ s.y <= p.y /\ p.y + p.h <= s.y + s.h
  BY DEF RectangleI, IsEmpty, sfDoesCellIdxRectContain, XEnd, YEnd, Larger
<1>2. ASSUME NEW k \in Offsets(r), off <= k,
             (k - off) \div r.w < p.h, (k - off) % r.w < p.w
      PROVE  CellOffset(s, p.x, p.y) + ((k - off) \div r.w) * s.w + ((k - off) % r.w)
               \in Offsets(s)
  <2> DEFINE j == (k - off) \div r.w
             i == (k - off) % r.w
  <2>1. k \in Int /\ k - off \in Nat
    <3>1. k \in Int
      BY DEF Offsets
    <3> QED BY <1>2, <3>1
  <2>2. j \in Nat /\ i \in Nat
    BY <1>1, <2>1, DivModNat
  <2>3. j < p.h /\ i < p.w
    BY <1>2
  <2> HIDE DEF j, i
  <2> DEFINE l == p.y - s.y + j
             c == p.x - s.x + i
  <2>4. l \in Int /\ c \in Int /\ 0 <= c /\ c < s.w /\ 0 <= l /\ l < s.h
    BY <1>1, <2>2, <2>3
  <2> HIDE DEF l, c
  <2>5. l * s.w + c \in 0 .. s.w * s.h - 1
    BY <1>1, <2>4, RowMajor
  <2>6. l * s.w = (p.y - s.y) * s.w + j * s.w
    BY <1>1, <2>2 DEF l
  <2>7. CellOffset(s, p.x, p.y) + j * s.w + i = l * s.w + c
    <3>1. /\ (p.y - s.y) * s.w \in Int /\ j * s.w \in Int
      BY <1>1, <2>2
    <3> QED BY <1>1, <2>2, <2>6, <3>1 DEF CellOffset, c
  <2> QED BY <2>5, <2>7 DEF Offsets, j, i
<1> DEFINE at(k) == CellOffset(s, p.x, p.y) + ((k - off) \div r.w) * s.w
                      + ((k - off) % r.w)
           copied(k) == off <= k /\ (k - off) \div r.w < p.h /\ (k - off) % r.w < p.w
<1>3. CopyRows(dst, off, r.w, src, CellOffset(s, p.x, p.y), s.w, p.w, p.h, conv)
        = [k \in Offsets(r) |-> IF copied(k) THEN conv[src[at(k)]] ELSE dst[k]]
  BY DEF CopyRows
<1>4. ASSUME NEW k \in Offsets(r), copied(k) PROVE at(k) \in Offsets(s)
  BY <1>2, <1>4
<1> HIDE DEF at, copied
<1>5. ASSUME NEW k \in Offsets(r)
      PROVE  (IF copied(k) THEN conv[src[at(k)]] ELSE dst[k]) \in T
  BY <1>4, <1>5
<1> QED BY <1>3, <1>5

(* memcpy and the conversion to occupancy give the values they should.      *)
LEMMA ConversionTypes ==
  /\ \A v \in CellValues \cup {0} : Same[v] \in CellValues \cup {0}
  /\ \A v \in CellValues : Same[v] \in CellValues \cup {0}
  /\ \A v \in CellValues \cup {0} : RosCell[v] \in {-1, 0, 100}
<1>1. CellValues \cup {0} \subseteq 0 .. 255
  BY DEF MapHolderAssumption
<1> QED BY <1>1 DEF Same, RosCell

(* A rectangle of cells that is not empty contains itself.                  *)
LEMMA ContainsItself ==
  ASSUME NEW r \in RectangleI, ~IsEmpty(r)
  PROVE  /\ sfDoesCellIdxRectContain(r, r)
         /\ CellOffset(r, r.x, r.y) = 0
<1>1. 0 * r.w = 0
  BY DEF RectangleI
<1>2. CellOffset(r, r.x, r.y) = 0
  BY <1>1 DEF CellOffset, RectangleI
<1>3. XEnd(r) <= XEnd(r) /\ YEnd(r) <= YEnd(r)
  BY DEF RectangleI, XEnd, YEnd
<1>4. r.x <= r.x /\ r.y <= r.y
  BY DEF RectangleI
<1> QED BY <1>2, <1>3, <1>4, ContainsByEnds

TypeIInv == IInv /\ TypeOK

(* The array reserved for a rectangle has exactly its cells.                *)
LEMMA ReservedDataType ==
  ASSUME TypeIInv, NEW avail \in RectangleI,
         ~IsEmpty(availCellIdxRect) => ~IsEmpty(avail)
  PROVE  ReservedData(avail) \in [Offsets(avail) -> CellValues \cup {0}]
<1> DEFINE v == validCellIdxRect
           zeros == [k \in Offsets(avail) |-> 0]
<1>1. zeros \in [Offsets(avail) -> CellValues \cup {0}]
  OBVIOUS
<1>2. CASE avail = availCellIdxRect
  BY <1>2 DEF ReservedData, TypeIInv, TypeOK
<1>3. CASE avail # availCellIdxRect /\ IsEmpty(v)
  BY <1>1, <1>3 DEF ReservedData
<1>4. CASE avail # availCellIdxRect /\ ~IsEmpty(v)
  <2> DEFINE off == CellOffset(avail, v.x, v.y)
             copy == CopyRows(zeros, off, avail.w,
                              mapDat, CellOffset(availCellIdxRect, v.x, v.y),
                              availCellIdxRect.w, v.w, v.h, Same)
  <2>1. ReservedData(avail) = copy
    BY <1>4 DEF ReservedData
  <2>2. /\ v \in RectangleI /\ availCellIdxRect \in RectangleI
        /\ mapDat \in [Offsets(availCellIdxRect) -> CellValues \cup {0}]
        /\ sfDoesCellIdxRectContain(availCellIdxRect, v)
    BY <1>4 DEF TypeIInv, TypeOK, IInv, Storage
  <2>3. ~IsEmpty(avail)
    BY <2>2 DEF sfDoesCellIdxRectContain
  <2>4. off \in Int
    <3>1. (v.y - avail.y) * avail.w \in Int /\ v.x - avail.x \in Int
      BY <2>2 DEF RectangleI
    <3> QED BY <3>1 DEF CellOffset
  <2> HIDE DEF zeros, v, off
  <2>5. copy \in [Offsets(avail) -> CellValues \cup {0}]
    BY <1>1, <1>4, <2>2, <2>3, <2>4, CopyRowsType, ConversionTypes, ZenonT(60)
  <2> QED BY <2>1, <2>5
<1> QED BY <1>2, <1>3, <1>4

LEMMA InitType == Init => TypeOK
<1>1. Offsets(NullRect) = {}
  BY DEF Offsets, NullRect, Rect
<1>2. NoData \in [{} -> CellValues \cup {0}] /\ NoData \in [{} -> {-1, 0, 100}]
  BY DEF NoData
<1>3. NoMessage.rect = NullRect /\ NoMessage.data = NoData
  BY DEF NoMessage
<1> QED BY <1>1, <1>2, <1>3, NullRectHolds DEF Init, TypeOK

LEMMA NextType == TypeIInv /\ [Next]_vars => TypeOK'
<1> SUFFICES ASSUME TypeIInv, [Next]_vars PROVE TypeOK'
  OBVIOUS
<1> USE DEF TypeIInv
<1>a. RectsOK'
  BY NextIInv DEF IInv
<1>b. /\ NoMessage.rect = NullRect
      /\ NoMessage.data \in [Offsets(NoMessage.rect) -> {-1, 0, 100}]
      /\ NoData \in [Offsets(NullRect) -> CellValues \cup {0}]
  <2>1. Offsets(NullRect) = {}
    BY DEF Offsets, NullRect, Rect
  <2> QED BY <2>1 DEF NoData, NoMessage
<1>1. CASE clear
  BY <1>1, <1>b, NullRectHolds DEF clear, Clear, TypeOK
<1>2. ASSUME NEW r \in KnownRects, reserveByCellIdxRect(r) PROVE TypeOK'
  <2>1. /\ availCellIdxRect' = ReservedRect(r) /\ mapDat' = ReservedData(ReservedRect(r))
        /\ msgMap' = NoMessage
    BY <1>2 DEF reserveByCellIdxRect
  <2>2. r \in RectangleI
    BY DEF MapHolderAssumption
  <2>3. ReservedRect(r) \in RectangleI /\
        (~IsEmpty(availCellIdxRect) => ~IsEmpty(ReservedRect(r)))
    BY <2>2, ReservedHolds DEF sfDoesCellIdxRectContain
  <2>4. mapDat' \in [Offsets(availCellIdxRect') -> CellValues \cup {0}]
    BY <2>1, <2>3, ReservedDataType
  <2> QED BY <1>a, <1>b, <2>1, <2>4, NullRectHolds DEF TypeOK, RectsOK
<1>3. ASSUME NEW u \in Updates, setMapData(u) PROVE TypeOK'
  <2> DEFINE avail == AvailFor(u.rect)
             off == CellOffset(avail, u.rect.x, u.rect.y)
  <2>1. /\ availCellIdxRect' = avail /\ msgMap' = NoMessage
        /\ mapDat' = CopyRows(ReservedData(avail), off, avail.w,
                              u.dat, 0, u.rect.w, u.rect.w, u.rect.h, Same)
    BY <1>3 DEF setMapData
  <2>2. /\ u.rect \in RectangleI /\ ~IsEmpty(u.rect)
        /\ u.dat \in [Offsets(u.rect) -> CellValues]
    BY DEF MapHolderAssumption
  <2>3. avail \in RectangleI /\ ~IsEmpty(avail)
    BY <2>2, AvailHolds
  <2>4. ReservedData(avail) \in [Offsets(avail) -> CellValues \cup {0}]
    BY <2>3, ReservedDataType
  <2>5. off \in Int
    <3> HIDE DEF avail
    <3>1. (u.rect.y - avail.y) * avail.w \in Int /\ u.rect.x - avail.x \in Int
      BY <2>2, <2>3 DEF RectangleI
    <3> QED BY <3>1 DEF CellOffset
  <2> HIDE DEF avail, off
  <2>6. CopyRows(ReservedData(avail), off, avail.w, u.dat,
                 CellOffset(u.rect, u.rect.x, u.rect.y), u.rect.w, u.rect.w, u.rect.h, Same)
          \in [Offsets(avail) -> CellValues \cup {0}]
    BY <2>2, <2>3, <2>4, <2>5, ContainsItself, CopyRowsType, ConversionTypes, ZenonT(60)
  <2>7. mapDat' \in [Offsets(avail) -> CellValues \cup {0}]
    BY <2>1, <2>2, <2>6, ContainsItself
  <2> QED BY <1>a, <1>b, <2>1, <2>7, NullRectHolds DEF TypeOK, RectsOK
<1>4. CASE fillRosMapMsg
  <2> DEFINE v == validCellIdxRect
             empty == [k \in Offsets(v) |-> -1]
  <2>1. /\ ~IsEmpty(v) /\ msgMap' = [rect |-> v, data |-> FilledData(v)]
        /\ UNCHANGED <<availCellIdxRect, validCellIdxRect, mapDat>>
    BY <1>4 DEF fillRosMapMsg
  <2>2. /\ v \in RectangleI /\ availCellIdxRect \in RectangleI
        /\ mapDat \in [Offsets(availCellIdxRect) -> CellValues \cup {0}]
        /\ sfDoesCellIdxRectContain(availCellIdxRect, v)
    BY <2>1 DEF TypeOK, IInv, Storage
  <2>3. sfIntersectionOfCellIdxRect(v, v) = v
    BY <2>1, <2>2 DEF sfIntersectionOfCellIdxRect, RectangleI, Rect, IsEmpty,
                      XEnd, YEnd, Larger, Smaller
  <2>4. FilledData(v) = CopyRows(empty, CellOffset(v, v.x, v.y), v.w,
                                 mapDat, CellOffset(availCellIdxRect, v.x, v.y),
                                 availCellIdxRect.w, v.w, v.h, RosCell)
    BY <2>1, <2>3 DEF FilledData
  <2>5. empty \in [Offsets(v) -> {-1, 0, 100}]
    OBVIOUS
  <2>6. CellOffset(v, v.x, v.y) \in Int
    BY <2>1, <2>2, ContainsItself
  <2> DEFINE classes == {-1, 0, 100}
             values == CellValues \cup {0}
  <2>7. empty \in [Offsets(v) -> classes] /\ \A c \in values : RosCell[c] \in classes
    BY <2>5, ConversionTypes
  <2>8. mapDat \in [Offsets(availCellIdxRect) -> values]
    BY <2>2
  <2> DEFINE copy == CopyRows(empty, CellOffset(v, v.x, v.y), v.w,
                              mapDat, CellOffset(availCellIdxRect, v.x, v.y),
                              availCellIdxRect.w, v.w, v.h, RosCell)
  <2> HIDE DEF v, empty, classes, values
  <2>9. copy \in [Offsets(v) -> classes]
    <3>1. /\ v \in RectangleI /\ ~IsEmpty(v) /\ availCellIdxRect \in RectangleI
          /\ sfDoesCellIdxRectContain(availCellIdxRect, v)
      BY <2>1, <2>2
    <3> QED BY <2>6, <2>7, <2>8, <3>1, CopyRowsType, ZenonT(60)
  <2>10. FilledData(v) \in [Offsets(v) -> {-1, 0, 100}]
    BY <2>4, <2>9 DEF classes
  <2>11. /\ msgMap'.rect \in RectangleI
        /\ msgMap'.data \in [Offsets(msgMap'.rect) -> {-1, 0, 100}]
    BY <2>1, <2>2, <2>10
  <2> QED BY <1>a, <2>1, <2>2, <2>11 DEF TypeOK, RectsOK
<1>5. CASE UNCHANGED vars
  BY <1>5 DEF vars, TypeOK
<1> QED BY <1>1, <1>2, <1>3, <1>4, <1>5 DEF Next

(* The array has the cells of the available rectangle and no other through  *)
(* every growth, so no row loop leaves it, and the published array those    *)
(* of the published rectangle.                                              *)
THEOREM TypeCorrect == Spec => []TypeOK
<1>1. Init => TypeIInv
  BY InitIInv, InitType DEF TypeIInv
<1>2. TypeIInv /\ [Next]_vars => TypeIInv'
  BY NextIInv, NextType DEF TypeIInv
<1>3. TypeIInv => TypeOK
  BY DEF TypeIInv
<1> QED BY <1>1, <1>2, <1>3, PTL DEF Spec

-----------------------------------------------------------------------------
(* Reading cells back.                                                      *)

LEMMA DivUnique ==
  ASSUME NEW n \in Int, NEW w \in Nat \ {0}, NEW q \in Int, NEW c \in 0 .. w - 1,
         n = q * w + c
  PROVE  n \div w = q /\ n % w = c
<1> DEFINE q2 == n \div w
           c2 == n % w
<1>1. q2 \in Int /\ c2 \in 0 .. w - 1 /\ n = q2 * w + c2
  OBVIOUS
<1> HIDE DEF q2, c2
<1>2. (q2 - q) * w = c - c2
  <2>1. (q2 - q) * w = q2 * w - q * w
    BY <1>1
  <2>2. q2 * w \in Int /\ q * w \in Int
    BY <1>1
  <2> QED BY <1>1, <2>1, <2>2
<1>3. q2 = q
  <2>1. ASSUME q2 > q PROVE FALSE
    <3>1. (q2 - q) * w >= w
      BY <1>1, <2>1
    <3> QED BY <1>1, <1>2, <3>1
  <2>2. ASSUME q2 < q PROVE FALSE
    <3>1. (q2 - q) * w <= -w
      <4>1. (q - q2) * w >= w
        BY <1>1, <2>2
      <4>2. (q2 - q) * w = -((q - q2) * w)
        BY <1>1
      <4>3. (q - q2) * w \in Int
        BY <1>1
      <4> QED BY <1>1, <4>1, <4>2, <4>3
    <3> QED BY <1>1, <1>2, <3>1
  <2> QED BY <1>1, <2>1, <2>2
<1>4. c2 = c
  BY <1>1, <1>3
<1> QED BY <1>3, <1>4 DEF q2, c2

LEMMA CellInArray ==
  ASSUME NEW r \in RectangleI, NEW x \in Int, NEW y \in Int, InRect(r, x, y)
  PROVE  CellOffset(r, x, y) \in Offsets(r)
<1>1. /\ r.w \in Nat /\ r.h \in Nat /\ y - r.y \in Int /\ x - r.x \in Int
      /\ 0 <= x - r.x /\ x - r.x < r.w /\ 0 <= y - r.y /\ y - r.y < r.h
  BY DEF RectangleI, InRect, XEnd, YEnd
<1>2. (y - r.y) * r.w + (x - r.x) \in 0 .. r.w * r.h - 1
  BY <1>1, RowMajor
<1> QED BY <1>2 DEF CellOffset, Offsets

(* What the row loops do to a cell: in the copied rectangle it reads as the *)
(* same cell of the source, elsewhere as before, although the arrays have   *)
(* different corners and widths.                                            *)
CopyReads(r, s, p, dst, src, conv) ==
  \A x, y \in Int : InRect(r, x, y) =>
    CopyRows(dst, CellOffset(r, p.x, p.y), r.w,
             src, CellOffset(s, p.x, p.y), s.w, p.w, p.h, conv)[CellOffset(r, x, y)]
      = IF InRect(p, x, y) THEN conv[src[CellOffset(s, x, y)]]
        ELSE dst[CellOffset(r, x, y)]

LEMMA CopyRowsRead ==
  ASSUME NEW r \in RectangleI, NEW s \in RectangleI, NEW p \in RectangleI,
         ~IsEmpty(p), sfDoesCellIdxRectContain(r, p), sfDoesCellIdxRectContain(s, p),
         NEW dst, DOMAIN dst = Offsets(r), NEW src, NEW conv
  PROVE  CopyReads(r, s, p, dst, src, conv)
<1> SUFFICES ASSUME NEW x \in Int, NEW y \in Int, InRect(r, x, y)
             PROVE  CopyRows(dst, CellOffset(r, p.x, p.y), r.w,
                             src, CellOffset(s, p.x, p.y), s.w, p.w, p.h, conv)
                      [CellOffset(r, x, y)]
                      = IF InRect(p, x, y) THEN conv[src[CellOffset(s, x, y)]]
                        ELSE dst[CellOffset(r, x, y)]
  BY DEF CopyReads
<1> DEFINE k == CellOffset(r, x, y)
           off == CellOffset(r, p.x, p.y)
           soff == CellOffset(s, p.x, p.y)
           q == y - p.y
           c == x - p.x
           copied == off <= k /\ (k - off) \div r.w < p.h /\ (k - off) % r.w < p.w
<1>1. /\ r.w \in Nat \ {0} /\ r.h \in Nat /\ s.w \in Nat
      /\ r.x \in Int /\ r.y \in Int /\ s.x \in Int /\ s.y \in Int
      /\ p.x \in Int /\ p.y \in Int /\ p.w \in Nat \ {0} /\ p.h \in Nat \ {0}
      /\ r.x <= p.x /\ p.x + p.w <= r.x + r.w
      /\ r.x <= x /\ x < r.x + r.w
  BY DEF RectangleI, IsEmpty, sfDoesCellIdxRectContain, XEnd, YEnd, Larger, InRect
<1>2. InRect(p, x, y) <=> 0 <= q /\ q < p.h /\ 0 <= c /\ c < p.w
  BY <1>1 DEF InRect, XEnd, YEnd
<1>3. q \in Int /\ c \in Int /\ c < r.w /\ p.w - r.w <= c
  BY <1>1
<1>4. k \in Int /\ off \in Int /\ k - off = q * r.w + c
  <2>1. (y - r.y) * r.w = (p.y - r.y) * r.w + q * r.w
    BY <1>1
  <2>2. (p.y - r.y) * r.w \in Int /\ q * r.w \in Int /\ (y - r.y) * r.w \in Int
    BY <1>1
  <2> QED BY <1>1, <2>1, <2>2 DEF CellOffset
<1>5. CopyRows(dst, off, r.w, src, soff, s.w, p.w, p.h, conv)[k]
        = IF copied THEN conv[src[soff + ((k - off) \div r.w) * s.w + ((k - off) % r.w)]]
          ELSE dst[k]
  <2>1. k \in DOMAIN dst
    BY CellInArray
  <2> HIDE DEF k, off, soff
  <2> QED BY <2>1 DEF CopyRows
<1>6. CellOffset(s, x, y) = soff + q * s.w + c
  <2>1. (y - s.y) * s.w = (p.y - s.y) * s.w + q * s.w
    BY <1>1
  <2>2. (p.y - s.y) * s.w \in Int /\ q * s.w \in Int /\ (y - s.y) * s.w \in Int
    BY <1>1
  <2> QED BY <1>1, <2>1, <2>2 DEF CellOffset
<1> HIDE DEF k, off, soff, q, c
<1>7. CASE 0 <= c
  <2>1. (k - off) \div r.w = q /\ (k - off) % r.w = c
    <3>1. c \in 0 .. r.w - 1 /\ k - off \in Int
      BY <1>1, <1>3, <1>4, <1>7
    <3> QED BY <1>1, <1>3, <1>4, <3>1, DivUnique
  <2>2. off <= k <=> 0 <= q
    <3>1. ASSUME q < 0 PROVE q * r.w <= -r.w
      BY <1>1, <1>3, <3>1
    <3>2. ASSUME 0 <= q PROVE 0 <= q * r.w
      BY <1>1, <1>3, <3>2
    <3>3. q * r.w \in Int
      BY <1>1, <1>3
    <3> QED BY <1>1, <1>3, <1>4, <1>7, <3>1, <3>2, <3>3
  <2>3. copied <=> InRect(p, x, y)
    BY <1>2, <1>7, <2>1, <2>2
  <2> QED BY <1>5, <1>6, <2>1, <2>3 DEF k, off, soff
<1>8. CASE c < 0
  <2>1. q - 1 \in Int /\ c + r.w \in 0 .. r.w - 1 /\ p.w <= c + r.w
    BY <1>1, <1>3, <1>8
  <2>2. k - off = (q - 1) * r.w + (c + r.w)
    <3>1. (q - 1) * r.w = q * r.w - r.w
      BY <1>1, <1>3
    <3>2. q * r.w \in Int
      BY <1>1, <1>3
    <3> QED BY <1>1, <1>3, <1>4, <3>1, <3>2
  <2>3. (k - off) % r.w = c + r.w
    BY <1>1, <1>4, <2>1, <2>2, DivUnique
  <2>4. ~copied
    BY <1>1, <1>3, <2>1, <2>3
  <2>5. ~InRect(p, x, y)
    BY <1>2, <1>3, <1>8
  <2> QED BY <1>5, <2>4, <2>5 DEF k, off, soff
<1> QED BY <1>3, <1>7, <1>8

-----------------------------------------------------------------------------
(* The array as a picture.                                                  *)

Shown(x, y) ==
  IF InRect(validCellIdxRect, x, y)
  THEN mapDat[CellOffset(availCellIdxRect, x, y)] ELSE 0

(* A cell that was allocated but never written reads as unknown.            *)
Unwritten ==
  \A x, y \in Int : InRect(availCellIdxRect, x, y) =>
    mapDat[CellOffset(availCellIdxRect, x, y)] = Shown(x, y)

PictureIInv == TypeIInv /\ Unwritten

LEMMA ContainsCells ==
  ASSUME NEW a \in RectangleI, NEW b \in RectangleI, NEW x \in Int, NEW y \in Int,
         ~IsEmpty(b) => sfDoesCellIdxRectContain(a, b), InRect(b, x, y)
  PROVE  InRect(a, x, y)
  BY DEF sfDoesCellIdxRectContain, InRect, IsEmpty, RectangleI, XEnd, YEnd, Larger

LEMMA EmptyHasNoCell ==
  ASSUME NEW r \in RectangleI, IsEmpty(r), NEW x \in Int, NEW y \in Int
  PROVE  ~InRect(r, x, y)
  BY DEF InRect, IsEmpty, RectangleI, XEnd, YEnd

LEMMA ShownType ==
  ASSUME TypeIInv, NEW x \in Int, NEW y \in Int
  PROVE  Shown(x, y) \in CellValues \cup {0} /\ Shown(x, y) \in 0 .. 255
<1>1. CellValues \cup {0} \subseteq 0 .. 255
  OBVIOUS
<1>2. CASE InRect(validCellIdxRect, x, y)
  <2>1. InRect(availCellIdxRect, x, y)
    BY <1>2, ContainsCells DEF TypeIInv, TypeOK, IInv, Storage
  <2>2. CellOffset(availCellIdxRect, x, y) \in Offsets(availCellIdxRect)
    BY <2>1, CellInArray DEF TypeIInv, TypeOK
  <2> QED BY <1>1, <1>2, <2>2 DEF Shown, TypeIInv, TypeOK
<1>3. CASE ~InRect(validCellIdxRect, x, y)
  BY <1>1, <1>3 DEF Shown
<1> QED BY <1>2, <1>3

(* Reserving changes no cell: the new array shows what the old one did.     *)
LEMMA ReservedShows ==
  ASSUME PictureIInv, NEW avail \in RectangleI,
         ~IsEmpty(availCellIdxRect) => sfDoesCellIdxRectContain(avail, availCellIdxRect),
         NEW x \in Int, NEW y \in Int, InRect(avail, x, y)
  PROVE  ReservedData(avail)[CellOffset(avail, x, y)] = Shown(x, y)
<1> DEFINE v == validCellIdxRect
           zeros == [k \in Offsets(avail) |-> 0]
           at == CellOffset(avail, x, y)
<1>1. at \in Offsets(avail)
  BY CellInArray
<1>2. zeros[at] = 0 /\ zeros \in [Offsets(avail) -> Int]
  BY <1>1
<1>3. CASE avail = availCellIdxRect
  BY <1>3 DEF ReservedData, PictureIInv, Unwritten
<1>4. CASE avail # availCellIdxRect /\ IsEmpty(v)
  <2>1. Shown(x, y) = 0
    BY <1>4, EmptyHasNoCell DEF Shown, PictureIInv, TypeIInv, TypeOK
  <2> QED BY <1>2, <1>4, <2>1 DEF ReservedData
<1>5. CASE avail # availCellIdxRect /\ ~IsEmpty(v)
  <2>1. ReservedData(avail) = CopyRows(zeros, CellOffset(avail, v.x, v.y), avail.w,
                                       mapDat, CellOffset(availCellIdxRect, v.x, v.y),
                                       availCellIdxRect.w, v.w, v.h, Same)
    BY <1>5 DEF ReservedData
  <2>2. /\ v \in RectangleI /\ availCellIdxRect \in RectangleI
        /\ ~IsEmpty(v) /\ sfDoesCellIdxRectContain(availCellIdxRect, v)
    BY <1>5 DEF PictureIInv, TypeIInv, TypeOK, IInv, Storage
  <2>3. ~IsEmpty(availCellIdxRect)
    BY <2>2 DEF sfDoesCellIdxRectContain
  <2>4. sfDoesCellIdxRectContain(avail, v)
    BY <2>2, <2>3, ContainsTransitive
  <2> HIDE DEF v, zeros
  <2>5. ReservedData(avail)[CellOffset(avail, x, y)]
          = IF InRect(v, x, y) THEN Same[mapDat[CellOffset(availCellIdxRect, x, y)]]
            ELSE zeros[CellOffset(avail, x, y)]
    <3>1. DOMAIN zeros = Offsets(avail)
      BY DEF zeros
    <3>2. CopyReads(avail, availCellIdxRect, v, zeros, mapDat, Same)
      BY <2>2, <2>4, <3>1, CopyRowsRead
    <3> QED BY <2>1, <3>2, Zenon DEF CopyReads
  <2>6. CASE InRect(v, x, y)
    <3>1. Shown(x, y) = mapDat[CellOffset(availCellIdxRect, x, y)]
      BY <2>6 DEF Shown, v
    <3>2. Shown(x, y) \in 0 .. 255
      BY ShownType DEF PictureIInv
    <3> QED BY <2>5, <2>6, <3>1, <3>2 DEF Same
  <2>7. CASE ~InRect(v, x, y)
    BY <1>2, <2>5, <2>7 DEF Shown, v
  <2> QED BY <2>6, <2>7
<1> QED BY <1>3, <1>4, <1>5

(* A piece is written where it belongs, and nowhere else.                   *)
LEMMA WrittenShows ==
  ASSUME PictureIInv, NEW u \in Updates, setMapData(u),
         NEW x \in Int, NEW y \in Int, InRect(AvailFor(u.rect), x, y)
  PROVE  mapDat'[CellOffset(AvailFor(u.rect), x, y)]
           = IF InRect(u.rect, x, y) THEN u.dat[CellOffset(u.rect, x, y)]
             ELSE Shown(x, y)
<1> DEFINE avail == AvailFor(u.rect)
           dst == ReservedData(avail)
<1>1. /\ u.rect \in RectangleI /\ ~IsEmpty(u.rect)
      /\ u.dat \in [Offsets(u.rect) -> CellValues]
  OBVIOUS
<1>2. /\ avail \in RectangleI /\ ~IsEmpty(avail)
      /\ sfDoesCellIdxRectContain(avail, u.rect)
      /\ ~IsEmpty(availCellIdxRect) => sfDoesCellIdxRectContain(avail, availCellIdxRect)
  <2>1. /\ avail \in RectangleI /\ ~IsEmpty(avail)
        /\ sfDoesCellIdxRectContain(avail, u.rect)
    BY <1>1, AvailHolds DEF PictureIInv, TypeIInv
  <2>2. ~IsEmpty(availCellIdxRect) => sfDoesCellIdxRectContain(avail, availCellIdxRect)
    BY <1>1, AvailKeeps DEF PictureIInv, TypeIInv
  <2> QED BY <2>1, <2>2
<1>3. dst \in [Offsets(avail) -> CellValues \cup {0}]
  BY <1>2, ReservedDataType DEF PictureIInv
<1>4. dst[CellOffset(avail, x, y)] = Shown(x, y)
  BY <1>2, ReservedShows
<1>5. mapDat' = CopyRows(dst, CellOffset(avail, u.rect.x, u.rect.y), avail.w, u.dat,
                         CellOffset(u.rect, u.rect.x, u.rect.y), u.rect.w,
                         u.rect.w, u.rect.h, Same)
  BY <1>1, ContainsItself DEF setMapData
<1>6. sfDoesCellIdxRectContain(u.rect, u.rect)
  BY <1>1, ContainsItself
<1>7. InRect(avail, x, y)
  OBVIOUS
<1> HIDE DEF avail, dst
<1>8. mapDat'[CellOffset(avail, x, y)]
        = IF InRect(u.rect, x, y) THEN Same[u.dat[CellOffset(u.rect, x, y)]]
          ELSE dst[CellOffset(avail, x, y)]
  <2>1. DOMAIN dst = Offsets(avail)
    BY <1>3
  <2>2. /\ avail \in RectangleI /\ sfDoesCellIdxRectContain(avail, u.rect)
        /\ u.rect \in RectangleI /\ ~IsEmpty(u.rect)
    BY <1>1, <1>2
  <2>3. CopyReads(avail, u.rect, u.rect, dst, u.dat, Same)
    BY <1>6, <2>1, <2>2, CopyRowsRead
  <2> QED BY <1>5, <1>7, <2>3, Zenon DEF CopyReads
<1>9. ASSUME InRect(u.rect, x, y)
      PROVE  Same[u.dat[CellOffset(u.rect, x, y)]] = u.dat[CellOffset(u.rect, x, y)]
  <2>1. CellOffset(u.rect, x, y) \in Offsets(u.rect)
    BY <1>1, <1>9, CellInArray
  <2>2. u.dat[CellOffset(u.rect, x, y)] \in 0 .. 255
    BY <1>1, <2>1
  <2> QED BY <2>2 DEF Same
<1> QED BY <1>4, <1>8, <1>9 DEF avail

-----------------------------------------------------------------------------
(* The refinement.                                                          *)

CellCoordinates == \A c \in Cells : c[1] \in Int /\ c[2] \in Int

LEMMA CellsAreCells == CellCoordinates
  BY DEF CellCoordinates

LEMMA InitPicture == Init => Unwritten /\ Picture!Init
<1> SUFFICES ASSUME Init PROVE Unwritten /\ Picture!Init
  OBVIOUS
<1>1. \A x, y \in Int : ~InRect(NullRect, x, y)
  BY NullRectHolds, EmptyHasNoCell
<1>2. Unwritten
  BY <1>1 DEF Init, Unwritten
<1>3. ShownPicture = Picture!Blank
  BY <1>1, CellsAreCells DEF Init, ShownPicture, Picture!Blank, CellCoordinates
<1>4. ShownMessage = Picture!NoMessage /\ NullRect = Picture!NullRect
  BY <1>1, CellsAreCells
     DEF Init, ShownMessage, NoMessage, CellCoordinates, Picture!NoMessage,
         NullRect, Rect, Picture!NullRect, Picture!Rect
<1> QED BY <1>2, <1>3, <1>4 DEF Init, Picture!Init

(* After an operation that publishes nothing.                               *)
LEMMA NothingShown ==
  ASSUME msgMap' = NoMessage PROVE ShownMessage' = Picture!NoMessage
<1>1. \A x, y \in Int : ~InRect(NullRect, x, y)
  BY NullRectHolds, EmptyHasNoCell
<1> QED BY <1>1, CellsAreCells
           DEF ShownMessage, NoMessage, CellCoordinates, Picture!NoMessage,
               NullRect, Rect, Picture!NullRect, Picture!Rect

LEMMA ClearPicture ==
  ASSUME clear PROVE Unwritten' /\ Picture!Clear
<1>1. \A x, y \in Int : ~InRect(NullRect, x, y)
  BY NullRectHolds, EmptyHasNoCell
<1>2. availCellIdxRect' = NullRect /\ validCellIdxRect' = NullRect
  BY DEF clear, Clear
<1>3. Unwritten'
  BY <1>1, <1>2 DEF Unwritten
<1>4. ShownPicture' = Picture!Blank
  BY <1>1, <1>2, CellsAreCells DEF ShownPicture, Picture!Blank, CellCoordinates
<1>5. NullRect = Picture!NullRect
  BY DEF NullRect, Rect, Picture!NullRect, Picture!Rect
<1> QED BY <1>2, <1>3, <1>4, <1>5, NothingShown DEF clear, Picture!Clear

LEMMA ReservePicture ==
  ASSUME PictureIInv, NEW r \in KnownRects, reserveByCellIdxRect(r)
  PROVE  Unwritten' /\ Picture!Reserve
<1> DEFINE avail == ReservedRect(r)
<1>1. /\ availCellIdxRect' = avail /\ mapDat' = ReservedData(avail)
      /\ validCellIdxRect' = validCellIdxRect /\ msgMap' = NoMessage
  BY DEF reserveByCellIdxRect
<1>2. /\ avail \in RectangleI
      /\ ~IsEmpty(availCellIdxRect) => sfDoesCellIdxRectContain(avail, availCellIdxRect)
  <2>1. r \in RectangleI
    OBVIOUS
  <2> QED BY <2>1, ReservedHolds DEF PictureIInv, TypeIInv
<1>3. ~IsEmpty(validCellIdxRect) => sfDoesCellIdxRectContain(avail, validCellIdxRect)
  <2>1. ~IsEmpty(validCellIdxRect) =>
          /\ sfDoesCellIdxRectContain(availCellIdxRect, validCellIdxRect)
          /\ ~IsEmpty(availCellIdxRect)
    BY DEF PictureIInv, TypeIInv, IInv, Storage, sfDoesCellIdxRectContain
  <2> QED BY <1>2, <2>1, ContainsTransitive DEF PictureIInv, TypeIInv, TypeOK
<1> HIDE DEF avail
<1>4. \A x, y \in Int : InRect(avail, x, y) =>
        ReservedData(avail)[CellOffset(avail, x, y)] = Shown(x, y)
  BY <1>2, ReservedShows
<1>5. \A x, y \in Int : InRect(validCellIdxRect, x, y) => InRect(avail, x, y)
  BY <1>2, <1>3, ContainsCells DEF PictureIInv, TypeIInv, TypeOK
<1>6. \A x, y \in Int : Shown(x, y)' = Shown(x, y)
  BY <1>1, <1>4, <1>5 DEF Shown
<1>7. Unwritten'
  BY <1>1, <1>4, <1>6 DEF Unwritten
<1>8. ShownPicture' = ShownPicture
  BY <1>6, CellsAreCells DEF ShownPicture, Shown, CellCoordinates
<1> QED BY <1>1, <1>7, <1>8, NothingShown DEF Picture!Reserve

LEMMA WritePicture ==
  ASSUME PictureIInv, NEW u \in Updates, setMapData(u)
  PROVE  Unwritten' /\ Picture!Write(u)
<1> DEFINE avail == AvailFor(u.rect)
           valid == sfMergeCellIdxRect(validCellIdxRect, u.rect)
           Written(x, y) == IF InRect(u.rect, x, y) THEN u.dat[CellOffset(u.rect, x, y)]
                            ELSE Shown(x, y)
<1>1. /\ availCellIdxRect' = avail /\ validCellIdxRect' = valid /\ msgMap' = NoMessage
  BY DEF setMapData
<1>2. /\ u.rect \in RectangleI /\ ~IsEmpty(u.rect)
      /\ validCellIdxRect \in RectangleI /\ valid \in RectangleI /\ avail \in RectangleI
      /\ sfDoesCellIdxRectContain(valid, u.rect)
      /\ ~IsEmpty(validCellIdxRect) => sfDoesCellIdxRectContain(valid, validCellIdxRect)
      /\ ~IsEmpty(valid) => sfDoesCellIdxRectContain(avail, valid)
  <2>1. u.rect \in RectangleI /\ ~IsEmpty(u.rect)
    OBVIOUS
  <2>2. IInv /\ validCellIdxRect \in RectangleI
    BY DEF PictureIInv, TypeIInv, TypeOK
  <2>3. /\ avail \in RectangleI /\ sfDoesCellIdxRectContain(avail, u.rect)
        /\ ~IsEmpty(validCellIdxRect) => sfDoesCellIdxRectContain(avail, validCellIdxRect)
    BY <2>1, <2>2, AvailHolds
  <2> HIDE DEF avail
  <2> QED BY <2>1, <2>2, <2>3, MergeContains, ContainsMerge
<1>3. \A x, y \in Int : InRect(avail, x, y) =>
        mapDat'[CellOffset(avail, x, y)] = Written(x, y)
  BY WrittenShows
<1> HIDE DEF avail, valid
<1>4. \A x, y \in Int : InRect(valid, x, y) => InRect(avail, x, y)
  BY <1>2, ContainsCells
<1>5. \A x, y \in Int : ~InRect(valid, x, y) => Written(x, y) = 0 /\ ~InRect(u.rect, x, y)
  BY <1>2, ContainsCells DEF Shown
<1>6. \A x, y \in Int : Shown(x, y)' = Written(x, y)
  <2> HIDE DEF Written
  <2> QED BY <1>1, <1>3, <1>4, <1>5 DEF Shown
<1>7. Unwritten'
  <2> HIDE DEF Written
  <2> QED BY <1>1, <1>3, <1>6 DEF Unwritten
<1>8. ShownPicture' = [c \in Cells |-> Written(c[1], c[2])]
  <2>1. ShownPicture' = [c \in Cells |-> Shown(c[1], c[2])']
    BY DEF ShownPicture, Shown
  <2> HIDE DEF Written
  <2> QED BY <1>6, <2>1, CellsAreCells DEF CellCoordinates
<1>9. ShownPicture = [c \in Cells |-> Shown(c[1], c[2])]
  BY DEF ShownPicture, Shown
<1>10. ShownPicture' = [c \in Cells |->
                          IF Picture!InRect(u.rect, c[1], c[2])
                          THEN u.dat[Picture!CellOffset(u.rect, c[1], c[2])]
                          ELSE ShownPicture[c]]
  BY <1>8, <1>9 DEF InRect, CellOffset, XEnd, YEnd, Picture!InRect, Picture!CellOffset,
                    Picture!XEnd, Picture!YEnd
<1>11. validCellIdxRect' = Picture!sfMergeCellIdxRect(validCellIdxRect, u.rect)
  BY <1>1 DEF valid, sfMergeCellIdxRect, IsEmpty, Rect, XEnd, YEnd, Smaller, Larger,
     Picture!sfMergeCellIdxRect, Picture!IsEmpty, Picture!Rect, Picture!XEnd, Picture!YEnd,
     Picture!Smaller, Picture!Larger
<1> QED BY <1>1, <1>7, <1>10, <1>11, NothingShown DEF Picture!Write

LEMMA PublishPicture ==
  ASSUME PictureIInv, fillRosMapMsg
  PROVE  Unwritten' /\ Picture!Publish
<1> DEFINE v == validCellIdxRect
           empty == [k \in Offsets(v) |-> -1]
<1>1. /\ ~IsEmpty(v) /\ msgMap' = [rect |-> v, data |-> FilledData(v)]
      /\ UNCHANGED <<availCellIdxRect, validCellIdxRect, mapDat>>
  BY DEF fillRosMapMsg
<1>2. /\ v \in RectangleI /\ availCellIdxRect \in RectangleI
      /\ sfDoesCellIdxRectContain(availCellIdxRect, v)
      /\ sfDoesCellIdxRectContain(v, v)
  BY <1>1, ContainsItself DEF PictureIInv, TypeIInv, TypeOK, IInv, Storage
<1>3. FilledData(v) = CopyRows(empty, CellOffset(v, v.x, v.y), v.w,
                               mapDat, CellOffset(availCellIdxRect, v.x, v.y),
                               availCellIdxRect.w, v.w, v.h, RosCell)
  <2>1. sfIntersectionOfCellIdxRect(v, v) = v
    BY <1>1, <1>2 DEF sfIntersectionOfCellIdxRect, RectangleI, Rect, IsEmpty,
                      XEnd, YEnd, Larger, Smaller
  <2> QED BY <1>1, <2>1 DEF FilledData
<1>4. \A x, y \in Int : InRect(v, x, y) =>
        FilledData(v)[CellOffset(v, x, y)] = Picture!OccupancyClass(Shown(x, y))
  <2>1. CopyReads(v, availCellIdxRect, v, empty, mapDat, RosCell)
    <3>1. DOMAIN empty = Offsets(v)
      OBVIOUS
    <3> HIDE DEF v, empty
    <3> QED BY <1>1, <1>2, <3>1, CopyRowsRead
  <2> TAKE x, y \in Int
  <2> HAVE InRect(v, x, y)
  <2>2. FilledData(v)[CellOffset(v, x, y)]
          = RosCell[mapDat[CellOffset(availCellIdxRect, x, y)]]
    <3> HIDE DEF v, empty
    <3> QED BY <1>3, <2>1, Zenon DEF CopyReads
  <2>3. Shown(x, y) = mapDat[CellOffset(availCellIdxRect, x, y)]
    BY DEF Shown
  <2>4. Shown(x, y) \in 0 .. 255
    BY ShownType DEF PictureIInv
  <2>5. RosCell[Shown(x, y)] = Picture!OccupancyClass(Shown(x, y))
    BY <2>4 DEF RosCell, Picture!OccupancyClass
  <2> QED BY <2>2, <2>3, <2>5
<1>5. Unwritten'
  BY <1>1 DEF Unwritten, Shown, PictureIInv
<1>6. ShownPicture' = ShownPicture /\ ShownPicture = [c \in Cells |-> Shown(c[1], c[2])]
  BY <1>1 DEF ShownPicture, Shown
<1>7. ShownMessage' = [extent |-> v,
                       classes |-> [c \in Picture!CellsOf(v) |->
                                      Picture!OccupancyClass(ShownPicture[c])]]
  <2>1. Picture!CellsOf(v) = {c \in Cells : InRect(v, c[1], c[2])}
    BY DEF Picture!CellsOf, InRect, XEnd, YEnd, Picture!InRect, Picture!XEnd, Picture!YEnd
  <2>2. msgMap'.rect = v /\ msgMap'.data = FilledData(v)
    BY <1>1
  <2>3. ShownMessage' = [extent |-> v,
                         classes |-> [c \in {c \in Cells : InRect(v, c[1], c[2])} |->
                                        FilledData(v)[CellOffset(v, c[1], c[2])]]]
    BY <2>2 DEF ShownMessage
  <2>4. \A c \in Picture!CellsOf(v) :
          FilledData(v)[CellOffset(v, c[1], c[2])] = Picture!OccupancyClass(ShownPicture[c])
    BY <1>4, <1>6, <2>1, CellsAreCells DEF CellCoordinates
  <2> HIDE DEF v
  <2> QED BY <2>1, <2>3, <2>4
<1>8. ~Picture!IsEmpty(v)
  BY <1>1 DEF IsEmpty, Picture!IsEmpty
<1> QED BY <1>1, <1>5, <1>6, <1>7, <1>8 DEF Picture!Publish

(* The array with its widths and offsets is a picture of cells, for any     *)
(* alignment, slack and pieces: through every growth a cell reads as what   *)
(* was last written to it, unknown if nothing was, and the published grid   *)
(* shows just that.                                                         *)
THEOREM ImplementsPicture == Spec => RefinesPicture
<1> DEFINE shown == <<ShownPicture, validCellIdxRect, ShownMessage>>
<1>1. Init => PictureIInv /\ Picture!Init
  BY InitIInv, InitType, InitPicture DEF PictureIInv, TypeIInv
<1>2. PictureIInv /\ [Next]_vars => PictureIInv' /\ [Picture!Next]_shown
  <2> SUFFICES ASSUME PictureIInv, [Next]_vars
               PROVE  PictureIInv' /\ [Picture!Next]_shown
    OBVIOUS
  <2>1. TypeIInv'
    BY NextIInv, NextType DEF PictureIInv, TypeIInv
  <2>2. CASE clear
    BY <2>1, <2>2, ClearPicture DEF PictureIInv, Picture!Next
  <2>3. ASSUME NEW r \in KnownRects, reserveByCellIdxRect(r)
        PROVE  PictureIInv' /\ [Picture!Next]_shown
    BY <2>1, <2>3, ReservePicture DEF PictureIInv, Picture!Next
  <2>4. ASSUME NEW u \in Updates, setMapData(u)
        PROVE  PictureIInv' /\ [Picture!Next]_shown
    BY <2>1, <2>4, WritePicture DEF PictureIInv, Picture!Next
  <2>5. CASE fillRosMapMsg
    BY <2>1, <2>5, PublishPicture DEF PictureIInv, Picture!Next
  <2>6. CASE UNCHANGED vars
    <3>1. Unwritten'
      BY <2>6 DEF vars, Unwritten, Shown, PictureIInv
    <3>2. UNCHANGED shown
      BY <2>6 DEF vars, ShownPicture, ShownMessage
    <3> QED BY <2>1, <3>1, <3>2 DEF PictureIInv
  <2> QED BY <2>2, <2>3, <2>4, <2>5, <2>6 DEF Next
<1> QED BY <1>1, <1>2, PTL DEF Spec, RefinesPicture, Picture!Spec

=============================================================================
