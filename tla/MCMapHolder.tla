----------------------------- MODULE MCMapHolder -----------------------------
(* A TLC instance of MapHolder and its refinement of MapPicture.  The       *)
(* alignment is 2 and the slack 1 instead of 16 and 32; the pieces lie on   *)
(* both sides of the origin, overlap, touch, and stick out of one another   *)
(* on each side.  Cell values are those at the bounds of the classes.       *)
EXTENDS MapHolder

Pieces == {Rect(0, 0, 2, 1), Rect(-2, -1, 4, 3), Rect(3, -2, 1, 2), Rect(1, 0, 3, 2),
           Rect(-1, 4, 1, 1)}

Value(n) == CASE n % 3 = 0 -> 128 [] n % 3 = 1 -> 127 [] OTHER -> 0

MCCellValues == {0, 127, 128}
MCUpdates ==
  {[rect |-> r, dat |-> [k \in Offsets(r) |-> Value(k + s)]] : r \in Pieces, s \in 0 .. 1}
MCKnownRects == {NullRect, Rect(-1, 0, 2, 2), Rect(2, 3, 3, 1)}
MCCells == (-6 .. 8) \X (-6 .. 8)
=============================================================================
