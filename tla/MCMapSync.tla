------------------------------ MODULE MCMapSync ------------------------------
(* TLC instances of MapSync: three tiles make an area with an inside, and a *)
(* sync of several calls with steps between them (two tiles where a request *)
(* is lost); three generations a map that is loaded (two of them) and one   *)
(* that was there before, two resolutions a mismatch.                       *)
EXTENDS MapSync
=============================================================================
