------------------------- MODULE MCSlidingSyncCache -------------------------
(* A sliding sync cache for TLC.                                           *)
EXTENDS SlidingSyncCache, TLC

CONSTANTS r1, r2

MCMaxEvents == r1 :> 3 @@ r2 :> 1
=============================================================================
