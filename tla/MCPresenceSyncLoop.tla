------------------------- MODULE MCPresenceSyncLoop -------------------------
(* A presence loop for TLC.                                                *)
EXTENDS PresenceSyncLoop, TLC
=============================================================================
