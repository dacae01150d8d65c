--------------------------- MODULE MCSessionLock ---------------------------
(* The session lock with a few tabs, for TLC.                              *)
EXTENDS SessionLock, TLC

Symmetry == Permutations(Tab)
=============================================================================
