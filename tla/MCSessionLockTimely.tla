------------------------ MODULE MCSessionLockTimely ------------------------
(* The punctual session lock with a few tabs, for TLC.                     *)
EXTENDS SessionLockTimely, TLC

Symmetry == Permutations(Tab)
=============================================================================
