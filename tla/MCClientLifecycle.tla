------------------------- MODULE MCClientLifecycle -------------------------
(* A page with three logins for TLC.                                       *)
EXTENDS ClientLifecycle, TLC

CONSTANTS l1, l2, l3

AnyOrder == Permutations(Login)
=============================================================================
