---------------------------- MODULE MCEventIndex ----------------------------
(* The message crawler on a few short rooms, for TLC.                      *)
EXTENDS EventIndex
=============================================================================
