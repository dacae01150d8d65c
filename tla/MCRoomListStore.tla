-------------------------- MODULE MCRoomListStore --------------------------
(* The room list of three rooms, one of which replaces another, for TLC.   *)
EXTENDS RoomListStore

CONSTANTS upgraded, successor, other

Upgrade == (upgraded :> None) @@ (successor :> upgraded) @@ (other :> None)
=============================================================================
