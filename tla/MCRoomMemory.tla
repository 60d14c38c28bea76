---------------------------- MODULE MCRoomMemory ----------------------------
(* A small instance of RoomMemory: two roles share a room, one has another. *)
EXTENDS RoomMemory, TLC

CONSTANTS hr, dev, Team, Line

SmallRoles == {hr, dev}
SmallRooms == {Team, Line}
SmallSubs  == hr :> {Team, Line} @@ dev :> {Line}
=============================================================================
