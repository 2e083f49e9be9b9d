--------------------------- MODULE MCRoomDispatch ---------------------------
(* Two subscribers of one trip on instance i1, and a peer i2 that writes to *)
(* the trip too.  Rooms of different instances share nothing but the log.   *)
EXTENDS RoomDispatch, TLC

CONSTANTS i1, i2, s1, s2

MCHome == (s1 :> i1 @@ s2 :> i1)
=============================================================================
