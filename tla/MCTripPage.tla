----------------------------- MODULE MCTripPage -----------------------------
(* One client with a page, one subscription at a time on its connection, and *)
(* another connection in the room.                                           *)
EXTENDS TripPage

CONSTANTS s1, m1
=============================================================================
