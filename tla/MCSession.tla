----------------------------- MODULE MCSession -----------------------------
(* One client, one connection at a time, up to two subscriptions at once on  *)
(* it, and another connection in the room.                                   *)
EXTENDS Session, TLC

CONSTANTS s1, s2, m1

Handles == Permutations(Subs)
=============================================================================
