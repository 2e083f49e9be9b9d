------------------------------ MODULE MCOpLog ------------------------------
(* Two request goroutines and three client operations on one entity, which *)
(* create it, edit it and delete it with a cascade, each free to be retried *)
(* at any time, beside REST writes.                                         *)
EXTENDS OpLog, TLC

CONSTANTS c1, c2, c3, e1, p1, p2

MCKind == (c1 :> "cascade" @@ c2 :> "create" @@ c3 :> "edit")
MCTarget == (c1 :> e1 @@ c2 :> e1 @@ c3 :> e1)
=============================================================================
