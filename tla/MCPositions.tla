---------------------------- MODULE MCPositions ----------------------------
(* Positions with few digits and heads, so that keys run out of room.      *)
EXTENDS Positions

(* KeyBetween beyond the keys the run's positions have.                    *)
ASSUME BetweenStrictHere ==
    \A a, b \in OrderKeys(MaxLength + 1) \cup {Empty} :
        (a = Empty \/ b = Empty \/ Less(a, b)) => BetweenStrict(a, b)
=============================================================================
