--------------------------- MODULE OrderedStream ---------------------------
(***************************************************************************)
(* What the sync engine's broker promises its subscribers (room.go: "Every *)
(* Sink in a room sees operations with strictly increasing, contiguous     *)
(* Seq"; broker.go: "a gapless, monotonic stream regardless of how many    *)
(* instances are publishing into it").                                     *)
(*                                                                         *)
(* The log only grows.  A subscriber joins at some point not beyond the    *)
(* log's end, and from there is offered every operation, in order, exactly *)
(* once, until it leaves.                                                  *)
(***************************************************************************)
EXTENDS Naturals

CONSTANT Subs           \* subscriptions

VARIABLES head,         \* operations committed so far: the log is 1..head
          due,          \* the next operation owed to each subscriber; 0: none
          offered       \* the last one offered to it since it joined; 0: none

streamVars == <<head, due, offered>>

Init ==
    /\ head = 0
    /\ due = [s \in Subs |-> 0]
    /\ offered = [s \in Subs |-> 0]

(* Transactions commit one or more operations. *)
Commit ==
    /\ head' \in Nat /\ head' > head
    /\ UNCHANGED <<due, offered>>

(* Nothing committed after the join is missed: the stream starts no later   *)
(* than the operation after the head.                                       *)
Join(s) ==
    /\ due[s] = 0
    /\ \E n \in 1..head + 1 : due' = [due EXCEPT ![s] = n]
    /\ UNCHANGED <<head, offered>>

(* The subscribers in S, all in one room, are offered what they are owed.   *)
Offer(S) ==
    /\ \A s \in S : due[s] > 0 /\ due[s] <= head
    /\ due' = [s \in Subs |-> IF s \in S THEN due[s] + 1 ELSE due[s]]
    /\ offered' = [s \in Subs |-> IF s \in S THEN due[s] ELSE offered[s]]
    /\ UNCHANGED head

Leave(S) ==
    /\ due' = [s \in Subs |-> IF s \in S THEN 0 ELSE due[s]]
    /\ offered' = [s \in Subs |-> IF s \in S THEN 0 ELSE offered[s]]
    /\ UNCHANGED head

Next ==
    \/ Commit
    \/ \E s \in Subs : Join(s)
    \/ \E S \in SUBSET Subs : Offer(S) \/ Leave(S)

Spec == Init /\ [][Next]_streamVars

=============================================================================
