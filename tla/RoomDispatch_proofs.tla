------------------------ MODULE RoomDispatch_proofs ------------------------
(***************************************************************************)
(* The rooms implement OrderedStream, for any number of instances and      *)
(* subscribers and any capacities.                                         *)
(*                                                                         *)
(* The argument: everything a room has heard of is committed, so next never *)
(* passes the head by more than one and what drain offers is in the log; a *)
(* subscriber that is not in the room has been offered nothing since it    *)
(* left, so opening or deleting a room may move next freely; and only      *)
(* drain moves the next of a room that has subscribers.                    *)
(***************************************************************************)
EXTENDS RoomDispatch, Integers, TLAPS

(* A room without subscribers does not exist, and holds nothing.            *)
ClosedInv ==
    \A i \in Instances : member[i] = {} => pending[i] = {} /\ inbox[i] = <<>>

(* Who is in a room belongs there, who is not has been offered nothing, and *)
(* a subscribe under way is by somebody outside, with a head that is past.  *)
MemberInv ==
    /\ \A i \in Instances : \A s \in member[i] : Home[s] = i
    /\ \A s \in Subs : s \notin member[Home[s]] => offered[s] = <<>>
    /\ \A s \in Subs : readHead[s] # NoHead =>
          readHead[s] <= head /\ s \notin member[Home[s]]

(* Nothing already offered is held, and the timer runs when drain is going  *)
(* to leave something behind.                                               *)
HeldInv ==
    \A i \in Instances :
        /\ \A n \in pending[i] : n >= next[i]
        /\ Residue(i, pending[i]) # {} => armed[i]

Inv == /\ TypeOK /\ NeverAheadOfLog /\ ClosedInv /\ MemberInv /\ HeldInv
       /\ SinkSeesContiguous
-----------------------------------------------------------------------------
(* A function on 1..n is a sequence of length n.                            *)
LEMMA FcnIsSeq ==
  ASSUME NEW S, NEW n \in Nat, NEW f \in [1..n -> S]
  PROVE  f \in Seq(S) /\ Len(f) = n
  OBVIOUS

(* enqueue keeps the inbox within its capacity, adds only operations of the *)
(* batch, and only to a room that exists.                                   *)
LEMMA EnqueueProps ==
  ASSUME TypeOK, NEW i \in Instances, NEW from \in Seqs, NEW to \in Seqs, from <= to
  PROVE  /\ Enqueue(i, from, to) \in [Instances -> Seq(Seqs)]
         /\ \A j \in Instances : Len(Enqueue(i, from, to)[j]) <= InboxCap
         /\ \A j \in Instances : \A k \in 1..Len(Enqueue(i, from, to)[j]) :
               \/ \E m \in 1..Len(inbox[j]) : Enqueue(i, from, to)[j][k] = inbox[j][m]
               \/ Enqueue(i, from, to)[j][k] \in from..to
         /\ \A j \in Instances : ~RoomOpen(j) => Enqueue(i, from, to)[j] = inbox[j]
<1> DEFINE space == InboxCap - Len(inbox[i])
           last == IF to - from + 1 <= space THEN to ELSE from + space - 1
           more == [k \in 1..(last - from + 1) |-> from + k - 1]
           new == inbox[i] \o more
<1>1. /\ inbox[i] \in Seq(Seqs) /\ Len(inbox[i]) \in Nat /\ space \in Nat
      /\ Len(inbox[i]) <= InboxCap
  BY RoomAssumption DEF TypeOK
<1>0. from \in Nat /\ to \in Nat /\ from >= 1 /\ to <= MaxOps /\ MaxOps \in Nat
  BY RoomAssumption DEF Seqs
<1>2. last \in Int /\ last - from + 1 \in Nat /\ last - from + 1 <= space /\ last <= to
  <2> HIDE DEF space
  <2>1. CASE to - from + 1 <= space
    BY <2>1, <1>0, <1>1
  <2>2. CASE ~(to - from + 1 <= space)
    BY <2>2, <1>0, <1>1
  <2> QED
    BY <2>1, <2>2
<1>3. more \in Seq(Seqs) /\ Len(more) = last - from + 1
      /\ \A k \in 1..Len(more) : more[k] \in from..to
  <2> HIDE DEF last
  <2>1. \A k \in 1..(last - from + 1) : from + k - 1 \in Seqs /\ from + k - 1 \in from..to
    BY <1>0, <1>2 DEF Seqs
  <2>2. more \in [1..(last - from + 1) -> Seqs]
    BY <2>1
  <2>3. more \in Seq(Seqs) /\ Len(more) = last - from + 1
    BY <2>2, <1>2, FcnIsSeq
  <2> QED
    BY <2>1, <2>3
<1>4. /\ new \in Seq(Seqs)
      /\ Len(new) = Len(inbox[i]) + Len(more)
      /\ \A k \in 1..Len(new) : new[k] = IF k <= Len(inbox[i]) THEN inbox[i][k]
                                          ELSE more[k - Len(inbox[i])]
  <2> HIDE DEF more
  <2> QED
    BY <1>1, <1>3
<1>5. Len(new) <= InboxCap
  BY <1>1, <1>2, <1>3, <1>4, RoomAssumption
<1>6. \A k \in 1..Len(new) : \/ \E m \in 1..Len(inbox[i]) : new[k] = inbox[i][m]
                             \/ new[k] \in from..to
  <2> HIDE DEF last, more, new
  <2> TAKE k \in 1..Len(new)
  <2>1. CASE k <= Len(inbox[i])
    BY <2>1, <1>1, <1>4
  <2>2. CASE k > Len(inbox[i])
    <3>1. k - Len(inbox[i]) \in 1..Len(more)
      <4>1. Len(more) \in Nat
        BY <1>2, <1>3
      <4> QED
        BY <4>1, <2>2, <1>1, <1>4
    <3>2. new[k] = more[k - Len(inbox[i])]
      BY <2>2, <1>1, <1>4
    <3> QED
      BY <3>1, <3>2, <1>3
  <2> QED
    BY <2>1, <2>2, <1>1, <1>4
<1>7. Enqueue(i, from, to) = IF RoomOpen(i) THEN [inbox EXCEPT ![i] = new] ELSE inbox
  BY DEF Enqueue
<1> HIDE DEF new
<1> QED
  BY <1>1, <1>4, <1>5, <1>6, <1>7 DEF TypeOK

(* Type correctness is preserved.                                           *)
LEMMA TypeStep == TypeOK /\ MemberInv /\ [Next]_vars => TypeOK'
<1> SUFFICES ASSUME TypeOK, MemberInv, [Next]_vars PROVE TypeOK'
  OBVIOUS
<1> USE RoomAssumption
<1>1. ASSUME NEW i \in Instances, NEW k \in 1..MaxBatch, Commit(i, k) PROVE TypeOK'
  <2>1. head + 1 \in Seqs /\ head + k \in Seqs /\ head + 1 <= head + k
    BY <1>1 DEF Commit, TypeOK, Seqs
  <2>2. <<head + 1, head + k>> \in Batches
    BY <2>1 DEF Batches
  <2>3. head' \in 0..MaxOps
    BY <1>1, <2>1 DEF Commit, Seqs
  <2> QED
    BY <1>1, <2>2, <2>3 DEF Commit, TypeOK, roomVars
<1>2. ASSUME NEW i \in Instances, NEW b \in Batches, Publish(i, b) PROVE TypeOK'
  <2>1. b[1] \in Seqs /\ b[2] \in Seqs /\ b[1] <= b[2] /\ b[1]..b[2] \subseteq Seqs
    BY DEF Batches, Seqs
  <2>2. inbox' \in [Instances -> Seq(Seqs)] /\ \A j \in Instances : Len(inbox'[j]) <= InboxCap
    BY <1>2, <2>1, EnqueueProps DEF Publish
  <2>3. wire' \in [Instances -> SUBSET Seqs]
    <3>1. PICK got \in [Instances \ {i} -> SUBSET (b[1]..b[2])] :
             wire' = [j \in Instances |-> IF j = i THEN wire[j] ELSE wire[j] \cup got[j]]
      BY <1>2 DEF Publish
    <3> QED
      BY <3>1, <2>1 DEF TypeOK
  <2> QED
    BY <1>2, <2>2, <2>3 DEF Publish, TypeOK
<1>3. ASSUME NEW i \in Instances, NEW b \in Batches, LosePublish(i, b) PROVE TypeOK'
  BY <1>3 DEF LosePublish, TypeOK, roomVars
<1>4. ASSUME NEW i \in Instances, NEW n \in Seqs, PeerDeliver(i, n) PROVE TypeOK'
  <2>1. inbox' \in [Instances -> Seq(Seqs)] /\ \A j \in Instances : Len(inbox'[j]) <= InboxCap
    <3>1. n <= n
      BY DEF Seqs
    <3> QED
      BY <1>4, <3>1, EnqueueProps DEF PeerDeliver
  <2> QED
    BY <1>4, <2>1 DEF PeerDeliver, TypeOK
<1>5. ASSUME NEW i \in Instances, Drain(i) PROVE TypeOK'
  <2>1. next[i] \in Seqs
    BY <1>5 DEF Drain, TypeOK
  <2>2. next[i] + 1 \in 1..MaxOps + 1
    BY <2>1 DEF Seqs
  <2>3. offered' \in [Subs -> Seq(Seqs)]
    BY <1>5, <2>1 DEF Drain, TypeOK
  <2>4. next' \in [Instances -> 1..MaxOps + 1] /\ pending' \in [Instances -> SUBSET Seqs]
    BY <1>5, <2>2 DEF Drain, TypeOK
  <2> QED
    BY <1>5, <2>3, <2>4 DEF Drain, TypeOK
<1>6. ASSUME NEW i \in Instances, TakeInbox(i) PROVE TypeOK'
  <2>1. Head(inbox[i]) \in Seqs /\ Tail(inbox[i]) \in Seq(Seqs)
        /\ Len(Tail(inbox[i])) <= InboxCap
    BY <1>6 DEF TakeInbox, TypeOK
  <2>2. pending' \in [Instances -> SUBSET Seqs]
    BY <1>6, <2>1 DEF TakeInbox, TypeOK
  <2>3. armed' \in [Instances -> BOOLEAN]
    BY <1>6 DEF TakeInbox, TypeOK
  <2>4. inbox' \in [Instances -> Seq(Seqs)] /\ \A j \in Instances : Len(inbox'[j]) <= InboxCap
    BY <1>6, <2>1 DEF TakeInbox, TypeOK
  <2> QED
    BY <1>6, <2>2, <2>3, <2>4 DEF TakeInbox, TypeOK
<1>7. ASSUME NEW i \in Instances, NEW a \in BOOLEAN, Fill(i, a)
      PROVE  pending' \in [Instances -> SUBSET Seqs] /\ armed' \in [Instances -> BOOLEAN]
  <2>1. ListSince(i) \subseteq Seqs
    BY DEF ListSince, TypeOK, Seqs
  <2> QED
    BY <1>7, <2>1 DEF Fill, TypeOK
<1>8. ASSUME NEW i \in Instances, GapFires(i) PROVE TypeOK'
  <2>1. pending' \in [Instances -> SUBSET Seqs] /\ armed' \in [Instances -> BOOLEAN]
    BY <1>8, <1>7 DEF GapFires, TypeOK
  <2> QED
    BY <1>8, <2>1 DEF GapFires, TypeOK
<1>9. ASSUME NEW i \in Instances, Reconcile(i) PROVE TypeOK'
  <2>1. pending' \in [Instances -> SUBSET Seqs] /\ armed' \in [Instances -> BOOLEAN]
    BY <1>9, <1>7 DEF Reconcile, TypeOK
  <2> QED
    BY <1>9, <2>1 DEF Reconcile, TypeOK
<1>10. ASSUME NEW i \in Instances, ReconcileFails(i) PROVE TypeOK'
  BY <1>10 DEF ReconcileFails, TypeOK
<1>11. ASSUME NEW i \in Instances, NEW S \in SUBSET Subs, Remove(i, S)
       PROVE  /\ member' \in [Instances -> SUBSET Subs]
              /\ next' \in [Instances -> 1..MaxOps + 1]
              /\ pending' \in [Instances -> SUBSET Seqs]
              /\ inbox' \in [Instances -> Seq(Seqs)]
              /\ \A j \in Instances : Len(inbox'[j]) <= InboxCap
              /\ armed' \in [Instances -> BOOLEAN]
              /\ offered' \in [Subs -> Seq(Seqs)]
  <2>1. <<>> \in Seq(Seqs) /\ Len(<<>>) <= InboxCap
    OBVIOUS
  <2>2. 1 \in 1..MaxOps + 1
    OBVIOUS
  <2> QED
    BY <1>11, <2>1, <2>2 DEF Remove, TypeOK
<1>12. ASSUME NEW i \in Instances, Crash(i) PROVE TypeOK'
  <2>1. member[i] \in SUBSET Subs
    BY DEF TypeOK
  <2>2. readHead' \in [Subs -> 0..NoHead]
    BY <1>12 DEF Crash, TypeOK, NoHead
  <2> QED
    BY <1>12, <1>11, <2>1, <2>2 DEF Crash, TypeOK
<1>13. ASSUME NEW s \in Subs, ReadHead(s) PROVE TypeOK'
  BY <1>13 DEF ReadHead, TypeOK, roomVars, NoHead
<1>14. ASSUME NEW s \in Subs, Subscribe(s) PROVE TypeOK'
  <2>1. readHead[s] + 1 \in 1..MaxOps + 1 /\ Home[s] \in Instances
    BY <1>14 DEF Subscribe, TypeOK, NoHead
  <2>2. next' \in [Instances -> 1..MaxOps + 1]
    BY <1>14, <2>1 DEF Subscribe, TypeOK
  <2> QED
    BY <1>14, <2>1, <2>2 DEF Subscribe, TypeOK, NoHead
<1>15. ASSUME NEW s \in Subs, Close(s) PROVE TypeOK'
  <2>1. Home[s] \in Instances /\ {s} \in SUBSET Subs
    OBVIOUS
  <2> QED
    BY <1>15, <1>11, <2>1 DEF Close, TypeOK
<1>16. CASE UNCHANGED vars
  BY <1>16 DEF vars, TypeOK
<1> QED
  BY <1>1, <1>2, <1>3, <1>4, <1>5, <1>6, <1>8, <1>9, <1>10, <1>12, <1>13, <1>14, <1>15,
     <1>16 DEF Next

(* The conjuncts of NeverAheadOfLog, for one instance.                      *)
Behind(i) ==
    /\ next[i] <= head + 1
    /\ pending[i] \cup wire[i] \subseteq 1..head
    /\ \A k \in 1..Len(inbox[i]) : inbox[i][k] \in 1..head
    /\ \A b \in unsent[i] : b[2] <= head

(* Whatever moves a room, a wire or the log leaves the room behind the log. *)
LEMMA AheadStep ==
  TypeOK /\ NeverAheadOfLog /\ MemberInv /\ [Next]_vars => NeverAheadOfLog'
<1> SUFFICES ASSUME TypeOK, NeverAheadOfLog, MemberInv, [Next]_vars,
                    NEW j \in Instances
             PROVE  Behind(j)'
  BY DEF NeverAheadOfLog, Behind
<1> USE RoomAssumption
<1>0. /\ Behind(j)
      /\ head \in 0..MaxOps
      /\ next \in [Instances -> 1..MaxOps + 1]
      /\ pending \in [Instances -> SUBSET Seqs]
      /\ wire \in [Instances -> SUBSET Seqs]
      /\ unsent \in [Instances -> SUBSET Batches]
      /\ inbox \in [Instances -> Seq(Seqs)]
  BY DEF NeverAheadOfLog, Behind, TypeOK
<1>1. ASSUME NEW i \in Instances, NEW k \in 1..MaxBatch, Commit(i, k) PROVE Behind(j)'
  <2>1. head' = head + k /\ k \in Nat /\ head \in Nat
    BY <1>0, <1>1 DEF Commit
  <2>2. (\A b \in unsent[j] : b[2] <= head')
    <3> SUFFICES ASSUME NEW b \in unsent[j] PROVE b[2] <= head'
      OBVIOUS
    <3>1. b[2] \in Nat /\ b[2] <= head
      BY <1>0 DEF Behind, Batches, Seqs
    <3> QED
      BY <3>1, <2>1
  <2>3. \A b \in unsent'[j] : b[2] <= head'
    <3>1. \A b \in unsent'[j] : b \in unsent[j] \/ b = <<head + 1, head + k>>
      BY <1>0, <1>1 DEF Commit
    <3>2. <<head + 1, head + k>>[2] <= head'
      BY <2>1
    <3> QED
      BY <3>1, <3>2, <2>2
  <2>4. 1..head \subseteq 1..head' /\ next[j] <= head' + 1
    BY <1>0, <2>1 DEF Behind
  <2> QED
    BY <1>0, <1>1, <2>3, <2>4 DEF Commit, Behind, roomVars
<1>2. ASSUME NEW i \in Instances, NEW b \in Batches, Publish(i, b) PROVE Behind(j)'
  <2>1. b[1] \in Seqs /\ b[2] \in Seqs /\ b[1] <= b[2] /\ b[1]..b[2] \subseteq 1..head
    <3>1. b[2] <= head
      BY <1>2 DEF NeverAheadOfLog, Publish
    <3> QED
      BY <1>0, <3>1 DEF Batches, Seqs
  <2>2. \A k \in 1..Len(inbox'[j]) : inbox'[j][k] \in 1..head
    <3>1. \A k \in 1..Len(inbox'[j]) :
             \/ \E m \in 1..Len(inbox[j]) : inbox'[j][k] = inbox[j][m]
             \/ inbox'[j][k] \in b[1]..b[2]
      <4>1. inbox' = Enqueue(i, b[1], b[2])
        BY <1>2 DEF Publish
      <4> QED
        BY <4>1, <2>1, EnqueueProps
    <3> QED
      BY <3>1, <2>1, <1>0 DEF Behind
  <2>3. wire'[j] \subseteq wire[j] \cup 1..head
    <3>1. PICK got \in [Instances \ {i} -> SUBSET (b[1]..b[2])] :
             wire' = [l \in Instances |-> IF l = i THEN wire[l] ELSE wire[l] \cup got[l]]
      BY <1>2 DEF Publish
    <3> QED
      BY <3>1, <2>1
  <2>4. unsent'[j] \subseteq unsent[j]
    BY <1>0, <1>2 DEF Publish
  <2> QED
    BY <1>0, <1>2, <2>2, <2>3, <2>4 DEF Publish, Behind
<1>3. ASSUME NEW i \in Instances, NEW b \in Batches, LosePublish(i, b) PROVE Behind(j)'
  BY <1>0, <1>3 DEF LosePublish, Behind, roomVars
<1>4. ASSUME NEW i \in Instances, NEW n \in Seqs, PeerDeliver(i, n) PROVE Behind(j)'
  <2>1. n <= n /\ n..n \subseteq 1..head
    <3>1. n \in 1..head
      BY <1>4 DEF NeverAheadOfLog, PeerDeliver
    <3> QED
      BY <3>1, <1>0
  <2>2. \A k \in 1..Len(inbox'[j]) : inbox'[j][k] \in 1..head
    <3>1. \A k \in 1..Len(inbox'[j]) :
             \/ \E m \in 1..Len(inbox[j]) : inbox'[j][k] = inbox[j][m]
             \/ inbox'[j][k] \in n..n
      <4>1. inbox' = Enqueue(i, n, n)
        BY <1>4 DEF PeerDeliver
      <4> QED
        BY <4>1, <2>1, EnqueueProps
    <3> QED
      BY <3>1, <2>1, <1>0 DEF Behind
  <2> QED
    BY <1>0, <1>4, <2>2 DEF PeerDeliver, Behind
<1>5. ASSUME NEW i \in Instances, Drain(i) PROVE Behind(j)'
  <2>1. next[i] \in 1..head
    BY <1>5 DEF NeverAheadOfLog, Drain
  <2>2. next'[j] <= head + 1
    BY <1>0, <1>5, <2>1 DEF Drain, Behind
  <2> QED
    BY <1>0, <1>5, <2>2 DEF Drain, Behind
<1>6. ASSUME NEW i \in Instances, TakeInbox(i) PROVE Behind(j)'
  <2>1. CASE i = j
    <3>1. Head(inbox[i]) \in 1..head
      BY <1>0, <1>6, <2>1 DEF TakeInbox, Behind
    <3>2. \A k \in 1..Len(Tail(inbox[i])) : Tail(inbox[i])[k] \in 1..head
      BY <1>0, <1>6, <2>1 DEF TakeInbox, Behind
    <3>3. pending'[i] \subseteq 1..head
      BY <1>0, <1>6, <2>1, <3>1 DEF TakeInbox, Behind
    <3> QED
      BY <1>0, <1>6, <2>1, <3>2, <3>3 DEF TakeInbox, Behind
  <2> QED
    BY <1>0, <1>6, <2>1 DEF TakeInbox, Behind
<1>7. ASSUME NEW i \in Instances, NEW a \in BOOLEAN, Fill(i, a)
      PROVE  pending'[j] \subseteq 1..head
  <2>1. ListSince(i) \subseteq 1..head
    BY <1>0 DEF ListSince
  <2> QED
    BY <1>0, <1>7, <2>1 DEF Fill, Behind
<1>8. ASSUME NEW i \in Instances, GapFires(i) PROVE Behind(j)'
  <2>1. pending'[j] \subseteq 1..head
    BY <1>0, <1>7, <1>8 DEF GapFires, Behind
  <2> QED
    BY <1>0, <1>8, <2>1 DEF GapFires, Behind
<1>9. ASSUME NEW i \in Instances, Reconcile(i) PROVE Behind(j)'
  <2>1. pending'[j] \subseteq 1..head
    BY <1>7, <1>9 DEF Reconcile, TypeOK
  <2> QED
    BY <1>0, <1>9, <2>1 DEF Reconcile, Behind
<1>10. ASSUME NEW i \in Instances, ReconcileFails(i) PROVE Behind(j)'
  BY <1>0, <1>10 DEF ReconcileFails, Behind
<1>11. ASSUME NEW i \in Instances, NEW S \in SUBSET Subs, Remove(i, S), head' = head,
              wire'[j] \subseteq wire[j], unsent'[j] \subseteq unsent[j]
       PROVE  Behind(j)'
  <2>1. 1 <= head + 1
    BY <1>0
  <2>2. next'[j] \in {1, next[j]} /\ pending'[j] \in {{}, pending[j]}
        /\ inbox'[j] \in {<<>>, inbox[j]}
    BY <1>0, <1>11 DEF Remove
  <2>3. \A k \in 1..Len(inbox'[j]) : inbox'[j][k] \in 1..head
    BY <1>0, <2>2 DEF Behind
  <2> QED
    BY <1>0, <1>11, <2>1, <2>2, <2>3 DEF Behind
<1>12. ASSUME NEW i \in Instances, Crash(i) PROVE Behind(j)'
  <2>1. member[i] \in SUBSET Subs
    BY DEF TypeOK
  <2> QED
    BY <1>0, <1>12, <1>11, <2>1 DEF Crash
<1>13. ASSUME NEW s \in Subs, ReadHead(s) PROVE Behind(j)'
  BY <1>0, <1>13 DEF ReadHead, roomVars, Behind
<1>14. ASSUME NEW s \in Subs, Subscribe(s) PROVE Behind(j)'
  <2>1. readHead[s] \in Nat /\ readHead[s] <= head
    BY <1>14 DEF Subscribe, MemberInv, TypeOK, NoHead
  <2>2. next'[j] <= head + 1
    BY <1>0, <1>14, <2>1 DEF Subscribe, Behind
  <2> QED
    BY <1>0, <1>14, <2>2 DEF Subscribe, Behind
<1>15. ASSUME NEW s \in Subs, Close(s) PROVE Behind(j)'
  <2>1. Home[s] \in Instances /\ {s} \in SUBSET Subs
    OBVIOUS
  <2> QED
    BY <1>15, <1>11, <2>1 DEF Close
<1>16. CASE UNCHANGED vars
  BY <1>0, <1>16 DEF vars, Behind
<1> QED
  BY <1>1, <1>2, <1>3, <1>4, <1>5, <1>6, <1>8, <1>9, <1>10, <1>12, <1>13, <1>14, <1>15,
     <1>16 DEF Next

(* What Remove does to the rooms and their subscribers.                     *)
LEMMA RemoveProps ==
  ASSUME TypeOK, MemberInv, ClosedInv, NEW i \in Instances, NEW S \in SUBSET member[i],
         Remove(i, S)
  PROVE  /\ \A j \in Instances : member'[j] = IF j = i THEN member[i] \ S ELSE member[j]
         /\ \A s \in Subs : s \in member'[Home[s]] <=> s \in member[Home[s]] /\ s \notin S
         /\ \A s \in Subs : offered'[s] = IF s \in S THEN <<>> ELSE offered[s]
         /\ \A j \in Instances : member'[j] # {} =>
               next'[j] = next[j] /\ pending'[j] = pending[j]
               /\ inbox'[j] = inbox[j] /\ armed'[j] = armed[j]
         /\ \A j \in Instances : member'[j] = {} => pending'[j] = {} /\ inbox'[j] = <<>>
<1> USE RoomAssumption
<1>1. \A j \in Instances : member'[j] = IF j = i THEN member[i] \ S ELSE member[j]
  BY DEF Remove, TypeOK
<1>2. \A s \in S : Home[s] = i
  BY DEF MemberInv
<1>3. \A s \in Subs : s \in member'[Home[s]] <=> s \in member[Home[s]] /\ s \notin S
  BY <1>1, <1>2
<1>4. \A s \in Subs : offered'[s] = IF s \in S THEN <<>> ELSE offered[s]
  BY DEF Remove
<1>5. \A j \in Instances : member'[j] # {} =>
         next'[j] = next[j] /\ pending'[j] = pending[j]
         /\ inbox'[j] = inbox[j] /\ armed'[j] = armed[j]
  BY <1>1 DEF Remove, TypeOK
<1>6. \A j \in Instances : member'[j] = {} => pending'[j] = {} /\ inbox'[j] = <<>>
  BY <1>1 DEF Remove, TypeOK, ClosedInv
<1> QED
  BY <1>1, <1>3, <1>4, <1>5, <1>6

(* A room is deleted with its last subscriber, and a step of a dispatcher   *)
(* or a publication touches only a room that exists.                        *)
LEMMA ClosedStep ==
  TypeOK /\ MemberInv /\ ClosedInv /\ [Next]_vars => ClosedInv'
<1> SUFFICES ASSUME TypeOK, MemberInv, ClosedInv, [Next]_vars PROVE ClosedInv'
  OBVIOUS
<1> USE RoomAssumption
<1>1. ASSUME NEW i \in Instances, NEW b \in Batches, Publish(i, b) PROVE ClosedInv'
  <2>1. b[1] \in Seqs /\ b[2] \in Seqs /\ b[1] <= b[2]
    BY DEF Batches
  <2>2. inbox' = Enqueue(i, b[1], b[2])
    BY <1>1 DEF Publish
  <2>3. \A j \in Instances : ~RoomOpen(j) => inbox'[j] = inbox[j]
    BY <2>1, <2>2, EnqueueProps
  <2> QED
    BY <1>1, <2>3 DEF Publish, ClosedInv, RoomOpen
<1>2. ASSUME NEW i \in Instances, NEW n \in Seqs, PeerDeliver(i, n) PROVE ClosedInv'
  <2>1. n <= n
    BY DEF Seqs
  <2>2. inbox' = Enqueue(i, n, n)
    BY <1>2 DEF PeerDeliver
  <2>3. \A j \in Instances : ~RoomOpen(j) => inbox'[j] = inbox[j]
    BY <2>1, <2>2, EnqueueProps
  <2> QED
    BY <1>2, <2>3 DEF PeerDeliver, ClosedInv, RoomOpen
<1>3. ASSUME NEW i \in Instances,
             Drain(i) \/ TakeInbox(i) \/ GapFires(i) \/ Reconcile(i) \/ ReconcileFails(i)
      PROVE  ClosedInv'
  <2>1. member' = member /\ member[i] # {}
    BY <1>3 DEF Drain, TakeInbox, GapFires, Reconcile, ReconcileFails, Selecting, RoomOpen
  <2>2. \A j \in Instances \ {i} : pending'[j] = pending[j] /\ inbox'[j] = inbox[j]
    BY <1>3 DEF Drain, TakeInbox, GapFires, Reconcile, ReconcileFails, Fill, TypeOK
  <2> QED
    BY <2>1, <2>2 DEF ClosedInv
<1>4. ASSUME NEW i \in Instances, Crash(i) PROVE ClosedInv'
  BY <1>4, RemoveProps DEF Crash, ClosedInv
<1>5. ASSUME NEW s \in Subs, Close(s) PROVE ClosedInv'
  <2>1. {s} \in SUBSET member[Home[s]] /\ Home[s] \in Instances
    BY <1>5 DEF Close
  <2> QED
    BY <1>5, <2>1, RemoveProps DEF Close, ClosedInv
<1>6. ASSUME NEW s \in Subs, Subscribe(s) PROVE ClosedInv'
  BY <1>6 DEF Subscribe, ClosedInv, TypeOK
<1>7. ASSUME NEW i \in Instances, NEW k \in 1..MaxBatch, Commit(i, k) PROVE ClosedInv'
  BY <1>7 DEF Commit, ClosedInv, roomVars
<1>8. ASSUME NEW i \in Instances, NEW b \in Batches, LosePublish(i, b) PROVE ClosedInv'
  BY <1>8 DEF LosePublish, ClosedInv, roomVars
<1>9. ASSUME NEW s \in Subs, ReadHead(s) PROVE ClosedInv'
  BY <1>9 DEF ReadHead, ClosedInv, roomVars
<1>10. CASE UNCHANGED vars
  BY <1>10 DEF vars, ClosedInv
<1> QED
  BY <1>1, <1>2, <1>3, <1>4, <1>5, <1>6, <1>7, <1>8, <1>9, <1>10 DEF Next

(* Membership, subscribes under way and what has been offered stay in step. *)
LEMMA MemberStep ==
  TypeOK /\ MemberInv /\ ClosedInv /\ [Next]_vars => MemberInv'
<1> SUFFICES ASSUME TypeOK, MemberInv, ClosedInv, [Next]_vars PROVE MemberInv'
  OBVIOUS
<1> USE RoomAssumption
<1>1. ASSUME NEW i \in Instances, NEW k \in 1..MaxBatch, Commit(i, k) PROVE MemberInv'
  BY <1>1 DEF Commit, MemberInv, roomVars, TypeOK
<1>2. ASSUME NEW s \in Subs, ReadHead(s) PROVE MemberInv'
  BY <1>2 DEF ReadHead, MemberInv, roomVars, TypeOK
<1>3. ASSUME NEW s \in Subs, Subscribe(s) PROVE MemberInv'
  <2>1. /\ \A i \in Instances : member'[i] = IF i = Home[s] THEN member[i] \cup {s}
                                             ELSE member[i]
        /\ \A t \in Subs : readHead'[t] = IF t = s THEN NoHead ELSE readHead[t]
        /\ head' = head /\ offered' = offered
    BY <1>3 DEF Subscribe, TypeOK
  <2>2. \A i \in Instances : \A t \in member'[i] : Home[t] = i
    <3> SUFFICES ASSUME NEW i \in Instances, NEW t \in member'[i] PROVE Home[t] = i
      OBVIOUS
    <3>1. t \in member[i] \/ (i = Home[s] /\ t = s)
      BY <2>1
    <3> QED
      BY <3>1 DEF MemberInv
  <2>3. \A t \in Subs : t \notin member'[Home[t]] => offered'[t] = <<>>
    BY <2>1 DEF MemberInv
  <2>4. \A t \in Subs : readHead'[t] # NoHead =>
           readHead'[t] <= head' /\ t \notin member'[Home[t]]
    <3> SUFFICES ASSUME NEW t \in Subs, readHead'[t] # NoHead
                 PROVE  readHead'[t] <= head' /\ t \notin member'[Home[t]]
      OBVIOUS
    <3>1. t # s /\ readHead'[t] = readHead[t] /\ Home[t] \in Instances
      BY <2>1
    <3>2. readHead[t] <= head /\ t \notin member[Home[t]]
      BY <3>1 DEF MemberInv
    <3> QED
      BY <2>1, <3>1, <3>2
  <2> QED
    BY <2>2, <2>3, <2>4 DEF MemberInv, NoHead
<1>4. ASSUME NEW i \in Instances, NEW S \in SUBSET member[i], Remove(i, S), head' = head,
             \A s \in Subs : readHead'[s] \in {NoHead, readHead[s]}
      PROVE  MemberInv'
  <2>1. /\ \A j \in Instances : member'[j] \subseteq member[j]
        /\ \A s \in Subs : s \in member'[Home[s]] <=> s \in member[Home[s]] /\ s \notin S
        /\ \A s \in Subs : offered'[s] = IF s \in S THEN <<>> ELSE offered[s]
    <3>1. \A j \in Instances : member'[j] = IF j = i THEN member[i] \ S ELSE member[j]
      BY <1>4 DEF Remove, TypeOK
    <3>2. \A s \in Subs : s \in member'[Home[s]] <=> s \in member[Home[s]] /\ s \notin S
      BY <1>4, RemoveProps
    <3>3. \A s \in Subs : offered'[s] = IF s \in S THEN <<>> ELSE offered[s]
      BY <1>4, RemoveProps
    <3> QED
      BY <3>1, <3>2, <3>3
  <2>2. \A j \in Instances : \A t \in member'[j] : Home[t] = j
    BY <2>1 DEF MemberInv
  <2>3. \A t \in Subs : t \notin member'[Home[t]] => offered'[t] = <<>>
    BY <2>1 DEF MemberInv
  <2>4. \A t \in Subs : readHead'[t] # NoHead =>
           readHead'[t] <= head' /\ t \notin member'[Home[t]]
    BY <1>4, <2>1 DEF MemberInv
  <2> QED
    BY <2>2, <2>3, <2>4 DEF MemberInv, NoHead
<1>5. ASSUME NEW s \in Subs, Close(s) PROVE MemberInv'
  <2>1. {s} \in SUBSET member[Home[s]] /\ Home[s] \in Instances
    BY <1>5 DEF Close
  <2> QED
    BY <1>4, <1>5, <2>1 DEF Close
<1>6. ASSUME NEW i \in Instances, Crash(i) PROVE MemberInv'
  <2>1. \A s \in Subs : readHead'[s] \in {NoHead, readHead[s]}
    BY <1>6 DEF Crash
  <2> QED
    BY <1>4, <1>6, <2>1 DEF Crash
<1>7. ASSUME NEW i \in Instances, Drain(i) PROVE MemberInv'
  <2>1. \A s \in Subs : s \notin member[i] => offered'[s] = offered[s]
    BY <1>7 DEF Drain
  <2>2. member' = member /\ readHead' = readHead /\ head' = head
    BY <1>7 DEF Drain
  <2>3. \A s \in Subs : s \notin member[Home[s]] => s \notin member[i]
    BY DEF MemberInv
  <2> QED
    BY <2>1, <2>2, <2>3 DEF MemberInv
<1>8. CASE UNCHANGED <<member, readHead, head, offered>>
  BY <1>8 DEF MemberInv
<1>9. ASSUME NEW i \in Instances,
             \/ TakeInbox(i) \/ GapFires(i) \/ Reconcile(i) \/ ReconcileFails(i)
             \/ \E b \in Batches : Publish(i, b) \/ LosePublish(i, b)
             \/ \E n \in Seqs : PeerDeliver(i, n)
      PROVE  UNCHANGED <<member, readHead, head, offered>>
  BY <1>9 DEF TakeInbox, GapFires, Reconcile, ReconcileFails, Publish, LosePublish,
              PeerDeliver, roomVars
<1>10. CASE UNCHANGED vars
  BY <1>10, <1>8 DEF vars
<1> QED
  BY <1>1, <1>2, <1>3, <1>5, <1>6, <1>7, <1>8, <1>9, <1>10 DEF Next
-----------------------------------------------------------------------------
(* What a room holds is not behind it, and its timer runs when drain is     *)
(* going to leave something behind.                                         *)
LEMMA HeldStep ==
  TypeOK /\ MemberInv /\ ClosedInv /\ HeldInv /\ [Next]_vars => HeldInv'
<1> SUFFICES ASSUME TypeOK, MemberInv, ClosedInv, HeldInv, [Next]_vars,
                    NEW j \in Instances
             PROVE  /\ \A n \in pending'[j] : n >= next'[j]
                    /\ Residue(j, pending[j])' # {} => armed'[j]
  BY DEF HeldInv
<1> USE RoomAssumption
<1>0. /\ \A n \in pending[j] : n >= next[j]
      /\ Residue(j, pending[j]) # {} => armed[j]
      /\ pending \in [Instances -> SUBSET Seqs]
      /\ next \in [Instances -> 1..MaxOps + 1]
      /\ armed \in [Instances -> BOOLEAN]
  BY DEF HeldInv, TypeOK
<1>1. CASE next'[j] = next[j] /\ pending'[j] = pending[j] /\ armed'[j] = armed[j]
  BY <1>0, <1>1 DEF Residue
<1>2. CASE pending'[j] = {}
  BY <1>2 DEF Residue
<1>3. ASSUME NEW held \in SUBSET Seqs, \A n \in held : n >= next[j],
             pending'[j] = held, next'[j] = next[j], Residue(j, held) # {} => armed'[j]
      PROVE  /\ \A n \in pending'[j] : n >= next'[j]
             /\ Residue(j, pending[j])' # {} => armed'[j]
  BY <1>3 DEF Residue
<1>4. CASE Drain(j)
  <2>1. /\ next[j] \in pending[j]
        /\ next'[j] = next[j] + 1 /\ pending'[j] = pending[j] \ {next[j]}
        /\ armed'[j] = armed[j]
    BY <1>0, <1>4 DEF Drain
  <2>2. \A n \in pending'[j] : n \in Nat /\ n >= next'[j]
    BY <1>0, <2>1 DEF Seqs
  <2>3. ASSUME NEW n \in Residue(j, pending[j])' PROVE n \in Residue(j, pending[j])
    <3>1. n \in pending'[j] /\ ~(next'[j]..n \subseteq pending'[j])
      BY <2>3 DEF Residue
    <3>2. PICK m \in next'[j]..n : m \notin pending'[j]
      BY <3>1
    <3>3. n \in Nat /\ next[j] \in Nat
      BY <1>0, <2>2, <3>1
    <3>4. m \in next[j]..n /\ m # next[j]
      BY <2>1, <3>2, <3>3
    <3>5. m \notin pending[j]
      BY <2>1, <3>2, <3>4
    <3> QED
      BY <2>1, <3>1, <3>4, <3>5 DEF Residue
  <2> QED
    BY <1>0, <2>1, <2>2, <2>3
<1>5. CASE TakeInbox(j)
  <2> DEFINE m == Head(inbox[j])
             held == IF m >= next[j] THEN pending[j] \cup {m} ELSE pending[j]
  <2>1. m \in Seqs
    BY <1>5 DEF TakeInbox, TypeOK
  <2>2. held \in SUBSET Seqs /\ \A n \in held : n >= next[j]
    BY <1>0, <2>1
  <2>3. pending'[j] = held /\ next'[j] = next[j] /\ armed'[j] = (Residue(j, held) # {})
    BY <1>0, <1>5 DEF TakeInbox
  <2> HIDE DEF held
  <2> QED
    BY <1>3, <2>2, <2>3
<1>6. ASSUME NEW a \in BOOLEAN, Fill(j, a), next' = next
      PROVE  /\ \A n \in pending'[j] : n >= next'[j]
             /\ Residue(j, pending[j])' # {} => armed'[j]
  <2> DEFINE held == pending[j] \cup ListSince(j)
  <2>1. ListSince(j) \subseteq Seqs /\ \A n \in ListSince(j) : n >= next[j]
    BY <1>0 DEF ListSince, TypeOK, Seqs
  <2>2. held \in SUBSET Seqs /\ \A n \in held : n >= next[j]
    BY <1>0, <2>1
  <2>3. pending'[j] = held /\ (Residue(j, held) # {} => armed'[j])
    BY <1>0, <1>6 DEF Fill
  <2> HIDE DEF held
  <2> QED
    BY <1>3, <1>6, <2>2, <2>3
<1>7. CASE GapFires(j)
  <2>1. CASE Fill(j, FALSE)
    BY <1>6, <1>7, <2>1 DEF GapFires
  <2>2. CASE armed' = [armed EXCEPT ![j] = pending[j] # {}] /\ UNCHANGED pending
    <3>1. armed'[j] = (pending[j] # {})
      BY <1>0, <2>2
    <3>2. Residue(j, pending[j]) # {} => armed'[j]
      BY <3>1 DEF Residue
    <3> QED
      BY <1>0, <1>3, <1>7, <2>2, <3>2 DEF GapFires
  <2> QED
    BY <1>7, <2>1, <2>2 DEF GapFires
<1>8. CASE Reconcile(j)
  BY <1>0, <1>6, <1>8 DEF Reconcile
<1>9. CASE ReconcileFails(j)
  <2>1. armed[j] => armed'[j]
    BY <1>0, <1>9 DEF ReconcileFails
  <2> QED
    BY <1>0, <1>3, <1>9, <2>1 DEF ReconcileFails
<1>10. ASSUME NEW i \in Instances, i # j,
              Drain(i) \/ TakeInbox(i) \/ GapFires(i) \/ Reconcile(i) \/ ReconcileFails(i)
       PROVE  next'[j] = next[j] /\ pending'[j] = pending[j] /\ armed'[j] = armed[j]
  BY <1>0, <1>10 DEF Drain, TakeInbox, GapFires, Reconcile, ReconcileFails, Fill
<1>11. ASSUME NEW i \in Instances,
              \/ \E k \in 1..MaxBatch : Commit(i, k)
              \/ \E b \in Batches : Publish(i, b) \/ LosePublish(i, b)
              \/ \E n \in Seqs : PeerDeliver(i, n)
       PROVE  next'[j] = next[j] /\ pending'[j] = pending[j] /\ armed'[j] = armed[j]
  BY <1>11 DEF Commit, Publish, LosePublish, PeerDeliver, roomVars
<1>12. ASSUME NEW s \in Subs, ReadHead(s)
       PROVE  next'[j] = next[j] /\ pending'[j] = pending[j] /\ armed'[j] = armed[j]
  BY <1>12 DEF ReadHead, roomVars
<1>13. ASSUME NEW s \in Subs, Subscribe(s)
       PROVE  \/ pending'[j] = {}
              \/ next'[j] = next[j] /\ pending'[j] = pending[j] /\ armed'[j] = armed[j]
  BY <1>0, <1>13 DEF Subscribe, ClosedInv, RoomOpen
<1>14. ASSUME NEW i \in Instances, NEW S \in SUBSET member[i], Remove(i, S)
       PROVE  \/ pending'[j] = {}
              \/ next'[j] = next[j] /\ pending'[j] = pending[j] /\ armed'[j] = armed[j]
  BY <1>0, <1>14 DEF Remove
<1>15. ASSUME NEW s \in Subs, Close(s)
       PROVE  \/ pending'[j] = {}
              \/ next'[j] = next[j] /\ pending'[j] = pending[j] /\ armed'[j] = armed[j]
  <2>1. {s} \in SUBSET member[Home[s]] /\ Home[s] \in Instances
    BY <1>15 DEF Close
  <2> QED
    BY <1>14, <1>15, <2>1 DEF Close
<1>16. ASSUME NEW i \in Instances, Crash(i)
       PROVE  \/ pending'[j] = {}
              \/ next'[j] = next[j] /\ pending'[j] = pending[j] /\ armed'[j] = armed[j]
  BY <1>14, <1>16 DEF Crash
<1>17. CASE UNCHANGED vars
  BY <1>1, <1>17 DEF vars
<1> QED
  BY <1>1, <1>2, <1>4, <1>5, <1>7, <1>8, <1>9, <1>10, <1>11, <1>12, <1>13, <1>15, <1>16,
     <1>17 DEF Next

(* What a subscriber was offered ends where its room stands.                *)
LEMMA SinkStep ==
  TypeOK /\ MemberInv /\ ClosedInv /\ SinkSeesContiguous /\ [Next]_vars
      => SinkSeesContiguous'
<1> SUFFICES ASSUME TypeOK, MemberInv, ClosedInv, SinkSeesContiguous, [Next]_vars,
                    NEW s \in Subs, NEW k \in 1..Len(offered'[s])
             PROVE  offered'[s][k] + Len(offered'[s]) = next'[Home[s]] + k - 1
  BY DEF SinkSeesContiguous
<1> USE RoomAssumption
<1>0. /\ Home[s] \in Instances
      /\ next[Home[s]] \in Nat
      /\ offered[s] \in Seq(Seqs)
      /\ \A m \in 1..Len(offered[s]) : offered[s][m] \in Nat
      /\ \A m \in 1..Len(offered[s]) :
            offered[s][m] + Len(offered[s]) = next[Home[s]] + m - 1
      /\ s \notin member[Home[s]] => offered[s] = <<>>
  <2>1. Home[s] \in Instances /\ next[Home[s]] \in Nat /\ offered[s] \in Seq(Seqs)
    BY DEF TypeOK
  <2>2. \A m \in 1..Len(offered[s]) : offered[s][m] \in Nat
    BY <2>1 DEF Seqs
  <2>3. \A m \in 1..Len(offered[s]) :
           offered[s][m] + Len(offered[s]) = next[Home[s]] + m - 1
    BY DEF SinkSeesContiguous
  <2>4. s \notin member[Home[s]] => offered[s] = <<>>
    BY DEF MemberInv
  <2> QED
    BY <2>1, <2>2, <2>3, <2>4
<1>1. CASE offered'[s] = offered[s] /\ next'[Home[s]] = next[Home[s]]
  <2>1. offered[s][k] + Len(offered[s]) = next[Home[s]] + k - 1
    BY <1>0, <1>1
  <2> QED
    BY <1>1, <2>1
<1>2. CASE offered'[s] = <<>>
  BY <1>2
<1>3. ASSUME NEW i \in Instances, Drain(i)
      PROVE  offered'[s][k] + Len(offered'[s]) = next'[Home[s]] + k - 1
  <2>1. CASE s \in member[i]
    <3>1. i = Home[s]
      BY <2>1 DEF MemberInv
    <3>2. offered'[s] = Append(offered[s], next[Home[s]]) /\ next'[Home[s]] = next[Home[s]] + 1
      BY <1>0, <1>3, <2>1, <3>1 DEF Drain, TypeOK
    <3>3. Len(offered'[s]) = Len(offered[s]) + 1 /\ Len(offered[s]) \in Nat
      BY <1>0, <3>2
    <3>4. CASE k = Len(offered[s]) + 1
      <4>1. offered'[s][k] = next[Home[s]]
        BY <1>0, <3>2, <3>4
      <4>2. next[Home[s]] \in Nat
        BY <1>0
      <4>3. next[Home[s]] + (Len(offered[s]) + 1) = (next[Home[s]] + 1) + k - 1
        BY <4>2, <3>3, <3>4
      <4> QED
        BY <3>2, <3>3, <4>1, <4>3
    <3>5. CASE k \in 1..Len(offered[s])
      <4>1. offered'[s][k] = offered[s][k]
        BY <1>0, <3>2, <3>5
      <4>2. offered[s][k] + Len(offered[s]) = next[Home[s]] + k - 1
            /\ offered[s][k] \in Nat /\ next[Home[s]] \in Nat
        BY <1>0, <3>5
      <4>3. offered[s][k] + (Len(offered[s]) + 1) = (next[Home[s]] + 1) + k - 1
        <5> DEFINE x == offered[s][k]  l == Len(offered[s])  y == next[Home[s]]
        <5>1. x \in Nat /\ l \in Nat /\ y \in Nat /\ k \in Nat /\ x + l = y + k - 1
          BY <4>2, <3>3, <3>5
        <5> HIDE DEF x, l, y
        <5>2. x + (l + 1) = (y + 1) + k - 1
          BY <5>1
        <5> QED
          BY <5>2 DEF x, l, y
      <4> QED
        BY <3>2, <3>3, <4>1, <4>3
    <3> QED
      BY <3>3, <3>4, <3>5
  <2>2. CASE s \notin member[i]
    <3>1. offered'[s] = offered[s]
      BY <1>3, <2>2 DEF Drain
    <3>2. CASE i = Home[s]
      BY <1>0, <1>2, <2>2, <3>1, <3>2
    <3>3. CASE i # Home[s]
      BY <1>0, <1>1, <1>3, <3>1, <3>3 DEF Drain, TypeOK
    <3> QED
      BY <3>2, <3>3
  <2> QED
    BY <2>1, <2>2
<1>4. ASSUME NEW t \in Subs, Subscribe(t)
      PROVE  \/ offered'[s] = <<>>
             \/ offered'[s] = offered[s] /\ next'[Home[s]] = next[Home[s]]
  <2>1. offered' = offered
    BY <1>4 DEF Subscribe
  <2>2. CASE s \in member[Home[s]]
    BY <1>0, <1>4, <2>1, <2>2 DEF Subscribe, RoomOpen, TypeOK
  <2> QED
    BY <1>0, <2>1, <2>2
<1>5. ASSUME NEW i \in Instances, NEW S \in SUBSET member[i], Remove(i, S)
      PROVE  \/ offered'[s] = <<>>
             \/ offered'[s] = offered[s] /\ next'[Home[s]] = next[Home[s]]
  <2>1. \A t \in Subs : t \in member'[Home[t]] <=> t \in member[Home[t]] /\ t \notin S
    BY <1>5, RemoveProps
  <2>3. \A t \in Subs : offered'[t] = IF t \in S THEN <<>> ELSE offered[t]
    BY <1>5, RemoveProps
  <2>2. member'[Home[s]] # {} => next'[Home[s]] = next[Home[s]]
    BY <1>0, <1>5, RemoveProps
  <2> QED
    BY <1>0, <2>1, <2>2, <2>3
<1>6. ASSUME NEW t \in Subs, Close(t)
      PROVE  \/ offered'[s] = <<>>
             \/ offered'[s] = offered[s] /\ next'[Home[s]] = next[Home[s]]
  <2>1. {t} \in SUBSET member[Home[t]] /\ Home[t] \in Instances
    BY <1>6 DEF Close
  <2> QED
    BY <1>5, <1>6, <2>1 DEF Close
<1>7. ASSUME NEW i \in Instances, Crash(i)
      PROVE  \/ offered'[s] = <<>>
             \/ offered'[s] = offered[s] /\ next'[Home[s]] = next[Home[s]]
  BY <1>5, <1>7 DEF Crash
<1>8. ASSUME NEW i \in Instances,
             \/ TakeInbox(i) \/ GapFires(i) \/ Reconcile(i) \/ ReconcileFails(i)
             \/ \E n \in 1..MaxBatch : Commit(i, n)
             \/ \E b \in Batches : Publish(i, b) \/ LosePublish(i, b)
             \/ \E n \in Seqs : PeerDeliver(i, n)
      PROVE  offered' = offered /\ next' = next
  BY <1>8 DEF TakeInbox, GapFires, Reconcile, ReconcileFails, Commit, Publish, LosePublish,
              PeerDeliver, roomVars
<1>9. ASSUME NEW t \in Subs, ReadHead(t) PROVE offered' = offered /\ next' = next
  BY <1>9 DEF ReadHead, roomVars
<1>10. CASE UNCHANGED vars
  BY <1>1, <1>10 DEF vars
<1> QED
  BY <1>1, <1>2, <1>3, <1>4, <1>6, <1>7, <1>8, <1>9, <1>10 DEF Next
-----------------------------------------------------------------------------
(* The invariant holds before anybody subscribes and anything commits.      *)
LEMMA InitInv == Init => Inv
<1> SUFFICES ASSUME Init PROVE Inv
  OBVIOUS
<1> USE RoomAssumption
<1>1. TypeOK
  <2>1. <<>> \in Seq(Seqs) /\ Len(<<>>) <= InboxCap /\ 1 \in 1..MaxOps + 1
        /\ NoHead \in 0..NoHead /\ 0 \in 0..MaxOps
    BY DEF NoHead
  <2> QED
    BY <2>1 DEF Init, TypeOK
<1>2. NeverAheadOfLog
  BY DEF Init, NeverAheadOfLog
<1>3. ClosedInv /\ MemberInv
  BY DEF Init, ClosedInv, MemberInv
<1>4. HeldInv
  BY DEF Init, HeldInv, Residue
<1>5. SinkSeesContiguous
  BY DEF Init, SinkSeesContiguous
<1> QED
  BY <1>1, <1>2, <1>3, <1>4, <1>5 DEF Inv

(* Every step of a room, a publisher, a subscriber or a crash preserves it. *)
LEMMA StepInv == Inv /\ [Next]_vars => Inv'
  BY TypeStep, AheadStep, ClosedStep, MemberStep, HeldStep, SinkStep DEF Inv

(* The inductive invariant holds throughout.                                *)
THEOREM Invariance == Spec => []Inv
  BY InitInv, StepInv, PTL DEF Spec

(* Rooms stay well typed, and their inboxes within capacity.                *)
THEOREM TypeCorrect == Spec => []TypeOK
  BY Invariance, PTL DEF Inv

(* A room never gets ahead of the log, so what it offers has committed.     *)
THEOREM BehindTheLog == Spec => []NeverAheadOfLog
  BY Invariance, PTL DEF Inv

(* room.go's invariant: every sink sees contiguous operations, whatever is  *)
(* lost, reordered or dropped on the way to the room.                       *)
THEOREM Contiguous == Spec => []SinkSeesContiguous
  BY Invariance, PTL DEF Inv

(* A dispatcher that waits with operations held back has its timer armed:   *)
(* the hole before the first of them makes them a residue.                  *)
LEMMA HoldingIsResidue == TypeOK /\ HeldInv => TimerRunsWhileHolding
<1> SUFFICES ASSUME TypeOK, HeldInv, NEW i \in Instances, Selecting(i), pending[i] # {}
             PROVE  armed[i]
  BY DEF TimerRunsWhileHolding
<1>1. PICK n \in pending[i] : TRUE
  OBVIOUS
<1>2. n >= next[i] /\ n \in Nat /\ next[i] \in Nat
  BY RoomAssumption DEF HeldInv, TypeOK, Seqs
<1>3. next[i] \in next[i]..n /\ next[i] \notin pending[i]
  BY <1>2 DEF Selecting
<1>4. n \in Residue(i, pending[i])
  BY <1>1, <1>3 DEF Residue
<1> QED
  BY <1>4 DEF HeldInv

(* No hole is ever waited on without the reorder timer running.             *)
THEOREM TimerRuns == Spec => []TimerRunsWhileHolding
  BY Invariance, HoldingIsResidue, PTL DEF Inv
-----------------------------------------------------------------------------
(* Before anybody subscribes, nobody is owed or has been offered anything.  *)
LEMMA StreamInit == Init => Stream!Init
<1> SUFFICES ASSUME Init PROVE Stream!Init
  OBVIOUS
<1>1. \A s \in Subs : member[Home[s]] = {} /\ offered[s] = <<>>
  BY RoomAssumption DEF Init
<1>2. Due = [s \in Subs |-> 0]
  BY <1>1 DEF Due
<1>3. LastOffered = [s \in Subs |-> 0]
  BY <1>1 DEF LastOffered
<1> QED
  BY <1>2, <1>3 DEF Init, Stream!Init

(* Every step of the rooms is a step of the stream, or changes nothing of   *)
(* it.                                                                      *)
LEMMA StreamStep == Inv /\ [Next]_vars => [Stream!Next]_(Stream!streamVars)
<1> SUFFICES ASSUME Inv, [Next]_vars
             PROVE  Stream!Next \/ (head' = head /\ Due' = Due /\ LastOffered' = LastOffered)
  BY DEF Stream!streamVars
<1> USE RoomAssumption
<1>0. TypeOK /\ NeverAheadOfLog /\ ClosedInv /\ MemberInv /\ SinkSeesContiguous
  BY DEF Inv
<1>1. CASE UNCHANGED <<head, member, next, offered>>
  BY <1>1 DEF Due, LastOffered
<1>2. ASSUME NEW i \in Instances,
             \/ TakeInbox(i) \/ GapFires(i) \/ Reconcile(i) \/ ReconcileFails(i)
             \/ \E b \in Batches : Publish(i, b) \/ LosePublish(i, b)
             \/ \E n \in Seqs : PeerDeliver(i, n)
      PROVE  UNCHANGED <<head, member, next, offered>>
  BY <1>2 DEF TakeInbox, GapFires, Reconcile, ReconcileFails, Publish, LosePublish,
              PeerDeliver, roomVars
<1>3. ASSUME NEW s \in Subs, ReadHead(s) PROVE UNCHANGED <<head, member, next, offered>>
  BY <1>3 DEF ReadHead, roomVars
<1>4. ASSUME NEW i \in Instances, NEW k \in 1..MaxBatch, Commit(i, k) PROVE Stream!Commit
  <2>1. head' \in Nat /\ head' > head
    BY <1>0, <1>4 DEF Commit, TypeOK
  <2>2. Due' = Due /\ LastOffered' = LastOffered
    BY <1>4 DEF Commit, roomVars, Due, LastOffered
  <2> QED
    BY <2>1, <2>2 DEF Stream!Commit
<1>5. ASSUME NEW s \in Subs, Subscribe(s) PROVE Stream!Join(s)
  <2> DEFINE i == Home[s]
             n == next'[i]
  <2>1. s \notin member[i] /\ i \in Instances
    BY <1>0, <1>5 DEF Subscribe, MemberInv
  <2>2. n \in 1..head + 1
    <3>1. TypeOK' /\ NeverAheadOfLog'
      BY StepInv DEF Inv
    <3>2. head' = head
      BY <1>5 DEF Subscribe
    <3> QED
      BY <1>0, <2>1, <3>1, <3>2 DEF TypeOK, NeverAheadOfLog
  <2>3. \A t \in Subs : t \in member'[Home[t]] <=> t \in member[Home[t]] \/ t = s
    BY <1>0, <1>5, <2>1 DEF Subscribe, TypeOK
  <2>4. \A t \in Subs : t \in member[Home[t]] => next'[Home[t]] = next[Home[t]]
    BY <1>0, <1>5, <2>1 DEF Subscribe, TypeOK, RoomOpen
  <2>5. Due[s] = 0
    BY <2>1 DEF Due
  <2>6. Due' = [Due EXCEPT ![s] = n]
    BY <2>3, <2>4 DEF Due
  <2>7. head' = head /\ LastOffered' = LastOffered
    BY <1>5 DEF Subscribe, LastOffered
  <2> QED
    BY <2>2, <2>5, <2>6, <2>7 DEF Stream!Join
<1>6. ASSUME NEW i \in Instances, Drain(i) PROVE Stream!Offer(member[i]) /\ member[i] \in SUBSET Subs
  <2>1. member[i] \in SUBSET Subs /\ \A s \in member[i] : Home[s] = i
    BY <1>0 DEF TypeOK, MemberInv
  <2>2. next[i] \in 1..head /\ head \in Nat
    BY <1>0, <1>6 DEF Drain, NeverAheadOfLog, TypeOK
  <2>3. \A s \in member[i] : Due[s] = next[i]
    BY <2>1 DEF Due
  <2>4. \A s \in member[i] : Due[s] > 0 /\ Due[s] <= head
    BY <2>2, <2>3
  <2>5. next' = [next EXCEPT ![i] = @ + 1] /\ member' = member /\ head' = head
    BY <1>6 DEF Drain
  <2>6. Due' = [s \in Subs |-> IF s \in member[i] THEN Due[s] + 1 ELSE Due[s]]
    <3> SUFFICES ASSUME NEW s \in Subs
                 PROVE  Due'[s] = IF s \in member[i] THEN Due[s] + 1 ELSE Due[s]
      BY DEF Due
    <3>1. CASE s \in member[i]
      BY <1>0, <2>1, <2>5, <3>1 DEF Due, TypeOK
    <3>2. CASE s \notin member[i]
      BY <1>0, <2>1, <2>5, <3>2 DEF Due, TypeOK
    <3> QED
      BY <3>1, <3>2
  <2>7. LastOffered' = [s \in Subs |-> IF s \in member[i] THEN Due[s] ELSE LastOffered[s]]
    <3> SUFFICES ASSUME NEW s \in Subs
                 PROVE  LastOffered'[s] = IF s \in member[i] THEN Due[s] ELSE LastOffered[s]
      BY DEF LastOffered
    <3>1. CASE s \in member[i]
      <4>1. offered[s] \in Seq(Seqs) /\ offered'[s] = Append(offered[s], next[i])
        BY <1>0, <1>6, <3>1 DEF Drain, TypeOK
      <4>2. offered'[s] # <<>> /\ offered'[s][Len(offered'[s])] = next[i]
        BY <4>1
      <4> QED
        BY <2>3, <3>1, <4>2 DEF LastOffered
    <3>2. CASE s \notin member[i]
      BY <1>6, <3>2 DEF Drain, LastOffered
    <3> QED
      BY <3>1, <3>2
  <2> QED
    BY <2>1, <2>4, <2>5, <2>6, <2>7 DEF Stream!Offer
<1>7. ASSUME NEW i \in Instances, NEW S \in SUBSET member[i], Remove(i, S), head' = head
      PROVE  Stream!Leave(S) /\ S \in SUBSET Subs
  <2>1. S \in SUBSET Subs /\ \A s \in S : Home[s] = i
    BY <1>0 DEF TypeOK, MemberInv
  <2>2. \A t \in Subs : t \in member'[Home[t]] <=> t \in member[Home[t]] /\ t \notin S
    BY <1>0, <1>7, RemoveProps
  <2>3. \A t \in Subs : offered'[t] = IF t \in S THEN <<>> ELSE offered[t]
    BY <1>0, <1>7, RemoveProps
  <2>4. \A j \in Instances : member'[j] # {} => next'[j] = next[j]
    BY <1>0, <1>7, RemoveProps
  <2>5. Due' = [s \in Subs |-> IF s \in S THEN 0 ELSE Due[s]]
    <3> SUFFICES ASSUME NEW s \in Subs PROVE Due'[s] = IF s \in S THEN 0 ELSE Due[s]
      BY DEF Due
    <3>1. Home[s] \in Instances
      OBVIOUS
    <3> QED
      BY <2>2, <2>4, <3>1 DEF Due
  <2>6. LastOffered' = [s \in Subs |-> IF s \in S THEN 0 ELSE LastOffered[s]]
    BY <2>3 DEF LastOffered
  <2> QED
    BY <1>7, <2>1, <2>5, <2>6 DEF Stream!Leave
<1>8. ASSUME NEW s \in Subs, Close(s) PROVE Stream!Leave({s}) /\ {s} \in SUBSET Subs
  <2>1. {s} \in SUBSET member[Home[s]] /\ Home[s] \in Instances
    BY <1>8 DEF Close
  <2> QED
    BY <1>7, <1>8, <2>1 DEF Close
<1>9. ASSUME NEW i \in Instances, Crash(i)
      PROVE  Stream!Leave(member[i]) /\ member[i] \in SUBSET Subs
  BY <1>7, <1>9 DEF Crash
<1>10. CASE UNCHANGED vars
  BY <1>1, <1>10 DEF vars
<1> QED
  BY <1>1, <1>2, <1>3, <1>4, <1>5, <1>6, <1>8, <1>9, <1>10 DEF Next, Stream!Next

(* The rooms implement OrderedStream: a gapless, ordered stream to every    *)
(* subscriber, from any number of instances over an unreliable fan-out.     *)
THEOREM Refinement == Spec => ImplementsOrderedStream
  BY StreamInit, StreamStep, Invariance, PTL DEF Spec, ImplementsOrderedStream, Stream!Spec
=============================================================================
