---------------------------- MODULE OpLog_proofs ----------------------------
(***************************************************************************)
(* The safety properties of OpLog, for any number of goroutines, client    *)
(* operations and entities.                                                *)
(*                                                                         *)
(* The argument: the trip's row lock serializes transactions, so between   *)
(* LockForWrite and the commit nothing a transaction relies on moves: the  *)
(* counter it numbers from, the rows its unique-index check has looked at, *)
(* and the table row its mutation has read.  The rows it has appended are  *)
(* therefore, when it commits, exactly the ones Expected describes.        *)
(***************************************************************************)
EXTENDS OpLog, TLAPS

(* The goroutines in a transaction, and those of them past the mutation.    *)
InTx(p) == pc[p] \in {"fn", "record", "commit"}
Writing(p) == pc[p] \in {"record", "commit"}

(* The i-th row of the transaction of p, from the state it locked.          *)
Expected(p, i) ==
    [seq |-> opSeq + i, cid |-> IF i = 1 THEN req[p].cid ELSE NoCid,
     cause |-> req[p].cid, kind |-> OpsOf(req[p].kind)[i], ent |-> req[p].ent]

LockInv == \A p \in Procs : InTx(p) <=> lock = p

ReqInv ==
    \A p \in Procs : req[p].cid # NoCid =>
        /\ req[p].kind = IntentKind[req[p].cid]
        /\ req[p].ent = IntentTarget[req[p].cid]

(* The rows a transaction has appended so far.                              *)
RowsInv ==
    \A p \in Procs :
        /\ pc[p] \notin {"record", "commit", "publish"} => ops[p] = <<>>
        /\ pc[p] = "record" => Len(ops[p]) < Len(OpsOf(req[p].kind))
        /\ pc[p] = "commit" => Len(ops[p]) = Len(OpsOf(req[p].kind))
        /\ Writing(p) => \A i \in 1..Len(ops[p]) : ops[p][i] = Expected(p, i)

(* What it has checked still holds.                                         *)
ChecksInv ==
    \A p \in Procs : Writing(p) =>
        /\ table[req[p].ent] = IF req[p].kind = "create" THEN "absent" ELSE "live"
        /\ Len(ops[p]) > 0 /\ req[p].cid # NoCid => \A r \in log : r.cid # req[p].cid

(* What is about to be published has committed.                             *)
PublishInv ==
    \A p \in Procs : pc[p] = "publish" =>
        /\ \A i \in 1..Len(ops[p]) : ops[p][i] \in log
        /\ Len(ops[p]) > 0
        /\ ops[p][1].cid = req[p].cid

Inv ==
    /\ TypeOK /\ LockInv /\ ReqInv /\ RowsInv /\ ChecksInv /\ PublishInv
    /\ LogGapless /\ IntentExactlyOnce /\ PublishedIsCommitted
    /\ TableMatchesLog /\ AnswerTruthful
-----------------------------------------------------------------------------
(* An intent commits as at least one operation.                             *)
LEMMA OpsOfType ==
    ASSUME NEW k \in Kinds
    PROVE  /\ OpsOf(k) \in Seq(OpKinds)
           /\ Len(OpsOf(k)) \in Nat /\ Len(OpsOf(k)) > 0
           /\ \A i \in 1..Len(OpsOf(k)) : OpsOf(k)[i] \in OpKinds
<1>1. CASE k = "cascade"
  BY <1>1 DEF OpKinds, OpsOf
<1>2. CASE k # "cascade"
  <2>1. k \in OpKinds /\ OpsOf(k) = <<k>>
    BY <1>2 DEF Kinds, OpKinds, OpsOf
  <2> QED
    BY <2>1
<1> QED
  BY <1>1, <1>2

(* recorder.record appends a well-formed row.                               *)
LEMMA NewRowType ==
    ASSUME TypeOK, NEW p \in Procs, Len(ops[p]) < Len(OpsOf(req[p].kind))
    PROVE  NewRow(p) \in Row
<1>1. req[p] \in Requests /\ ops[p] \in Seq(Row)
  BY DEF TypeOK
<1>2. Len(ops[p]) \in Nat
  BY <1>1
<1>3. req[p].kind \in Kinds /\ req[p].ent \in Entities /\ req[p].cid \in Intents \cup {NoCid}
  BY <1>1 DEF Requests
<1>4. OpsOf(req[p].kind)[Len(ops[p]) + 1] \in OpKinds
  BY <1>2, <1>3, OpsOfType
<1> QED
  BY <1>2, <1>3, <1>4 DEF NewRow, NextOpSeq, Row, TypeOK

(* Type correctness is preserved; that a row is well formed needs RowsInv.  *)
LEMMA TypeStep == TypeOK /\ RowsInv /\ [Next]_vars => TypeOK'
<1> SUFFICES ASSUME TypeOK, RowsInv, [Next]_vars PROVE TypeOK'
  OBVIOUS
<1> USE ConstantsAssumption
<1>1. ASSUME NEW p \in Procs, Receive(p) PROVE TypeOK'
  <2>1. \E r \in Requests : req' = [req EXCEPT ![p] = r]
    <3>1. ASSUME NEW c \in Intents
          PROVE  [cid |-> c, kind |-> IntentKind[c], ent |-> IntentTarget[c]] \in Requests
      BY DEF Requests
    <3>2. ASSUME NEW k \in Kinds, NEW e \in Entities
          PROVE  [cid |-> NoCid, kind |-> k, ent |-> e] \in Requests
      BY DEF Requests
    <3> QED
      BY <1>1, <3>1, <3>2 DEF Receive
  <2>2. req' \in [Procs -> Requests]
    BY <2>1 DEF TypeOK
  <2> QED
    BY <1>1, <2>2 DEF TypeOK, Receive, Goto, Answer, PCs, Answers
<1>2. ASSUME NEW p \in Procs, PreCheck(p) PROVE TypeOK'
  BY <1>2 DEF TypeOK, PreCheck, Goto, Answer, PCs, Answers
<1>3. ASSUME NEW p \in Procs, Rollback(p)
      PROVE  /\ opSeq' \in Nat /\ log' \subseteq Row /\ table' \in [Entities -> States]
             /\ ops' \in [Procs -> Seq(Row)] /\ lock' \in Procs \cup {NoProc}
  BY <1>3 DEF TypeOK, Rollback
<1>4. ASSUME NEW p \in Procs, LockForWrite(p) PROVE TypeOK'
  BY <1>4, <1>3 DEF TypeOK, LockForWrite, Goto, Answer, PCs, Answers
<1>5. ASSUME NEW p \in Procs, Mutate(p) PROVE TypeOK'
  BY <1>5, <1>3 DEF TypeOK, Mutate, Goto, Answer, PCs, Answers
<1>6. ASSUME NEW p \in Procs, Record(p) PROVE TypeOK'
  <2>1. NewRow(p) \in Row
    BY <1>6, NewRowType DEF Record, RowsInv
  <2>2. CASE Conflicts(NewRow(p))
    BY <1>6, <1>3, <2>2 DEF TypeOK, Record, Goto, PCs
  <2>3. CASE ~Conflicts(NewRow(p))
    <3>1. ops' \in [Procs -> Seq(Row)]
      <4>1. Append(ops[p], NewRow(p)) \in Seq(Row)
        BY <2>1 DEF TypeOK
      <4>2. ops' = [ops EXCEPT ![p] = Append(ops[p], NewRow(p))]
        BY <1>6, <2>3 DEF Record
      <4> QED
        BY <4>1, <4>2 DEF TypeOK
    <3>2. pc' \in [Procs -> PCs]
      BY <1>6, <2>3 DEF TypeOK, Record, Goto, PCs
    <3> QED
      BY <1>6, <2>3, <3>1, <3>2 DEF TypeOK, Record
  <2> QED
    BY <2>2, <2>3
<1>7. ASSUME NEW p \in Procs, CommitTx(p)
      PROVE  /\ opSeq' \in Nat /\ log' \subseteq Row /\ table' \in [Entities -> States]
             /\ lock' \in Procs \cup {NoProc}
  <2>1. ops[p] \in Seq(Row) /\ req[p] \in Requests
    BY DEF TypeOK
  <2>2. opSeq' \in Nat /\ log' \subseteq Row
    BY <1>7, <2>1 DEF TypeOK, CommitTx
  <2>3. table' \in [Entities -> States]
    BY <1>7, <2>1 DEF TypeOK, CommitTx, Effect, Requests, States
  <2> QED
    BY <1>7, <2>2, <2>3 DEF CommitTx
<1>8. ASSUME NEW p \in Procs, Commit(p) PROVE TypeOK'
  BY <1>8, <1>7 DEF TypeOK, Commit, Goto, PCs
<1>9. ASSUME NEW p \in Procs, CommitUnacknowledged(p) PROVE TypeOK'
  BY <1>9, <1>7 DEF TypeOK, CommitUnacknowledged, Goto, Answer, PCs, Answers
<1>10. ASSUME NEW p \in Procs, Publish(p) PROVE TypeOK'
  <2>1. ops[p] \in Seq(Row)
    BY DEF TypeOK
  <2>2. published' \subseteq Row
    BY <1>10, <2>1 DEF TypeOK, Publish
  <2> QED
    BY <1>10, <2>2 DEF TypeOK, Publish, Goto, Answer, PCs, Answers
<1>11. ASSUME NEW p \in Procs, Recheck(p) PROVE TypeOK'
  BY <1>11 DEF TypeOK, Recheck, Goto, Answer, PCs, Answers
<1>12. ASSUME NEW p \in Procs, Fail(p) PROVE TypeOK'
  BY <1>12, <1>3 DEF TypeOK, Fail, Goto, Answer, PCs, Answers
<1>13. ASSUME NEW p \in Procs, Crash(p) PROVE TypeOK'
  BY <1>13, <1>3 DEF TypeOK, Crash, Goto, Answer, PCs, Answers
<1>14. CASE DeleteTrip
  BY <1>14 DEF TypeOK, DeleteTrip
<1>15. CASE UNCHANGED vars
  BY <1>15 DEF TypeOK, vars
<1> QED
  BY <1>1, <1>2, <1>4, <1>5, <1>6, <1>8, <1>9, <1>10, <1>11, <1>12, <1>13, <1>14,
     <1>15 DEF Next, Step
-----------------------------------------------------------------------------
(* Only a commit changes what is committed.                                 *)
LEMMA CommitOrNot ==
    ASSUME [Next]_vars
    PROVE  \/ \E p \in Procs : Commit(p) \/ CommitUnacknowledged(p)
           \/ UNCHANGED <<opSeq, log, table>>
BY DEF Next, Step, Receive, PreCheck, LockForWrite, Mutate, Record, Publish,
       Recheck, Fail, Crash, DeleteTrip, Rollback, vars

(* The row lock is held exactly by the goroutine in a transaction.          *)
LEMMA LockStep == TypeOK /\ LockInv /\ [Next]_vars => LockInv'
<1> SUFFICES ASSUME TypeOK, LockInv, [Next]_vars PROVE LockInv'
  OBVIOUS
<1> USE ConstantsAssumption DEF LockInv, InTx, TypeOK
<1>1. ASSUME NEW p \in Procs, Receive(p) PROVE LockInv'
  BY <1>1 DEF Receive, Goto
<1>2. ASSUME NEW p \in Procs, PreCheck(p) PROVE LockInv'
  BY <1>2 DEF PreCheck, Goto
<1>3. ASSUME NEW p \in Procs, LockForWrite(p) PROVE LockInv'
  BY <1>3 DEF LockForWrite, Rollback, Goto
<1>4. ASSUME NEW p \in Procs, Mutate(p) PROVE LockInv'
  BY <1>4 DEF Mutate, Rollback, Goto
<1>5. ASSUME NEW p \in Procs, Record(p) PROVE LockInv'
  <2>1. \/ /\ pc' = [pc EXCEPT ![p] = "recheck"]
           /\ lock' = IF lock = p THEN NoProc ELSE lock
        \/ /\ pc' \in {[pc EXCEPT ![p] = "commit"], [pc EXCEPT ![p] = "record"]}
           /\ UNCHANGED lock
    BY <1>5 DEF Record, Rollback, Goto
  <2>2. pc[p] = "record"
    BY <1>5 DEF Record
  <2> QED
    BY <2>1, <2>2
<1>6. ASSUME NEW p \in Procs, Commit(p) PROVE LockInv'
  BY <1>6 DEF Commit, CommitTx, Goto
<1>7. ASSUME NEW p \in Procs, CommitUnacknowledged(p) PROVE LockInv'
  BY <1>7 DEF CommitUnacknowledged, CommitTx, Goto
<1>8. ASSUME NEW p \in Procs, Publish(p) \/ Recheck(p) PROVE LockInv'
  BY <1>8 DEF Publish, Recheck, Goto
<1>9. ASSUME NEW p \in Procs, Fail(p) \/ Crash(p) PROVE LockInv'
  <2>1. pc' = [pc EXCEPT ![p] = "idle"] /\ lock' = IF lock = p THEN NoProc ELSE lock
    BY <1>9 DEF Fail, Crash, Rollback, Goto
  <2> QED
    BY <2>1
<1>10. CASE DeleteTrip \/ UNCHANGED vars
  BY <1>10 DEF DeleteTrip, vars
<1> QED
  BY <1>1, <1>2, <1>3, <1>4, <1>5, <1>6, <1>7, <1>8, <1>9, <1>10 DEF Next, Step

(* A request under a client op id asks for what the client asked.           *)
LEMMA ReqStep == TypeOK /\ ReqInv /\ [Next]_vars => ReqInv'
<1> SUFFICES ASSUME TypeOK, ReqInv, [Next]_vars PROVE ReqInv'
  OBVIOUS
<1>1. ASSUME NEW p \in Procs, Receive(p) PROVE ReqInv'
  <2>1. CASE \E c \in Intents : req' = [req EXCEPT ![p] =
                [cid |-> c, kind |-> IntentKind[c], ent |-> IntentTarget[c]]]
    BY <2>1 DEF ReqInv, TypeOK
  <2>2. CASE \E k \in Kinds, e \in Entities : req' = [req EXCEPT ![p] =
                [cid |-> NoCid, kind |-> k, ent |-> e]]
    BY <2>2 DEF ReqInv, TypeOK
  <2> QED
    BY <1>1, <2>1, <2>2 DEF Receive
<1>2. CASE UNCHANGED req
  BY <1>2 DEF ReqInv
<1>3. (\E p \in Procs : Receive(p)) \/ UNCHANGED req
  BY DEF Next, Step, PreCheck, LockForWrite, Mutate, Record, Commit, Publish,
         Recheck, CommitUnacknowledged, Fail, Crash, DeleteTrip, vars
<1> QED
  BY <1>1, <1>2, <1>3

(* While one goroutine commits, no other is in a transaction.               *)
LEMMA CommitsAlone ==
    ASSUME TypeOK, LockInv, NEW p \in Procs, pc[p] = "commit", NEW q \in Procs, Writing(q)
    PROVE  q = p
BY DEF LockInv, InTx, Writing, TypeOK

(* The rows of a transaction stay the expected ones.                        *)
LEMMA RowsStep == TypeOK /\ LockInv /\ RowsInv /\ [Next]_vars => RowsInv'
<1> SUFFICES ASSUME TypeOK, LockInv, RowsInv, [Next]_vars PROVE RowsInv'
  OBVIOUS
<1> DEFINE R(q) ==
      /\ pc[q] \notin {"record", "commit", "publish"} => ops[q] = <<>>
      /\ pc[q] = "record" => Len(ops[q]) < Len(OpsOf(req[q].kind))
      /\ pc[q] = "commit" => Len(ops[q]) = Len(OpsOf(req[q].kind))
      /\ Writing(q) => \A i \in 1..Len(ops[q]) : ops[q][i] = Expected(q, i)
<1> SUFFICES ASSUME NEW q \in Procs PROVE R(q)'
  BY DEF RowsInv
<1>0. R(q)
  BY DEF RowsInv
<1>1. ASSUME UNCHANGED <<pc[q], ops[q], req[q]>>, UNCHANGED opSeq \/ ~Writing(q) PROVE R(q)'
  BY <1>0, <1>1 DEF Writing, Expected
<1>2. ASSUME pc'[q] \notin {"record", "commit", "publish"}, ops'[q] = <<>> PROVE R(q)'
  BY <1>2 DEF Writing
<1>4. ASSUME NEW p \in Procs, Receive(p) PROVE R(q)'
  <2>1. pc[p] = "idle" /\ UNCHANGED <<ops, opSeq>> /\ ops[p] = <<>>
    BY <1>4 DEF Receive, RowsInv
  <2>2. pc' \in {[pc EXCEPT ![p] = "check"], [pc EXCEPT ![p] = "lock"]}
    BY <1>4 DEF Receive, Goto
  <2>3. CASE q = p
    BY <1>2, <2>1, <2>2, <2>3 DEF TypeOK
  <2>4. CASE q # p
    <3>1. UNCHANGED <<pc[q], ops[q], req[q]>>
      BY <1>4, <2>1, <2>2, <2>4 DEF Receive, TypeOK
    <3> QED
      BY <1>1, <2>1, <3>1
  <2> QED
    BY <2>3, <2>4
<1>5. ASSUME NEW p \in Procs, PreCheck(p) \/ Recheck(p) PROVE R(q)'
  <2>1. /\ UNCHANGED <<ops, opSeq, req>>
        /\ pc' \in {[pc EXCEPT ![p] = "idle"], [pc EXCEPT ![p] = "lock"]}
        /\ pc[p] \in {"check", "recheck"}
    BY <1>5 DEF PreCheck, Recheck, Goto
  <2>2. CASE q = p
    <3>1. ops'[q] = <<>>
      BY <2>1, <2>2 DEF RowsInv
    <3> QED
      BY <1>2, <2>1, <2>2, <3>1 DEF TypeOK
  <2>3. CASE q # p
    BY <1>1, <2>1, <2>3 DEF TypeOK
  <2> QED
    BY <2>2, <2>3
<1>6. ASSUME NEW p \in Procs, Rollback(p), UNCHANGED req,
             \/ pc' = [pc EXCEPT ![p] = "idle"]
             \/ pc' = [pc EXCEPT ![p] = "recheck"]
      PROVE  R(q)'
  <2>1. UNCHANGED opSeq /\ ops' = [ops EXCEPT ![p] = <<>>]
    BY <1>6 DEF Rollback
  <2>2. CASE q = p
    BY <1>2, <1>6, <2>1, <2>2 DEF TypeOK
  <2>3. CASE q # p
    BY <1>1, <1>6, <2>1, <2>3 DEF TypeOK
  <2> QED
    BY <2>2, <2>3
<1>7. ASSUME NEW p \in Procs, LockForWrite(p) PROVE R(q)'
  <2>1. CASE tripGone
    BY <1>7, <1>6, <2>1 DEF LockForWrite, Goto
  <2>2. CASE ~tripGone
    <3>1. /\ UNCHANGED <<ops, opSeq, req>>
          /\ pc' = [pc EXCEPT ![p] = "fn"]
          /\ pc[p] = "lock"
      BY <1>7, <2>2 DEF LockForWrite, Goto
    <3>2. ops[p] = <<>>
      BY <3>1 DEF RowsInv
    <3> QED
      BY <1>1, <1>2, <3>1, <3>2 DEF TypeOK
  <2> QED
    BY <2>1, <2>2
<1>8. ASSUME NEW p \in Procs, Mutate(p) PROVE R(q)'
  <2>1. CASE /\ Rollback(p) /\ UNCHANGED req
             /\ \/ pc' = [pc EXCEPT ![p] = "idle"]
                \/ pc' = [pc EXCEPT ![p] = "recheck"]
    BY <1>6, <2>1
  <2>2. CASE /\ UNCHANGED <<ops, opSeq, req>>
             /\ pc' = [pc EXCEPT ![p] = "record"]
    <3>1. ops[p] = <<>>
      BY <1>8 DEF Mutate, RowsInv
    <3>2. CASE q = p
      <4>1. Len(OpsOf(req[p].kind)) \in Nat /\ Len(OpsOf(req[p].kind)) > 0
        <5>1. req[p].kind \in Kinds
          BY DEF TypeOK, Requests
        <5> QED
          BY <5>1, OpsOfType
      <4>2. pc'[q] = "record" /\ ops'[q] = <<>> /\ req'[q] = req[q]
        BY <2>2, <3>1, <3>2 DEF TypeOK
      <4>3. Len(ops'[q]) = 0 /\ 1..Len(ops'[q]) = {}
        BY <4>2
      <4>4. Len(OpsOf(req'[q].kind)) \in Nat /\ Len(OpsOf(req'[q].kind)) > 0
        BY <3>2, <4>1, <4>2
      <4>5. Len(ops'[q]) < Len(OpsOf(req'[q].kind))
        BY <4>3, <4>4
      <4>6. \A i \in 1..Len(ops'[q]) : ops'[q][i] = Expected(q, i)'
        BY <4>3
      <4> QED
        BY <4>2, <4>5, <4>6, Zenon
    <3>3. CASE q # p
      BY <1>1, <2>2, <3>3 DEF TypeOK
    <3> QED
      BY <3>2, <3>3
  <2> QED
    BY <1>8, <2>1, <2>2 DEF Mutate, Goto
<1>9. ASSUME NEW p \in Procs, Record(p) PROVE R(q)'
  <2>1. CASE Conflicts(NewRow(p))
    BY <1>9, <1>6, <2>1 DEF Record, Goto
  <2>2. CASE ~Conflicts(NewRow(p))
    <3>1. /\ UNCHANGED <<opSeq, req>>
          /\ ops' = [ops EXCEPT ![p] = Append(ops[p], NewRow(p))]
          /\ pc' = [pc EXCEPT ![p] = IF Len(ops[p]) + 1 = Len(OpsOf(req[p].kind))
                                       THEN "commit" ELSE "record"]
          /\ pc[p] = "record"
      BY <1>9, <2>2 DEF Record, Goto
    <3>2. CASE q # p
      BY <1>1, <3>1, <3>2 DEF TypeOK
    <3>3. CASE q = p
      <4>1. /\ ops[p] \in Seq(Row) /\ Len(ops[p]) \in Nat
            /\ Len(OpsOf(req[p].kind)) \in Nat
            /\ Len(ops[p]) < Len(OpsOf(req[p].kind))
            /\ \A i \in 1..Len(ops[p]) : ops[p][i] = Expected(p, i)
        BY <1>0, <3>1, <3>3, OpsOfType DEF TypeOK, Requests, Writing
      <4>2. ops'[p] = Append(ops[p], NewRow(p))
        BY <3>1 DEF TypeOK
      <4>3. Len(ops'[p]) = Len(ops[p]) + 1
        BY <4>1, <4>2
      <4>4. NewRow(p) = Expected(p, Len(ops[p]) + 1)
        BY <4>1 DEF NewRow, NextOpSeq, Expected, TypeOK
      <4>5. ASSUME NEW i \in 1..Len(ops'[p]) PROVE ops'[p][i] = Expected(p, i)
        BY <4>1, <4>2, <4>3, <4>4
      <4>6. ASSUME NEW i \in 1..Len(ops'[p]) PROVE ops'[p][i] = Expected(p, i)'
        BY <4>5, <3>1 DEF Expected
      <4>7. pc'[p] = IF Len(ops[p]) + 1 = Len(OpsOf(req[p].kind)) THEN "commit" ELSE "record"
        BY <3>1 DEF TypeOK
      <4> QED
        BY <3>1, <3>3, <4>1, <4>3, <4>6, <4>7
    <3> QED
      BY <3>2, <3>3
  <2> QED
    BY <2>1, <2>2
<1>10. ASSUME NEW p \in Procs, Commit(p) PROVE R(q)'
  <2>1. /\ UNCHANGED <<ops, req>>
        /\ pc' = [pc EXCEPT ![p] = "publish"]
        /\ pc[p] = "commit"
    BY <1>10 DEF Commit, Goto
  <2>2. CASE q = p
    BY <2>1, <2>2 DEF TypeOK, Writing
  <2>3. CASE q # p
    BY <1>1, <2>1, <2>3, CommitsAlone DEF TypeOK
  <2> QED
    BY <2>2, <2>3
<1>11. ASSUME NEW p \in Procs, CommitUnacknowledged(p) PROVE R(q)'
  <2>1. /\ UNCHANGED req
        /\ ops' = [ops EXCEPT ![p] = <<>>]
        /\ pc' = [pc EXCEPT ![p] = "idle"]
        /\ pc[p] = "commit"
    BY <1>11 DEF CommitUnacknowledged, Goto
  <2>2. CASE q = p
    BY <1>2, <2>1, <2>2 DEF TypeOK
  <2>3. CASE q # p
    BY <1>1, <2>1, <2>3, CommitsAlone DEF TypeOK
  <2> QED
    BY <2>2, <2>3
<1>12. ASSUME NEW p \in Procs, Publish(p) PROVE R(q)'
  <2>1. /\ UNCHANGED <<req, opSeq>>
        /\ ops' = [ops EXCEPT ![p] = <<>>]
        /\ pc' = [pc EXCEPT ![p] = "idle"]
    BY <1>12 DEF Publish, Goto
  <2> QED
    BY <1>1, <1>2, <2>1 DEF TypeOK
<1>13. ASSUME NEW p \in Procs, Fail(p) \/ Crash(p) PROVE R(q)'
  BY <1>6, <1>13 DEF Fail, Crash, Goto
<1>14. CASE DeleteTrip \/ UNCHANGED vars
  BY <1>1, <1>14 DEF DeleteTrip, vars
<1> QED
  BY <1>4, <1>5, <1>7, <1>8, <1>9, <1>10, <1>11, <1>12, <1>13, <1>14 DEF Next, Step

(* What a transaction has read stays so until it commits.                   *)
LEMMA ChecksStep ==
    TypeOK /\ LockInv /\ RowsInv /\ ChecksInv /\ [Next]_vars => ChecksInv'
<1> SUFFICES ASSUME TypeOK, LockInv, RowsInv, ChecksInv, [Next]_vars,
                    NEW q \in Procs, Writing(q)'
             PROVE  /\ table'[req'[q].ent] =
                          IF req'[q].kind = "create" THEN "absent" ELSE "live"
                    /\ Len(ops'[q]) > 0 /\ req'[q].cid # NoCid
                          => \A r \in log' : r.cid # req'[q].cid
  BY DEF ChecksInv
<1>1. UNCHANGED <<req[q], log, table>> /\ (Writing(q) \/ Mutate(q))
  <2>1. ASSUME NEW p \in Procs, p # q,
               Receive(p) \/ Step(p) \/ CommitUnacknowledged(p) \/ Fail(p) \/ Crash(p)
        PROVE  UNCHANGED <<req[q], pc[q]>>
    BY <2>1 DEF Step, Receive, PreCheck, LockForWrite, Mutate, Record, Commit, Publish,
                Recheck, CommitUnacknowledged, Fail, Crash, Goto, TypeOK
  <2>2. ASSUME Receive(q) \/ Step(q) \/ CommitUnacknowledged(q) \/ Fail(q) \/ Crash(q)
        PROVE  UNCHANGED req /\ (Record(q) \/ Mutate(q))
    BY <2>2 DEF Step, Receive, PreCheck, LockForWrite, Mutate, Record, Commit, Publish,
                Recheck, CommitUnacknowledged, Fail, Crash, Goto, TypeOK, Writing
  <2>3. UNCHANGED req[q] /\ (Writing(q) \/ Mutate(q))
    <3>1. CASE DeleteTrip \/ UNCHANGED vars
      BY <3>1 DEF DeleteTrip, vars, Writing
    <3>2. ASSUME NEW p \in Procs,
                 Receive(p) \/ Step(p) \/ CommitUnacknowledged(p) \/ Fail(p) \/ Crash(p)
          PROVE  UNCHANGED req[q] /\ (Writing(q) \/ Mutate(q))
      BY <2>1, <2>2, <3>2 DEF Record, Writing
    <3> QED
      BY <3>1, <3>2 DEF Next
  <2>4. UNCHANGED <<log, table>>
    <3> SUFFICES ASSUME NEW p \in Procs, Commit(p) \/ CommitUnacknowledged(p) PROVE FALSE
      BY CommitOrNot
    <3>1. pc[p] = "commit" /\ pc'[p] \in {"publish", "idle"}
      BY DEF Commit, CommitUnacknowledged, Goto, TypeOK
    <3>2. q = p
      BY <2>3, <3>1 DEF LockInv, InTx, Writing, Mutate
    <3> QED
      BY <3>1, <3>2 DEF Writing
  <2> QED
    BY <2>3, <2>4
<1>2. CASE Mutate(q)
  <2>1. ops'[q] = <<>>
    BY <1>2 DEF Mutate, Rollback, RowsInv, TypeOK
  <2>2. table[req[q].ent] = IF req[q].kind = "create" THEN "absent" ELSE "live"
    BY <1>2 DEF Mutate, Goto, Writing, TypeOK
  <2> QED
    BY <1>1, <2>1, <2>2
<1>3. CASE Writing(q)
  <2>1. CASE UNCHANGED ops[q]
    BY <1>1, <1>3, <2>1 DEF ChecksInv
  <2>2. CASE Record(q)
    <3>1. ~Conflicts(NewRow(q))
      BY <2>2 DEF Record, Goto, Writing, TypeOK
    <3>2. CASE Len(ops[q]) = 0
      BY <1>1, <1>3, <3>1, <3>2 DEF ChecksInv, Conflicts, NewRow
    <3>3. CASE Len(ops[q]) > 0
      BY <1>1, <1>3, <3>3 DEF ChecksInv
    <3> QED
      BY <3>2, <3>3 DEF TypeOK
  <2>3. UNCHANGED ops[q] \/ Record(q)
    BY <1>3 DEF Writing, Next, Step, Receive, PreCheck, LockForWrite, Mutate, Record, Commit,
            Publish, Recheck, CommitUnacknowledged, Fail, Crash, Rollback, Goto, DeleteTrip,
            vars, TypeOK
  <2> QED
    BY <2>1, <2>2, <2>3
<1> QED
  BY <1>1, <1>2, <1>3

(* A transaction that committed has its rows in the log until it publishes. *)
LEMMA PublishStep ==
    TypeOK /\ RowsInv /\ PublishInv /\ [Next]_vars => PublishInv'
<1> SUFFICES ASSUME TypeOK, RowsInv, PublishInv, [Next]_vars,
                    NEW q \in Procs, pc'[q] = "publish"
             PROVE  /\ \A i \in 1..Len(ops'[q]) : ops'[q][i] \in log'
                    /\ Len(ops'[q]) > 0
                    /\ ops'[q][1].cid = req'[q].cid
  BY DEF PublishInv
<1>1. log \subseteq log'
  BY CommitOrNot DEF Commit, CommitUnacknowledged, CommitTx
<1>2. CASE Commit(q)
  <2>1. UNCHANGED <<ops, req>> /\ pc[q] = "commit"
    BY <1>2 DEF Commit
  <2>2. /\ Len(ops[q]) = Len(OpsOf(req[q].kind))
        /\ \A i \in 1..Len(ops[q]) : ops[q][i] = Expected(q, i)
    BY <2>1 DEF RowsInv, Writing
  <2>3. Len(ops[q]) \in Nat /\ Len(ops[q]) > 0
    <3>1. req[q].kind \in Kinds
      BY DEF TypeOK, Requests
    <3> QED
      BY <2>2, <3>1, OpsOfType
  <2>4. ops[q][1].cid = req[q].cid
    <3>1. ops[q][1] = Expected(q, 1)
      BY <2>2, <2>3
    <3>2. Expected(q, 1).cid = req[q].cid
      BY DEF Expected
    <3> QED
      BY <3>1, <3>2
  <2>5. \A i \in 1..Len(ops[q]) : ops[q][i] \in log'
    BY <1>2 DEF Commit, CommitTx
  <2> QED
    BY <2>1, <2>3, <2>4, <2>5
<1>3. CASE pc[q] = "publish" /\ UNCHANGED <<ops[q], req[q]>>
  BY <1>1, <1>3 DEF PublishInv
<1>4. Commit(q) \/ (pc[q] = "publish" /\ UNCHANGED <<ops[q], req[q]>>)
  <2>1. ASSUME NEW p \in Procs, p # q,
               Receive(p) \/ Step(p) \/ CommitUnacknowledged(p) \/ Fail(p) \/ Crash(p)
        PROVE  UNCHANGED <<req[q], pc[q], ops[q]>>
    BY <2>1 DEF Step, Receive, PreCheck, LockForWrite, Mutate, Record, Commit, Publish,
                Recheck, CommitUnacknowledged, Fail, Crash, Rollback, Goto, TypeOK
  <2>2. ASSUME Receive(q) \/ Step(q) \/ CommitUnacknowledged(q) \/ Fail(q) \/ Crash(q)
        PROVE  Commit(q)
    BY <2>2 DEF Step, Receive, PreCheck, LockForWrite, Mutate, Record, Publish,
                Recheck, CommitUnacknowledged, Fail, Crash, Goto, TypeOK
  <2>3. CASE DeleteTrip \/ UNCHANGED vars
    BY <2>3 DEF DeleteTrip, vars
  <2> QED
    BY <2>1, <2>2, <2>3 DEF Next
<1> QED
  BY <1>2, <1>3, <1>4
-----------------------------------------------------------------------------
(* What a committing transaction adds to the log.                           *)
NewRows(p) == {Expected(p, i) : i \in 1..Len(OpsOf(req[p].kind))}

(* A step that changes the log is the commit of one transaction, which adds *)
(* exactly its expected rows and advances the counter past them.            *)
LEMMA CommitAdds ==
    ASSUME TypeOK, RowsInv, NEW p \in Procs, Commit(p) \/ CommitUnacknowledged(p)
    PROVE  /\ Writing(p) /\ Len(ops[p]) > 0
           /\ req[p] \in Requests
           /\ Len(OpsOf(req[p].kind)) \in Nat
           /\ Len(OpsOf(req[p].kind)) > 0
           /\ log' = log \cup NewRows(p)
           /\ opSeq' = opSeq + Len(OpsOf(req[p].kind))
           /\ table' = Effect(p)
<1>1. pc[p] = "commit" /\ CommitTx(p)
  BY DEF Commit, CommitUnacknowledged
<1>2. req[p] \in Requests /\ req[p].kind \in Kinds
  BY DEF TypeOK, Requests
<1>3. Len(OpsOf(req[p].kind)) \in Nat /\ Len(OpsOf(req[p].kind)) > 0
  BY <1>2, OpsOfType
<1>4. /\ Len(ops[p]) = Len(OpsOf(req[p].kind))
      /\ \A i \in 1..Len(ops[p]) : ops[p][i] = Expected(p, i)
  BY <1>1 DEF RowsInv, Writing
<1>5. {ops[p][i] : i \in 1..Len(ops[p])} = NewRows(p)
  BY <1>4 DEF NewRows
<1>6. Len(ops[p]) > 0
  BY <1>3, <1>4
<1>7. log' = log \cup NewRows(p) /\ opSeq' = opSeq + Len(ops[p]) /\ table' = Effect(p)
  BY <1>1, <1>5 DEF CommitTx
<1> QED
  BY <1>1, <1>2, <1>3, <1>4, <1>6, <1>7 DEF Writing

(* D61, the step: numbers stay 1..op_seq, each once.                        *)
LEMMA GaplessStep ==
    TypeOK /\ RowsInv /\ LogGapless /\ [Next]_vars => LogGapless'
<1> SUFFICES ASSUME TypeOK, RowsInv, LogGapless, [Next]_vars PROVE LogGapless'
  OBVIOUS
<1>1. CASE UNCHANGED <<opSeq, log, table>>
  BY <1>1 DEF LogGapless
<1>2. ASSUME NEW p \in Procs, Commit(p) \/ CommitUnacknowledged(p) PROVE LogGapless'
  <2> DEFINE n == Len(OpsOf(req[p].kind))
  <2>1. n \in Nat /\ n > 0 /\ log' = log \cup NewRows(p) /\ opSeq' = opSeq + n /\ opSeq \in Nat
    BY <1>2, CommitAdds DEF TypeOK
  <2>2. \A r \in NewRows(p) : \E i \in 1..n : r = Expected(p, i) /\ r.seq = opSeq + i
    BY DEF NewRows, Expected
  <2>3. \A i \in 1..n : Expected(p, i) \in NewRows(p) /\ Expected(p, i).seq = opSeq + i
    BY DEF NewRows, Expected
  <2>4. \A r \in log : r.seq \in 1..opSeq
    BY DEF LogGapless
  <2> HIDE DEF n
  <2>5. {r.seq : r \in log'} = 1..opSeq'
    <3>1. ASSUME NEW r \in log' PROVE r.seq \in 1..opSeq'
      BY <2>1, <2>2, <2>4
    <3>2. ASSUME NEW k \in 1..opSeq' PROVE \E r \in log' : r.seq = k
      <4>1. CASE k \in 1..opSeq
        BY <2>1, <4>1 DEF LogGapless
      <4>2. CASE k > opSeq
        <5>1. k - opSeq \in 1..n
          BY <2>1, <4>2
        <5>2. opSeq + (k - opSeq) = k
          BY <2>1
        <5> QED
          BY <2>1, <2>3, <5>1, <5>2
      <4> QED
        BY <2>1, <4>1, <4>2
    <3> QED
      BY <3>1, <3>2
  <2>6. ASSUME NEW r \in log', NEW s \in log', r.seq = s.seq PROVE r = s
    BY <2>1, <2>2, <2>4, <2>6 DEF LogGapless
  <2> QED
    BY <2>5, <2>6 DEF LogGapless
<1> QED
  BY <1>1, <1>2, CommitOrNot

(* Idempotence, the step: the unique-index check, made when the first row   *)
(* was appended, still holds at the commit, so no other transaction has     *)
(* committed the intent in between.                                         *)
LEMMA IntentStep ==
    TypeOK /\ ReqInv /\ RowsInv /\ ChecksInv /\ IntentExactlyOnce /\ [Next]_vars
        => IntentExactlyOnce'
<1> SUFFICES ASSUME TypeOK, ReqInv, RowsInv, ChecksInv, IntentExactlyOnce, [Next]_vars
             PROVE  IntentExactlyOnce'
  OBVIOUS
<1>1. CASE UNCHANGED <<opSeq, log, table>>
  BY <1>1 DEF IntentExactlyOnce
<1>2. ASSUME NEW p \in Procs, Commit(p) \/ CommitUnacknowledged(p) PROVE IntentExactlyOnce'
  <2> DEFINE c == req[p].cid
             k == OpsOf(req[p].kind)
             RowsOf(L, d) == {q \in L : q.cause = d}
             Block(r) ==
               {[seq |-> r.seq + i - 1, cid |-> IF i = 1 THEN r.cid ELSE NoCid,
                 cause |-> r.cid, kind |-> OpsOf(IntentKind[r.cid])[i],
                 ent |-> IntentTarget[r.cid]] : i \in 1..Len(OpsOf(IntentKind[r.cid]))}
  <2>1. /\ Writing(p) /\ Len(ops[p]) > 0
        /\ Len(k) \in Nat /\ Len(k) > 0
        /\ log' = log \cup NewRows(p)
        /\ opSeq \in Nat
    BY <1>2, CommitAdds DEF TypeOK
  <2>2. \A r \in NewRows(p) : /\ r.cause = c
                              /\ r.cid # NoCid => r = Expected(p, 1) /\ r.cid = c
    BY DEF NewRows, Expected
  <2>3. Expected(p, 1) \in NewRows(p) /\ Expected(p, 1).cid = c
    <3>1. 1 \in 1..Len(k)
      BY <2>1
    <3>2. Expected(p, 1).cid = c
      BY DEF Expected
    <3> QED
      BY <3>1, <3>2 DEF NewRows
  <2>4. c # NoCid => \A r \in log : r.cid # c /\ r.cause # c
    BY <2>1 DEF ChecksInv, IntentExactlyOnce
  <2>5. \A r \in log : r.cid # NoCid => RowsOf(log, r.cid) = Block(r)
    BY DEF IntentExactlyOnce
  <2>6. ASSUME NEW r \in log', r.cid # NoCid PROVE RowsOf(log', r.cid) = Block(r)
    <3>1. CASE r \in log
      <4>1. r.cid # c
        BY <2>4, <2>6, <3>1
      <4>2. RowsOf(log', r.cid) = RowsOf(log, r.cid)
        BY <2>1, <2>2, <4>1
      <4> QED
        BY <2>5, <2>6, <3>1, <4>2
    <3>2. CASE r \notin log
      <4>1. r = Expected(p, 1) /\ r.cid = c /\ c # NoCid
        BY <2>1, <2>2, <2>6, <3>2
      <4>2. RowsOf(log', r.cid) = NewRows(p)
        BY <2>1, <2>2, <2>4, <4>1
      <4>3. req[p].kind = IntentKind[c] /\ req[p].ent = IntentTarget[c]
        BY <4>1 DEF ReqInv
      <4>4. r.seq = opSeq + 1
        BY <4>1 DEF Expected
      <4>5. ASSUME NEW i \in 1..Len(k)
            PROVE  Expected(p, i) =
                     [seq |-> r.seq + i - 1, cid |-> IF i = 1 THEN r.cid ELSE NoCid,
                      cause |-> r.cid, kind |-> OpsOf(IntentKind[r.cid])[i],
                      ent |-> IntentTarget[r.cid]]
        <5>1. i \in Nat /\ opSeq + i = r.seq + i - 1
          BY <2>1, <4>4
        <5> QED
          BY <4>1, <4>3, <5>1 DEF Expected
      <4>6. k = OpsOf(IntentKind[r.cid])
        BY <4>1, <4>3
      <4>7. NewRows(p) = Block(r)
        BY <4>5, <4>6 DEF NewRows
      <4> QED
        BY <4>2, <4>7
    <3> QED
      BY <3>1, <3>2
  <2>7. ASSUME NEW q \in log', q.cause # NoCid PROVE \E r \in log' : r.cid = q.cause
    <3>1. CASE q \in log
      BY <2>1, <2>7, <3>1 DEF IntentExactlyOnce
    <3>2. CASE q \in NewRows(p)
      BY <2>1, <2>2, <2>3, <3>2
    <3> QED
      BY <2>1, <3>1, <3>2
  <2> QED
    BY <2>6, <2>7 DEF IntentExactlyOnce
<1> QED
  BY <1>1, <1>2, CommitOrNot

(* D1, the step: the mutation committed is the one the rows tell of.        *)
LEMMA TableStep ==
    TypeOK /\ RowsInv /\ ChecksInv /\ TableMatchesLog /\ [Next]_vars => TableMatchesLog'
<1> SUFFICES ASSUME TypeOK, RowsInv, ChecksInv, TableMatchesLog, [Next]_vars
             PROVE  TableMatchesLog'
  OBVIOUS
<1>1. CASE UNCHANGED <<opSeq, log, table>>
  BY <1>1 DEF TableMatchesLog
<1>2. ASSUME NEW p \in Procs, Commit(p) \/ CommitUnacknowledged(p), NEW e \in Entities
      PROVE  table'[e] = IF \E r \in log' : r.ent = e /\ r.kind = "delete" THEN "deleted"
                         ELSE IF \E r \in log' : r.ent = e /\ r.kind = "create" THEN "live"
                         ELSE "absent"
  <2> DEFINE kind == req[p].kind
             Has(L, x) == \E r \in L : r.ent = e /\ r.kind = x
  <2>1. /\ Writing(p) /\ req[p] \in Requests
        /\ Len(OpsOf(kind)) \in Nat /\ Len(OpsOf(kind)) > 0
        /\ log' = log \cup NewRows(p) /\ table' = Effect(p)
    BY <1>2, CommitAdds
  <2>2. table[req[p].ent] = IF kind = "create" THEN "absent" ELSE "live"
    BY <2>1 DEF ChecksInv
  <2>3. table[e] = IF Has(log, "delete") THEN "deleted"
                   ELSE IF Has(log, "create") THEN "live" ELSE "absent"
    BY DEF TableMatchesLog
  <2>4. \A x : Has(log', x) <=> Has(log, x) \/ Has(NewRows(p), x)
    BY <2>1
  <2>5. CASE req[p].ent # e
    <3>1. table'[e] = table[e]
      BY <2>1, <2>5 DEF Effect, TypeOK, Requests
    <3>2. \A x : ~Has(NewRows(p), x)
      BY <2>5 DEF NewRows, Expected
    <3> QED
      BY <2>3, <2>4, <3>1, <3>2
  <2>6. CASE req[p].ent = e
    <3>1. ASSUME NEW x
          PROVE  Has(NewRows(p), x) <=> \E i \in 1..Len(OpsOf(kind)) : OpsOf(kind)[i] = x
      <4>1. \A i : Expected(p, i).ent = e /\ Expected(p, i).kind = OpsOf(kind)[i]
        BY <2>6 DEF Expected
      <4> QED
        BY <4>1 DEF NewRows
    <3>2. kind \in Kinds
      BY <2>1 DEF Requests
    <3>3. CASE kind = "create"
      <4>1. Has(NewRows(p), "create") /\ ~Has(NewRows(p), "delete")
        BY <3>1, <3>3 DEF OpsOf
      <4>2. table'[e] = "live"
        BY <2>1, <2>6, <3>3 DEF Effect, TypeOK
      <4> QED
        BY <2>2, <2>3, <2>4, <2>6, <3>3, <4>1, <4>2
    <3>4. CASE kind = "edit"
      <4>1. ~Has(NewRows(p), "create") /\ ~Has(NewRows(p), "delete")
        BY <3>1, <3>4 DEF OpsOf
      <4>2. table'[e] = table[e]
        BY <2>1, <2>6, <3>4 DEF Effect, TypeOK
      <4> QED
        BY <2>3, <2>4, <4>1, <4>2
    <3>5. CASE kind \in {"delete", "cascade"}
      <4>1. Has(NewRows(p), "delete")
        <5>1. 1 \in 1..Len(OpsOf(kind)) /\ OpsOf(kind)[1] = "delete"
          BY <2>1, <3>5 DEF OpsOf
        <5> QED
          BY <3>1, <5>1
      <4>2. table'[e] = "deleted"
        BY <2>1, <2>6, <3>5 DEF Effect, TypeOK
      <4> QED
        BY <2>4, <4>1, <4>2
    <3> QED
      BY <3>2, <3>3, <3>4, <3>5 DEF Kinds
  <2> QED
    BY <2>5, <2>6
<1> QED
  BY <1>1, <1>2, CommitOrNot DEF TableMatchesLog

(* D70, the step: what is published has committed.                          *)
LEMMA PublishedStep ==
    TypeOK /\ PublishInv /\ PublishedIsCommitted /\ [Next]_vars => PublishedIsCommitted'
<1> SUFFICES ASSUME TypeOK, PublishInv, PublishedIsCommitted, [Next]_vars
             PROVE  PublishedIsCommitted'
  OBVIOUS
<1>1. log \subseteq log'
  BY CommitOrNot DEF Commit, CommitUnacknowledged, CommitTx
<1>2. (\E p \in Procs : Publish(p)) \/ UNCHANGED published
  BY DEF Next, Step, Receive, PreCheck, LockForWrite, Mutate, Record, Commit, Recheck,
         CommitUnacknowledged, Fail, Crash, DeleteTrip, vars
<1>3. ASSUME NEW p \in Procs, Publish(p) PROVE published' \subseteq log
  BY <1>3 DEF Publish, PublishInv, PublishedIsCommitted
<1> QED
  BY <1>1, <1>2, <1>3 DEF PublishedIsCommitted

(* A success is answered only for an operation that is in the log.          *)
LEMMA AnswerStep ==
    TypeOK /\ PublishInv /\ AnswerTruthful /\ [Next]_vars => AnswerTruthful'
<1> SUFFICES ASSUME TypeOK, PublishInv, AnswerTruthful, [Next]_vars,
                    NEW q \in Procs, answer'[q] \in {"applied", "existing"},
                    req'[q].cid # NoCid
             PROVE  \E r \in log' : r.cid = req'[q].cid
  BY DEF AnswerTruthful
<1>1. log \subseteq log'
  BY CommitOrNot DEF Commit, CommitUnacknowledged, CommitTx
<1>2. SUFFICES \E r \in log : r.cid = req'[q].cid
  BY <1>1
<1>3. CASE UNCHANGED <<answer[q], req[q]>>
  BY <1>3 DEF AnswerTruthful
<1>4. CASE Publish(q)
  <2>1. UNCHANGED req /\ ops[q][1].cid = req[q].cid /\ Len(ops[q]) > 0 /\ Len(ops[q]) \in Nat
    BY <1>4 DEF Publish, PublishInv, TypeOK
  <2>2. ops[q][1] \in log
    BY <1>4, <2>1 DEF Publish, PublishInv
  <2> QED
    BY <2>1, <2>2
<1>5. CASE PreCheck(q) \/ Recheck(q)
  <2>1. CASE FindByClientOpID(req[q].cid) # {}
    BY <1>5, <2>1 DEF PreCheck, Recheck, FindByClientOpID
  <2>2. CASE FindByClientOpID(req[q].cid) = {}
    <3>1. CASE PreCheck(q)
      BY <1>3, <2>2, <3>1 DEF PreCheck
    <3>2. CASE Recheck(q)
      BY <2>2, <3>2 DEF Recheck, Answer, TypeOK
    <3> QED
      BY <1>5, <3>1, <3>2
  <2> QED
    BY <2>1, <2>2
<1>6. UNCHANGED <<answer[q], req[q]>> \/ Publish(q) \/ PreCheck(q) \/ Recheck(q)
  <2>1. ASSUME NEW p \in Procs, p # q,
               Receive(p) \/ Step(p) \/ CommitUnacknowledged(p) \/ Fail(p) \/ Crash(p)
        PROVE  UNCHANGED <<answer[q], req[q]>>
    BY <2>1 DEF Step, Receive, PreCheck, LockForWrite, Mutate, Record, Commit, Publish,
                Recheck, CommitUnacknowledged, Fail, Crash, Answer, TypeOK
  <2>2. ASSUME Receive(q) \/ Step(q) \/ CommitUnacknowledged(q) \/ Fail(q) \/ Crash(q)
        PROVE  UNCHANGED <<answer[q], req[q]>> \/ Publish(q) \/ PreCheck(q) \/ Recheck(q)
    BY <2>2 DEF Step, Receive, LockForWrite, Mutate, Record, Commit,
                CommitUnacknowledged, Fail, Crash, Answer, TypeOK
  <2>3. CASE DeleteTrip \/ UNCHANGED vars
    BY <2>3 DEF DeleteTrip, vars
  <2> QED
    BY <2>1, <2>2, <2>3 DEF Next
<1> QED
  BY <1>3, <1>4, <1>5, <1>6
-----------------------------------------------------------------------------
(* The invariant holds of the fresh trip: an empty log and no request.       *)
LEMMA InitInv == Init => Inv
<1> SUFFICES ASSUME Init PROVE Inv
  OBVIOUS
<1> USE ConstantsAssumption DEF Init
<1>1. TypeOK
  <2>1. [cid |-> NoCid, kind |-> "edit", ent |-> CHOOSE e \in Entities : TRUE] \in Requests
    BY DEF Requests, Kinds
  <2>2. req \in [Procs -> Requests]
    BY <2>1
  <2>3. ops \in [Procs -> Seq(Row)]
    <3>1. <<>> \in Seq(Row)
      OBVIOUS
    <3> QED
      BY <3>1
  <2>4. /\ table \in [Entities -> States] /\ pc \in [Procs -> PCs]
        /\ answer \in [Procs -> Answers]
    BY DEF States, PCs, Answers
  <2> QED
    BY <2>2, <2>3, <2>4 DEF TypeOK
<1>2. LockInv /\ ReqInv /\ RowsInv /\ ChecksInv /\ PublishInv
  BY DEF LockInv, ReqInv, RowsInv, ChecksInv, PublishInv, InTx, Writing
<1>3. LogGapless /\ IntentExactlyOnce /\ PublishedIsCommitted /\ TableMatchesLog /\ AnswerTruthful
  BY DEF LogGapless, IntentExactlyOnce, PublishedIsCommitted, TableMatchesLog, AnswerTruthful
<1> QED
  BY <1>1, <1>2, <1>3 DEF Inv

(* Every step of a goroutine, a crash included, preserves the invariant.    *)
LEMMA StepInv == Inv /\ [Next]_vars => Inv'
BY TypeStep, LockStep, ReqStep, RowsStep, ChecksStep, PublishStep, GaplessStep, IntentStep,
   TableStep, PublishedStep, AnswerStep DEF Inv

(* The inductive invariant holds throughout.                                *)
THEOREM Invariance == Spec => []Inv
BY InitInv, StepInv, PTL DEF Spec

(* Every state of the sequencer is well typed: in particular an operation   *)
(* the recorder appends is always one that its intent resolves to.          *)
THEOREM TypeCorrect == Spec => []TypeOK
BY Invariance, PTL DEF Inv

(* D61: the log is gapless, for any number of goroutines and failures.      *)
THEOREM Gapless == Spec => []LogGapless
BY Invariance, PTL DEF Inv

(* Submitting a client op id any number of times commits it at most once,   *)
(* and never in part.                                                       *)
THEOREM Idempotent == Spec => []IntentExactlyOnce
BY Invariance, PTL DEF Inv

(* D70: nothing is broadcast that could still be rolled back.               *)
THEOREM PublishSafe == Spec => []PublishedIsCommitted
BY Invariance, PTL DEF Inv

(* D1: the entity tables and the log never disagree.                        *)
THEOREM TableAgrees == Spec => []TableMatchesLog
BY Invariance, PTL DEF Inv

(* No acknowledgement without a committed operation.                        *)
THEOREM AnswersTruthful == Spec => []AnswerTruthful
BY Invariance, PTL DEF Inv

(* A reader that has seen the log up to n has seen all it will ever hold up *)
(* to n.                                                                    *)
THEOREM LogAppendOnly == Spec => NoLateVisibility
<1>1. Inv /\ [Next]_vars => [log \subseteq log' /\ \A r \in log' \ log : r.seq > opSeq]_vars
  <2> SUFFICES ASSUME Inv, [Next]_vars
               PROVE  log \subseteq log' /\ \A r \in log' \ log : r.seq > opSeq
    OBVIOUS
  <2>1. CASE UNCHANGED <<opSeq, log, table>>
    BY <2>1
  <2>2. ASSUME NEW p \in Procs, Commit(p) \/ CommitUnacknowledged(p)
        PROVE  log \subseteq log' /\ \A r \in log' \ log : r.seq > opSeq
    <3>1. log' = log \cup NewRows(p) /\ opSeq \in Nat
      BY <2>2, CommitAdds DEF Inv, TypeOK
    <3>2. \A r \in NewRows(p) : r.seq > opSeq
      BY <3>1 DEF NewRows, Expected
    <3> QED
      BY <3>1, <3>2
  <2> QED
    BY <2>1, <2>2, CommitOrNot
<1> QED
  BY <1>1, Invariance, PTL DEF Spec, NoLateVisibility
=============================================================================
