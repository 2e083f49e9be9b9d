------------------------------- MODULE OpLog -------------------------------
(***************************************************************************)
(* The per-trip sequencer and operation log: Engine.Submit, oplog.write,   *)
(* recorder.record, TxManager.WithinTx and the trip_ops queries.           *)
(*                                                                         *)
(* One trip.  Procs are the goroutines serving requests, on any instance:  *)
(* a WebSocket operation carries a client op id (an element of Intents), a *)
(* REST write carries none (NoCid).  The same client op id may be in       *)
(* flight in several goroutines: that is a client which lost its           *)
(* acknowledgement and sent the operation again.                           *)
(*                                                                         *)
(* trip_ops is a set of rows, not a sequence, so that a hole, a duplicate  *)
(* or a late insertion is expressible.                                     *)
(***************************************************************************)
EXTENDS Naturals, Sequences, FiniteSets

CONSTANTS Procs,        \* request goroutines
          Intents,      \* client op ids
          Entities,     \* slots, options, days... by id
          IntentKind,   \* what the client asked for under each client op id
          IntentTarget, \* ... and of which entity
          NoCid,        \* NULL client_op_id / cause_op_id
          NoProc,       \* nobody holds the trip row lock
          MaxOpSeq      \* bound of the model: no transaction starts beyond it

Kinds == {"create", "edit", "delete", "cascade"}

ASSUME ConstantsAssumption ==
    /\ IntentKind \in [Intents -> Kinds]
    /\ IntentTarget \in [Intents -> Entities]
    /\ Entities # {}
    /\ NoCid \notin Intents
    /\ NoProc \notin Procs
    /\ MaxOpSeq \in Nat

VARIABLES
    opSeq,      \* trips.op_seq, committed
    log,        \* trip_ops, committed rows
    table,      \* the entity rows: "absent", "live" or "deleted" (deleted_at set)
    tripGone,   \* trips.deleted_at is set
    lock,       \* holder of the trip's row lock
    pc,         \* where each goroutine is
    req,        \* the request it serves
    ops,        \* recorder.ops: the rows its transaction has appended
    answer,     \* what the last request was told
    published   \* rows handed to OpPublisher.Publish

vars == <<opSeq, log, table, tripGone, lock, pc, req, ops, answer, published>>

(* Mutant: logs the intent itself rather than what it resolved to. *)
OpsOfUnresolved(kind) == <<kind>>

(***************************************************************************)
(* The operations one intent commits as: deleting a slot's selected option *)
(* also clears the selection, as a second operation (D63).                 *)
(***************************************************************************)
OpsOf(kind) == IF kind = "cascade" THEN <<"delete", "clear">> ELSE <<kind>>

OpKinds == {"create", "edit", "delete", "clear"}

Requests == [cid : Intents \cup {NoCid}, kind : Kinds, ent : Entities]

Row == [seq : Nat, cid : Intents \cup {NoCid}, cause : Intents \cup {NoCid},
        kind : OpKinds, ent : Entities]

States == {"absent", "live", "deleted"}

PCs == {"idle", "check", "lock", "fn", "record", "commit", "publish", "recheck"}

Answers == {"none", "applied", "existing", "error"}

TypeOK ==
    /\ opSeq \in Nat
    /\ log \subseteq Row
    /\ table \in [Entities -> States]
    /\ tripGone \in BOOLEAN
    /\ lock \in Procs \cup {NoProc}
    /\ pc \in [Procs -> PCs]
    /\ req \in [Procs -> Requests]
    /\ ops \in [Procs -> Seq(Row)]
    /\ answer \in [Procs -> Answers]
    /\ published \subseteq Row

Init ==
    /\ opSeq = 0
    /\ log = {}
    /\ table = [e \in Entities |-> "absent"]
    /\ tripGone = FALSE
    /\ lock = NoProc
    /\ pc = [p \in Procs |-> "idle"]
    /\ req = [p \in Procs |-> [cid |-> NoCid, kind |-> "edit",
                                ent |-> CHOOSE e \in Entities : TRUE]]
    /\ ops = [p \in Procs |-> <<>>]
    /\ answer = [p \in Procs |-> "none"]
    /\ published = {}
-----------------------------------------------------------------------------
Goto(p, l) == pc' = [pc EXCEPT ![p] = l]

Answer(p, a) == answer' = [answer EXCEPT ![p] = a]

(* GetOpByClientOpID: the row committed under this client op id, if any. *)
FindByClientOpID(c) == {r \in log : c # NoCid /\ r.cid = c}

(* A request arrives: an operation frame (Submit) or a REST write, which    *)
(* goes straight to the service.                                            *)
Receive(p) ==
    /\ pc[p] = "idle"
    /\ opSeq + 2 <= MaxOpSeq
    /\ \/ \E c \in Intents :
            /\ req' = [req EXCEPT ![p] = [cid |-> c, kind |-> IntentKind[c],
                                          ent |-> IntentTarget[c]]]
            /\ Goto(p, "check")
       \/ \E k \in Kinds, e \in Entities :
            /\ req' = [req EXCEPT ![p] = [cid |-> NoCid, kind |-> k, ent |-> e]]
            /\ Goto(p, "lock")
    /\ Answer(p, "none")
    /\ UNCHANGED <<opSeq, log, table, tripGone, lock, ops, published>>

(* Engine.Submit's pre-check: answer with the row already committed.        *)
PreCheck(p) ==
    /\ pc[p] = "check"
    /\ IF FindByClientOpID(req[p].cid) # {}
         THEN Goto(p, "idle") /\ Answer(p, "existing")
         ELSE Goto(p, "lock") /\ UNCHANGED answer
    /\ UNCHANGED <<opSeq, log, table, tripGone, lock, req, ops, published>>

(* Mutant: a Postgres SEQUENCE, whose numbers do not roll back. *)
RollbackBurnsNumbers(p) ==
    /\ opSeq' = opSeq + Len(ops[p])
    /\ UNCHANGED <<log, table>>
    /\ ops' = [ops EXCEPT ![p] = <<>>]
    /\ lock' = IF lock = p THEN NoProc ELSE lock

(* Mutant: a rollback on the cancelled context, which fails and leaves the  *)
(* transaction open with its lock.                                          *)
RollbackLeaksLock(p) ==
    /\ UNCHANGED <<opSeq, log, table, lock>>
    /\ ops' = [ops EXCEPT ![p] = <<>>]

(* WithinTx rolling back: the rows this transaction appended and the        *)
(* sequence numbers it took vanish, and the row lock is released.           *)
Rollback(p) ==
    /\ UNCHANGED <<opSeq, log, table>>
    /\ ops' = [ops EXCEPT ![p] = <<>>]
    /\ lock' = IF lock = p THEN NoProc ELSE lock

(* Mutant: the transaction does not take the row lock first. *)
LockForWriteSkipped(p) ==
    /\ pc[p] = "lock"
    /\ IF tripGone
         THEN Rollback(p) /\ Goto(p, "idle") /\ Answer(p, "error")
         ELSE Goto(p, "fn") /\ UNCHANGED <<opSeq, log, table, lock, ops, answer>>
    /\ UNCHANGED <<tripGone, req, published>>

(* The transaction begins with LockTripForWrite, which waits for the row    *)
(* lock and answers ErrNotFound when the trip is deleted.                   *)
LockForWrite(p) ==
    /\ pc[p] = "lock"
    /\ lock = NoProc
    /\ IF tripGone
         THEN Rollback(p) /\ Goto(p, "idle") /\ Answer(p, "error")
         ELSE /\ lock' = p
              /\ Goto(p, "fn")
              /\ UNCHANGED <<opSeq, log, table, ops, answer>>
    /\ UNCHANGED <<tripGone, req, published>>

(* The service's mutation.  A create inserts under the client's id, which   *)
(* conflicts with a row of any age; everything else reads the live row and  *)
(* answers ErrNotFound without one.  (Votes are upserts: see the README.)   *)
Mutate(p) ==
    /\ pc[p] = "fn"
    /\ LET st == table[req[p].ent] IN
       \/ /\ IF req[p].kind = "create" THEN st = "absent" ELSE st = "live"
          /\ Goto(p, "record")
          /\ UNCHANGED <<opSeq, log, table, lock, ops, answer>>
       \/ /\ req[p].kind = "create" /\ st # "absent"
          /\ Rollback(p) /\ Goto(p, "recheck") /\ UNCHANGED answer
       \/ /\ req[p].kind # "create" /\ st # "live"
          /\ Rollback(p) /\ Goto(p, "idle") /\ Answer(p, "error")
    /\ UNCHANGED <<tripGone, req, published>>

(* NextOpSeq inside the transaction: the committed counter plus the numbers *)
(* this transaction has already taken.                                      *)
NextOpSeq(p) == opSeq + Len(ops[p]) + 1

(* Only the first operation of an intent carries the client op id; all of   *)
(* them carry it as their cause.                                            *)
NewRow(p) ==
    LET i == Len(ops[p]) + 1 IN
    [seq |-> NextOpSeq(p), cid |-> IF i = 1 THEN req[p].cid ELSE NoCid,
     cause |-> req[p].cid, kind |-> OpsOf(req[p].kind)[i], ent |-> req[p].ent]

(* Mutant: no unique index on (trip_id, client_op_id). *)
ConflictsSeqOnly(row) == \E r \in log : r.seq = row.seq

(* The unique indexes of trip_ops: (trip_id, seq) and (trip_id, client_op_id). *)
Conflicts(row) ==
    \E r \in log : r.seq = row.seq \/ (row.cid # NoCid /\ r.cid = row.cid)

(* Mutant: the operation is published as it is recorded, inside the         *)
(* transaction.                                                             *)
RecordPublishing(p) ==
    /\ pc[p] = "record"
    /\ IF Conflicts(NewRow(p))
         THEN Rollback(p) /\ Goto(p, "recheck") /\ UNCHANGED published
         ELSE /\ ops' = [ops EXCEPT ![p] = Append(@, NewRow(p))]
              /\ published' = published \cup {NewRow(p)}
              /\ Goto(p, IF Len(ops[p]) + 1 = Len(OpsOf(req[p].kind))
                           THEN "commit" ELSE "record")
              /\ UNCHANGED <<opSeq, log, table, lock>>
    /\ UNCHANGED <<tripGone, req, answer>>

(* recorder.record: allocate a number and append one operation.             *)
Record(p) ==
    /\ pc[p] = "record"
    /\ IF Conflicts(NewRow(p))
         THEN Rollback(p) /\ Goto(p, "recheck")
         ELSE /\ ops' = [ops EXCEPT ![p] = Append(@, NewRow(p))]
              /\ Goto(p, IF Len(ops[p]) + 1 = Len(OpsOf(req[p].kind))
                           THEN "commit" ELSE "record")
              /\ UNCHANGED <<opSeq, log, table, lock>>
    /\ UNCHANGED <<tripGone, req, answer, published>>

(* The mutation the transaction carries, as it becomes visible.             *)
Effect(p) ==
    LET e == req[p].ent IN
    [table EXCEPT ![e] = CASE req[p].kind = "create" -> "live"
                           [] req[p].kind \in {"delete", "cascade"} -> "deleted"
                           [] OTHER -> @]

(* Mutant: the log row is written outside the transaction, and is lost. *)
CommitTxLogless(p) ==
    /\ table' = Effect(p)
    /\ lock' = NoProc
    /\ UNCHANGED <<opSeq, log>>

CommitTx(p) ==
    /\ opSeq' = opSeq + Len(ops[p])
    /\ log' = log \cup {ops[p][i] : i \in 1..Len(ops[p])}
    /\ table' = Effect(p)
    /\ lock' = NoProc

(* tx.Commit succeeds; the row lock is gone before Publish is called.       *)
Commit(p) ==
    /\ pc[p] = "commit"
    /\ CommitTx(p)
    /\ Goto(p, "publish")
    /\ UNCHANGED <<tripGone, req, ops, answer, published>>

(* tx.Commit reaches the server but its answer is lost (the connection      *)
(* drops, the context is cancelled): WithinTx returns an error, nothing is  *)
(* published and the caller is told the write failed.                       *)
CommitUnacknowledged(p) ==
    /\ pc[p] = "commit"
    /\ CommitTx(p)
    /\ ops' = [ops EXCEPT ![p] = <<>>]
    /\ Goto(p, "idle")
    /\ Answer(p, "error")
    /\ UNCHANGED <<tripGone, req, published>>

(* oplog.write after the commit: hand recorder.ops to the publisher.        *)
Publish(p) ==
    /\ pc[p] = "publish"
    /\ published' = published \cup {ops[p][i] : i \in 1..Len(ops[p])}
    /\ ops' = [ops EXCEPT ![p] = <<>>]
    /\ Goto(p, "idle")
    /\ Answer(p, "applied")
    /\ UNCHANGED <<opSeq, log, table, tripGone, lock, req>>

(* Mutant: ErrAlreadyExists is taken for a replay without looking it up. *)
RecheckBlind(p) ==
    /\ pc[p] = "recheck"
    /\ Goto(p, "idle")
    /\ Answer(p, "existing")
    /\ UNCHANGED <<opSeq, log, table, tripGone, lock, req, ops, published>>

(* Submit after ErrAlreadyExists: look the client op id up again, and pass  *)
(* the error on when there is no such row.                                  *)
Recheck(p) ==
    /\ pc[p] = "recheck"
    /\ Goto(p, "idle")
    /\ Answer(p, IF FindByClientOpID(req[p].cid) # {} THEN "existing" ELSE "error")
    /\ UNCHANGED <<opSeq, log, table, tripGone, lock, req, ops, published>>

(* Any other error before the commit: a failed read, an authorization or    *)
(* validation error, a version conflict, a deadline while waiting for the   *)
(* lock, a failed commit.                                                   *)
Fail(p) ==
    /\ pc[p] \in {"check", "lock", "fn", "record", "commit"}
    /\ Rollback(p)
    /\ Goto(p, "idle")
    /\ Answer(p, "error")
    /\ UNCHANGED <<tripGone, req, published>>

(* The instance serving the request dies.  Postgres rolls the transaction   *)
(* back; a transaction already committed stays, unpublished.                *)
Crash(p) ==
    /\ pc[p] # "idle"
    /\ Rollback(p)
    /\ Goto(p, "idle")
    /\ Answer(p, "none")
    /\ UNCHANGED <<tripGone, req, published>>

(* TripService.Delete: an UPDATE of the trip's row, so it waits for the     *)
(* row lock too.                                                            *)
DeleteTrip ==
    /\ lock = NoProc
    /\ ~tripGone
    /\ tripGone' = TRUE
    /\ UNCHANGED <<opSeq, log, table, lock, pc, req, ops, answer, published>>

Step(p) ==
    \/ PreCheck(p) \/ LockForWrite(p) \/ Mutate(p) \/ Record(p)
    \/ Commit(p) \/ Publish(p) \/ Recheck(p)

Next ==
    \/ \E p \in Procs : Receive(p) \/ Step(p) \/ CommitUnacknowledged(p)
                        \/ Fail(p) \/ Crash(p)
    \/ DeleteTrip

Spec == Init /\ [][Next]_vars

(* A goroutine that can run does; Postgres queues the waiters of a row lock *)
(* in order, so a waiter is served.                                         *)
Fairness == \A p \in Procs : WF_vars(Step(p)) /\ SF_vars(LockForWrite(p))

FairSpec == Spec /\ Fairness
-----------------------------------------------------------------------------
(***************************************************************************)
(* Properties                                                              *)
(***************************************************************************)

(* D61: op_seq rolls back with its transaction, so the committed rows carry *)
(* exactly the numbers 1..op_seq, each once, whatever transactions failed,  *)
(* crashed or lost their commit's answer.  Room.fill and Replica.Apply both *)
(* read contiguity as completeness.                                         *)
LogGapless ==
    /\ {r.seq : r \in log} = 1..opSeq
    /\ \A r, s \in log : r.seq = s.seq => r = s

(* Submit is idempotent: however often a client op id is submitted, and     *)
(* from however many goroutines at once, the log holds either nothing of    *)
(* that intent or all of its operations, once, next to each other, with the *)
(* client op id on the first.                                               *)
IntentExactlyOnce ==
    /\ \A r \in log : r.cid # NoCid =>
          LET k == OpsOf(IntentKind[r.cid]) IN
          {q \in log : q.cause = r.cid} =
             {[seq |-> r.seq + i - 1, cid |-> IF i = 1 THEN r.cid ELSE NoCid,
               cause |-> r.cid, kind |-> k[i], ent |-> IntentTarget[r.cid]]
                 : i \in 1..Len(k)}
    /\ \A q \in log : q.cause # NoCid => \E r \in log : r.cid = q.cause

(* D70: only rows of committed transactions reach the publisher.            *)
PublishedIsCommitted == published \subseteq log

(* D1: a mutation and its log row commit together, so what the rows of an   *)
(* entity say happened to it is what its table row says.                    *)
TableMatchesLog ==
    \A e \in Entities :
        table[e] = IF \E r \in log : r.ent = e /\ r.kind = "delete" THEN "deleted"
                   ELSE IF \E r \in log : r.ent = e /\ r.kind = "create" THEN "live"
                   ELSE "absent"

(* A request answered with success has its operation in the log: neither    *)
(* the pre-check, the second look-up nor the normal path acknowledges an    *)
(* operation that was rolled back.                                          *)
AnswerTruthful ==
    \A p \in Procs :
        answer[p] \in {"applied", "existing"} /\ req[p].cid # NoCid
            => \E r \in log : r.cid = req[p].cid

(* The log is append-only, and an operation never becomes visible below a   *)
(* number a reader has already seen: what ListSince(n) returned is all      *)
(* there will ever be up to its last row.                                   *)
NoLateVisibility ==
    [][log \subseteq log' /\ \A r \in log' \ log : r.seq > opSeq]_vars

(* Every request is answered (or its instance died): nobody waits for the   *)
(* trip's row lock for ever.                                                *)
EveryRequestEnds == \A p \in Procs : pc[p] # "idle" ~> pc[p] = "idle"

(* queries/ops.sql on GetOpByClientOpID: a client that "retried must        *)
(* receive the operation it already committed".  A retry which finds the    *)
(* operation in the log when it gives its answer does not answer an error   *)
(* (in a trip that still exists).                                           *)
RetryReceivesOriginal ==
    [][\A p \in Procs :
          Step(p) /\ answer'[p] = "error" /\ ~tripGone
              => FindByClientOpID(req[p].cid) = {}]_vars
=============================================================================
