---------------------------- MODULE RoomDispatch ----------------------------
(***************************************************************************)
(* The broker's rooms: how a committed operation reaches the subscribers   *)
(* of a trip on several instances (syncengine/broker.go, room.go, and the  *)
(* Redis fan-out of pubsub/redis.go).                                      *)
(*                                                                         *)
(* One trip.  Its log is the numbers 1..head (OpLog!LogGapless), and an    *)
(* operation is its sequence number.  Each instance has at most one room   *)
(* for the trip, with the state of its dispatch goroutine: the number it   *)
(* owes next, the operations it holds back, its inbox and whether its      *)
(* reorder timer is armed.                                                 *)
(***************************************************************************)
EXTENDS Naturals, Sequences, FiniteSets

CONSTANTS Instances,  \* server processes
          Subs,       \* subscriptions
          Home,       \* the instance each subscriber connects to
          InboxCap,   \* roomInbox
          Page,       \* maxOpBatch: rows one ListSince returns
          MaxBatch,   \* operations one transaction commits, at most
          MaxOps      \* bound of the model: operations ever committed

ASSUME RoomAssumption ==
    /\ Home \in [Subs -> Instances]
    /\ InboxCap \in Nat \ {0}
    /\ Page \in Nat \ {0}
    /\ MaxBatch \in Nat \ {0}
    /\ MaxOps \in Nat

VARIABLES
    head,     \* trips.op_seq: the log is 1..head
    unsent,   \* per instance: batches committed there and not yet published
    wire,     \* per instance: peers' operations on their way through Redis
    member,   \* per instance: subs of the trip's room; {} means no room
    next,     \* per instance: dispatch's next
    pending,  \* per instance: operations held back
    inbox,    \* per instance: the room's inbox channel
    armed,    \* per instance: the reorder timer runs (gapC # nil)
    readHead, \* per subscriber: the head Engine.Subscribe read; NoHead if none
    offered   \* per subscriber: the operations broadcast to its sink

roomVars == <<member, next, pending, inbox, armed>>
vars == <<head, unsent, wire, member, next, pending, inbox, armed, readHead, offered>>

Seqs == 1..MaxOps
Batches == {b \in Seqs \X Seqs : b[1] <= b[2]}

NoHead == MaxOps + 1

RoomOpen(i) == member[i] # {}

TypeOK ==
    /\ head \in 0..MaxOps
    /\ unsent \in [Instances -> SUBSET Batches]
    /\ wire \in [Instances -> SUBSET Seqs]
    /\ member \in [Instances -> SUBSET Subs]
    /\ next \in [Instances -> 1..MaxOps + 1]
    /\ pending \in [Instances -> SUBSET Seqs]
    /\ inbox \in [Instances -> Seq(Seqs)]
    /\ \A i \in Instances : Len(inbox[i]) <= InboxCap
    /\ armed \in [Instances -> BOOLEAN]
    /\ readHead \in [Subs -> 0..NoHead]
    /\ offered \in [Subs -> Seq(Seqs)]

Init ==
    /\ head = 0
    /\ unsent = [i \in Instances |-> {}]
    /\ wire = [i \in Instances |-> {}]
    /\ member = [i \in Instances |-> {}]
    /\ next = [i \in Instances |-> 1]
    /\ pending = [i \in Instances |-> {}]
    /\ inbox = [i \in Instances |-> <<>>]
    /\ armed = [i \in Instances |-> FALSE]
    /\ readHead = [s \in Subs |-> NoHead]
    /\ offered = [s \in Subs |-> <<>>]
-----------------------------------------------------------------------------
(* Mutant: the batch is published although its transaction may roll back. *)
CommitOrRollBack(i, k) ==
    /\ head + k <= MaxOps
    /\ head' \in {head, head + k}
    /\ unsent' = [unsent EXCEPT ![i] = @ \cup {<<head + 1, head + k>>}]
    /\ UNCHANGED <<wire, roomVars, readHead, offered>>

(* A transaction served by instance i commits k operations.                 *)
Commit(i, k) ==
    /\ head + k <= MaxOps
    /\ head' = head + k
    /\ unsent' = [unsent EXCEPT ![i] = @ \cup {<<head + 1, head + k>>}]
    /\ UNCHANGED <<wire, roomVars, readHead, offered>>

(* Mutant: off by one in the inbox's capacity. *)
EnqueueOneMore(i, from, to) ==
    LET space == InboxCap + 1 - Len(inbox[i])
        last  == IF to - from + 1 <= space THEN to ELSE from + space - 1
    IN  IF RoomOpen(i)
          THEN [inbox EXCEPT ![i] = @ \o [k \in 1..(last - from + 1) |-> from + k - 1]]
          ELSE inbox

(* enqueue, for the operations of a batch in order: dropped when there is no *)
(* room and when the inbox is full.                                          *)
Enqueue(i, from, to) ==
    LET space == InboxCap - Len(inbox[i])
        last  == IF to - from + 1 <= space THEN to ELSE from + space - 1
    IN  IF RoomOpen(i)
          THEN [inbox EXCEPT ![i] = @ \o [k \in 1..(last - from + 1) |-> from + k - 1]]
          ELSE inbox

(* Broker.Publish, after the commit and outside the row lock: batches reach *)
(* it in any order.  The local room first, then the peers through Redis,    *)
(* which may fail, or lose any of the messages (external).                  *)
Publish(i, b) ==
    /\ b \in unsent[i]
    /\ unsent' = [unsent EXCEPT ![i] = @ \ {b}]
    /\ inbox' = Enqueue(i, b[1], b[2])
    /\ \E got \in [Instances \ {i} -> SUBSET (b[1]..b[2])] :
          wire' = [j \in Instances |-> IF j = i THEN wire[j] ELSE wire[j] \cup got[j]]
    /\ UNCHANGED <<head, member, next, pending, armed, readHead, offered>>

(* The publisher dies between its commit and Publish, or the commit's       *)
(* answer was lost: the batch is in the log and nobody is told.             *)
LosePublish(i, b) ==
    /\ b \in unsent[i]
    /\ unsent' = [unsent EXCEPT ![i] = @ \ {b}]
    /\ UNCHANGED <<head, wire, roomVars, readHead, offered>>

(* OpTransport.Run hands a peer's operation to enqueue.  Redis orders       *)
(* nothing across publishers.                                               *)
PeerDeliver(i, n) ==
    /\ n \in wire[i]
    /\ wire' = [wire EXCEPT ![i] = @ \ {n}]
    /\ inbox' = Enqueue(i, n, n)
    /\ UNCHANGED <<head, unsent, member, next, pending, armed, readHead, offered>>
-----------------------------------------------------------------------------
(* Engine.Subscribe reads the head before it joins the room.                *)
ReadHead(s) ==
    /\ s \notin member[Home[s]]
    /\ readHead[s] = NoHead
    /\ readHead' = [readHead EXCEPT ![s] = head]
    /\ UNCHANGED <<head, unsent, wire, roomVars, offered>>

(* Mutant: every subscriber moves the room to the head it read. *)
SubscribeMovesRoom(s) ==
    LET i == Home[s] IN
    /\ readHead[s] # NoHead
    /\ member' = [member EXCEPT ![i] = @ \cup {s}]
    /\ next' = [next EXCEPT ![i] = readHead[s] + 1]
    /\ readHead' = [readHead EXCEPT ![s] = NoHead]
    /\ UNCHANGED <<head, unsent, wire, pending, inbox, armed, offered>>

(* Broker.Subscribe.  The head is used only when this call opens the room:  *)
(* its dispatcher starts at headSeq + 1, with nothing held.                 *)
Subscribe(s) ==
    LET i == Home[s] IN
    /\ readHead[s] # NoHead
    /\ member' = [member EXCEPT ![i] = @ \cup {s}]
    /\ next' = IF RoomOpen(i) THEN next ELSE [next EXCEPT ![i] = readHead[s] + 1]
    /\ readHead' = [readHead EXCEPT ![s] = NoHead]
    /\ UNCHANGED <<head, unsent, wire, pending, inbox, armed, offered>>

(* Broker.remove for the subscribers in S of one instance: a room left      *)
(* empty is deleted and its dispatcher stopped.                             *)
Remove(i, S) ==
    LET rest == member[i] \ S IN
    /\ member' = [member EXCEPT ![i] = rest]
    /\ offered' = [s \in Subs |-> IF s \in S THEN <<>> ELSE offered[s]]
    /\ IF rest = {}
         THEN /\ next' = [next EXCEPT ![i] = 1]
              /\ pending' = [pending EXCEPT ![i] = {}]
              /\ inbox' = [inbox EXCEPT ![i] = <<>>]
              /\ armed' = [armed EXCEPT ![i] = FALSE]
         ELSE UNCHANGED <<next, pending, inbox, armed>>

(* Subscription.Close: unsubscribe, disconnect, or dropped for being slow.  *)
Close(s) ==
    /\ s \in member[Home[s]]
    /\ Remove(Home[s], {s})
    /\ UNCHANGED <<head, unsent, wire, readHead>>

(* The instance dies, with its rooms and what it had not yet published.     *)
Crash(i) ==
    /\ Remove(i, member[i])
    /\ unsent' = [unsent EXCEPT ![i] = {}]
    /\ wire' = [wire EXCEPT ![i] = {}]
    /\ readHead' = [s \in Subs |-> IF Home[s] = i THEN NoHead ELSE readHead[s]]
    /\ UNCHANGED head
-----------------------------------------------------------------------------
(* The dispatch goroutine.  It is in drain while next is among the held     *)
(* operations, and back in its select when it is not.                       *)
Selecting(i) == RoomOpen(i) /\ next[i] \notin pending[i]

(* What drain will leave behind of a set of held operations.                *)
Residue(i, held) == {n \in held : ~(next[i]..n \subseteq held)}

(* One turn of drain: broadcast the next operation to whoever is in the     *)
(* room, and move on.                                                       *)
Drain(i) ==
    /\ RoomOpen(i)
    /\ next[i] \in pending[i]
    /\ pending' = [pending EXCEPT ![i] = @ \ {next[i]}]
    /\ offered' = [s \in Subs |-> IF s \in member[i] THEN Append(offered[s], next[i])
                                  ELSE offered[s]]
    /\ next' = [next EXCEPT ![i] = @ + 1]
    /\ UNCHANGED <<head, unsent, wire, member, inbox, armed, readHead>>

(* Mutant: the room adopts the first operation to arrive as its position. *)
TakeInboxAdopting(i) ==
    /\ Selecting(i)
    /\ inbox[i] # <<>>
    /\ LET n == Head(inbox[i]) IN
           /\ pending' = [pending EXCEPT ![i] = @ \cup {n}]
           /\ next' = [next EXCEPT ![i] = n]
           /\ armed' = [armed EXCEPT ![i] = FALSE]
    /\ inbox' = [inbox EXCEPT ![i] = Tail(@)]
    /\ UNCHANGED <<head, unsent, wire, member, readHead, offered>>

(* case op := <-r.inbox: hold it unless it was already delivered, drain,    *)
(* and run the reorder timer exactly while something is still held.         *)
TakeInbox(i) ==
    /\ Selecting(i)
    /\ inbox[i] # <<>>
    /\ LET n    == Head(inbox[i])
           held == IF n >= next[i] THEN pending[i] \cup {n} ELSE pending[i]
       IN  /\ pending' = [pending EXCEPT ![i] = held]
           /\ armed' = [armed EXCEPT ![i] = Residue(i, held) # {}]
    /\ inbox' = [inbox EXCEPT ![i] = Tail(@)]
    /\ UNCHANGED <<head, unsent, wire, member, next, readHead, offered>>

(* ListSince(next - 1): one page of the log from next on.                   *)
ListSince(i) == {n \in next[i]..head : n < next[i] + Page}

(* fill with a successful read, then drain and arm.                         *)
Fill(i, wasArmed) ==
    LET held == pending[i] \cup ListSince(i) IN
    /\ pending' = [pending EXCEPT ![i] = held]
    /\ armed' = [armed EXCEPT ![i] = wasArmed \/ Residue(i, held) # {}]

(* Mutant: the timer is not armed again after a read that failed. *)
GapFiresOnce(i) ==
    /\ Selecting(i)
    /\ armed[i]
    /\ \/ pending[i] # {} /\ Fill(i, FALSE)
       \/ /\ armed' = [armed EXCEPT ![i] = FALSE]
          /\ UNCHANGED pending
    /\ UNCHANGED <<head, unsent, wire, member, next, inbox, readHead, offered>>

(* case <-gapC: nothing to do if nothing is held any more; the read may fail. *)
GapFires(i) ==
    /\ Selecting(i)
    /\ armed[i]
    /\ \/ pending[i] # {} /\ Fill(i, FALSE)
       \/ /\ armed' = [armed EXCEPT ![i] = pending[i] # {}]
          /\ UNCHANGED pending
    /\ UNCHANGED <<head, unsent, wire, member, next, inbox, readHead, offered>>

(* Mutant: only a room that holds something looks for what it missed. *)
ReconcileHolding(i) ==
    /\ Selecting(i)
    /\ pending[i] # {}
    /\ Fill(i, armed[i])
    /\ UNCHANGED <<head, unsent, wire, member, next, inbox, readHead, offered>>

(* case <-reconcile.C: compare next with the trip's op_seq, and fill unless *)
(* caught up with nothing held.                                             *)
Reconcile(i) ==
    /\ Selecting(i)
    /\ head >= next[i] \/ pending[i] # {}
    /\ Fill(i, armed[i])
    /\ UNCHANGED <<head, unsent, wire, member, next, inbox, readHead, offered>>

(* ... when one of its reads fails: only the timer may be armed.            *)
ReconcileFails(i) ==
    /\ Selecting(i)
    /\ armed' = [armed EXCEPT ![i] = @ \/ pending[i] # {}]
    /\ UNCHANGED <<head, unsent, wire, member, next, pending, inbox, readHead, offered>>

Next ==
    \/ \E i \in Instances :
          \/ \E k \in 1..MaxBatch : Commit(i, k)
          \/ \E b \in Batches : Publish(i, b) \/ LosePublish(i, b)
          \/ \E n \in Seqs : PeerDeliver(i, n)
          \/ Drain(i) \/ TakeInbox(i) \/ GapFires(i) \/ Reconcile(i) \/ ReconcileFails(i)
          \/ Crash(i)
    \/ \E s \in Subs : ReadHead(s) \/ Subscribe(s) \/ Close(s)

Spec == Init /\ [][Next]_vars

(* The dispatcher runs; its ticker fires, and a log read eventually works.  *)
(* Nothing is assumed of publishers, Redis or the reorder timer.            *)
Fairness ==
    \A i \in Instances : WF_vars(Drain(i)) /\ WF_vars(TakeInbox(i)) /\ WF_vars(Reconcile(i))

FairSpec == Spec /\ Fairness
-----------------------------------------------------------------------------
(***************************************************************************)
(* Properties                                                              *)
(***************************************************************************)

(* What each subscriber is owed: the room's next.                           *)
Due == [s \in Subs |-> IF s \in member[Home[s]] THEN next[Home[s]] ELSE 0]

LastOffered == [s \in Subs |-> IF offered[s] = <<>> THEN 0 ELSE offered[s][Len(offered[s])]]

Stream == INSTANCE OrderedStream WITH due <- Due, offered <- LastOffered

(* The rooms implement OrderedStream: each subscriber is offered the log    *)
(* from where it joined on, in order and without a gap, and it joins no     *)
(* later than the end of the log, however publications are reordered, lost, *)
(* duplicated or dropped by a full inbox, and whatever reads fail.          *)
ImplementsOrderedStream == Stream!Spec

(* What a room knows of is in the log: nothing it holds, or that is on its  *)
(* way to it, is beyond the head, and it has not moved past the head.       *)
NeverAheadOfLog ==
    \A i \in Instances :
        /\ next[i] <= head + 1
        /\ pending[i] \cup wire[i] \subseteq 1..head
        /\ \A k \in 1..Len(inbox[i]) : inbox[i][k] \in 1..head
        /\ \A b \in unsent[i] : b[2] <= head

(* The invariant room.go says the type exists to hold: what a sink was      *)
(* offered since it joined is contiguous and ends where the room stands.    *)
SinkSeesContiguous ==
    \A s \in Subs : \A k \in 1..Len(offered[s]) :
        offered[s][k] + Len(offered[s]) = next[Home[s]] + k - 1

(* While the dispatcher waits with an operation held back, the reorder      *)
(* timer runs: a hole is looked for in the log after the reorder window,    *)
(* also after a repair that failed or fetched only a page.                  *)
TimerRunsWhileHolding ==
    \A i \in Instances : Selecting(i) /\ pending[i] # {} => armed[i]

(* Every committed operation reaches every subscriber that stays, with no   *)
(* help from any publication: the reconcile tick alone brings it.           *)
EveryOpOffered ==
    \A s \in Subs : \A n \in Seqs :
        (Due[s] = n /\ n <= head) ~> (Due[s] # n)
=============================================================================
