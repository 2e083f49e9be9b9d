------------------------------ MODULE Session ------------------------------
(***************************************************************************)
(* One client following one trip over its connection: Engine.Subscribe and *)
(* its replay, the gate that holds live events back meanwhile (gate.go),   *)
(* the connection's send buffer and handlers (ws/conn.go), the drop of a   *)
(* slow subscriber (room.broadcast), and the cursor of the web client      *)
(* (web/lib/socket.ts). What the page itself shows, which also comes over  *)
(* REST, is Page's subject.                                                *)
(*                                                                         *)
(* The room is what RoomDispatch is shown to implement, OrderedStream: the *)
(* subscriptions of this connection are in one room, so they share the     *)
(* operation they are offered next.                                        *)
(***************************************************************************)
EXTENDS Naturals, Sequences, FiniteSets

CONSTANTS Subs,       \* subscription handles
          Others,     \* other connections that enter and leave the room
          NoSub,      \* no subscription
          SendBuf,    \* capacity of conn.send
          GateCap,    \* gateBuffer
          Page,       \* resyncPage
          MaxResync,  \* maxResyncOps
          MaxOps,     \* bound of the model: operations ever committed
          MaxDrops,   \* bound of the model: drop goroutines counted per subscription
          MaxAsks     \* bound of the model: client frames in flight

ASSUME SessionAssumption ==
    /\ NoSub \notin Subs /\ IsFiniteSet(Subs)
    /\ {SendBuf, GateCap, Page} \subseteq Nat \ {0}
    /\ {MaxDrops, MaxAsks} \subseteq Nat \ {0}
    /\ {MaxResync, MaxOps} \subseteq Nat

VARIABLES
    head, due, offered,  \* the room: see OrderedStream
    open,        \* the subscriptions in the room whose gate is open
    buf,         \* what the gate of the subscription being set up holds
    drops,       \* per subscription: drop goroutines started, not finished
    connSub,     \* conn.subs[trip]
    send,        \* conn.send
    up,          \* the socket is open (conn.closed is not closed)
    rp,          \* the read pump, and the subscribe it is serving
    asks,        \* frames of the client the read pump has not read
    wants,       \* the client follows the trip (TripSocket.subscriptions.has)
    cursor,      \* the client's last sequence number; Null: none
    base,        \* the newest head a fresh start has told the client; what was
                 \* committed up to there is left to the page's load over REST
    seen,        \* the operations beyond base the socket has handed to its listeners
    withheld     \* operations a sink of the open connection refused, or a failed
                 \* replay left out, and that the client did not get otherwise

Stream == INSTANCE OrderedStream

streamVars == <<head, due, offered>>
clientVars == <<wants, cursor, base, seen>>
vars == <<streamVars, open, buf, drops, connSub, send, up, rp, asks, clientVars, withheld>>

Null == MaxOps + 1
Seqs == 1..MaxOps

(* Frames to the client.  A "fresh" frame is a `subscribed` which answers a  *)
(* subscribe without since_seq; presence, error and unsubscribed frames      *)
(* only take room ("other").                                                 *)
OpFrame(n) == [type |-> "op", seq |-> n]
Other == [type |-> "other", seq |-> 0]
Resync == [type |-> "resync", seq |-> 0]
Frames == [type : {"op", "subscribed", "fresh", "other", "resync"}, seq : 0..MaxOps]

SubscribeAsk(since) == [type |-> "subscribe", since |-> since]
UnsubscribeAsk == [type |-> "unsubscribe", since |-> Null]
Asks == [type : {"subscribe", "unsubscribe"}, since : 0..Null]

Idle == [pc |-> "idle", sub |-> NoSub, from |-> 0, fresh |-> FALSE,
         cursor |-> 0, end |-> 0, more |-> FALSE, err |-> FALSE]

Pumps == [pc : {"idle", "bye", "join", "announce", "replace", "hello", "list",
                "replay", "flush"},
          sub : Subs \cup {NoSub}, from : 0..MaxOps, fresh : BOOLEAN,
          cursor : 0..MaxOps, end : 0..MaxOps, more : BOOLEAN, err : BOOLEAN]

TypeOK ==
    /\ head \in 0..MaxOps
    /\ due \in [Subs -> 0..MaxOps + 1]
    /\ offered \in [Subs -> 0..MaxOps]
    /\ open \subseteq Subs
    /\ buf \in Seq(Frames) /\ Len(buf) <= GateCap
    /\ drops \in [Subs -> 0..MaxDrops]
    /\ connSub \in Subs \cup {NoSub}
    /\ send \in Seq(Frames) /\ Len(send) <= SendBuf
    /\ up \in BOOLEAN
    /\ rp \in Pumps
    /\ asks \in Seq(Asks)
    /\ wants \in BOOLEAN
    /\ cursor \in 0..Null
    /\ base \in 0..MaxOps
    /\ seen \subseteq Seqs
    /\ withheld \subseteq Seqs

Init ==
    /\ Stream!Init
    /\ open = {}
    /\ buf = <<>>
    /\ drops = [s \in Subs |-> 0]
    /\ connSub = NoSub
    /\ send = <<>>
    /\ up = FALSE
    /\ rp = Idle
    /\ asks = <<>>
    /\ wants = FALSE
    /\ cursor = Null
    /\ base = 0
    /\ seen = {}
    /\ withheld = {}
-----------------------------------------------------------------------------
Live == {s \in Subs : due[s] > 0}

(* A handle nobody refers to stands for the next one to be allocated.        *)
Unused(s) == due[s] = 0 /\ drops[s] = 0 /\ connSub # s /\ rp.sub # s

(* What the socket has handed over, is about to read, or is left to REST.    *)
Coming == 1..base \cup seen \cup {send[k].seq : k \in {i \in 1..Len(send) : send[i].type = "op"}}

(* Mutant: off by one in the send buffer's capacity. *)
QueueOneMore(frame) ==
    /\ up' = (up /\ Len(send) <= SendBuf)
    /\ send' = IF up' THEN Append(send, frame) ELSE <<>>

(* conn.queueRaw: a full buffer closes the connection, and what is in it is  *)
(* never written.                                                            *)
Queue(frame) ==
    /\ up' = (up /\ Len(send) < SendBuf)
    /\ send' = IF up' THEN Append(send, frame) ELSE <<>>

(* Mutant: release opens the gate first and then flushes, without the lock. *)
GateUnlocked(s) ==
    CASE s \in open -> "open"
      [] s \notin open /\ rp.pc = "flush" /\ rp.sub = s -> "open"
      [] OTHER -> "shut"

(* The gate of a subscription.  release holds its lock from the first        *)
(* buffered event it passes on until the gate is open.                       *)
Gate(s) ==
    CASE s \in open -> "open"
      [] s \notin open /\ rp.pc = "flush" /\ rp.sub = s -> "locked"
      [] OTHER -> "shut"

(***************************************************************************)
(* room.broadcast to the subscriptions S.  A gate that is shut buffers, up *)
(* to its capacity; an open one passes the event to conn.Deliver, which    *)
(* refuses it when the send buffer is full.  A refusal starts a goroutine  *)
(* that drops the subscription.  A broadcast waits for a gate's lock.      *)
(* What becomes of events for a connection that is closed (refused, or     *)
(* left in its buffer) nobody can tell.                                    *)
(***************************************************************************)
Broadcast(S, frame) ==
    LET through  == {s \in S : Gate(s) = "open"}
        room     == SendBuf - Len(send)
        buffered == {s \in S : Gate(s) = "shut" /\ Len(buf) < GateCap}
    IN  \/ /\ ~up
           /\ UNCHANGED <<send, buf, drops, withheld>>
        \/ /\ up
           /\ \A s \in S : Gate(s) # "locked"
           /\ buf' = IF buffered # {} THEN Append(buf, frame) ELSE buf
           /\ \E sent \in SUBSET through :
                 /\ Cardinality(sent) = IF Cardinality(through) <= room
                                          THEN Cardinality(through) ELSE room
                 /\ send' = send \o [k \in 1..Cardinality(sent) |-> frame]
                 /\ LET no == S \ (sent \cup buffered) IN
                    /\ drops' = [s \in Subs |-> IF s \in no /\ drops[s] < MaxDrops
                                                 THEN drops[s] + 1 ELSE drops[s]]
                    /\ withheld' = IF no # {} /\ frame.type = "op"
                                     THEN withheld \cup ({frame.seq} \ Coming) ELSE withheld

(* Subscription.Close: leave the room, and tell the others so.               *)
CloseSub(s) ==
    /\ Stream!Leave({s})
    /\ open' = open \ {s}
    /\ Broadcast(Live \ {s}, Other)

(* Somebody's transaction commits.                                           *)
Commit ==
    /\ head < MaxOps
    /\ head' = head + 1
    /\ Stream!Commit
    /\ UNCHANGED <<open, buf, drops, connSub, send, up, rp, asks, clientVars, withheld>>

(* The room's dispatcher broadcasts the next operation.                      *)
Offer ==
    /\ Live # {}
    /\ Stream!Offer(Live)
    /\ Broadcast(Live, OpFrame(due[CHOOSE s \in Live : TRUE]))
    /\ UNCHANGED <<open, connSub, up, rp, asks, clientVars>>

(* Another connection enters or leaves the room.                             *)
Presence(m) ==
    /\ Live # {}
    /\ Broadcast(Live, Other)
    /\ UNCHANGED <<streamVars, open, connSub, up, rp, asks, clientVars>>
-----------------------------------------------------------------------------
(* The goroutine broadcast starts for a refused event: Subscription.Close,    *)
(* which happens once, and then conn.Dropped.                                *)
DropClose(s) ==
    /\ drops[s] > 0
    /\ s \in Live
    /\ CloseSub(s)
    /\ UNCHANGED <<connSub, up, rp, asks, clientVars>>

Dropped(s) ==
    /\ drops[s] > 0
    /\ s \notin Live
    /\ drops' = [drops EXCEPT ![s] = @ - 1]
    /\ connSub' = NoSub
    /\ Queue(Resync)
    /\ UNCHANGED <<streamVars, open, buf, rp, asks, clientVars, withheld>>

(* The operation a frame hands to the listeners.                             *)
Handed(f) == IF f.type = "op" THEN {f.seq} ELSE {}

(* writePump: a frame reaches the client, which handles it (handleFrame).    *)
(* A `subscribed` frame moves the cursor and brings no operation.            *)
WriteFrame ==
    /\ up /\ send # <<>>
    /\ send' = Tail(send)
    /\ LET f == Head(send) IN
       \/ /\ f.type = "op"
          /\ cursor' = IF wants THEN f.seq ELSE cursor
          /\ UNCHANGED <<wants, base, asks>>
       \/ /\ f.type \in {"subscribed", "fresh"}
          /\ cursor' = f.seq
          /\ wants' = TRUE
          /\ base' = IF f.type = "fresh" /\ f.seq > base THEN f.seq ELSE base
          /\ UNCHANGED asks
       \/ /\ f.type = "resync"
          /\ Len(asks) < MaxAsks
          /\ cursor' = Null
          /\ wants' = TRUE
          /\ asks' = Append(asks, SubscribeAsk(Null))
          /\ UNCHANGED base
       \/ /\ f.type = "other"
          /\ UNCHANGED <<wants, cursor, base, asks>>
    /\ seen' = {n \in seen \cup Handed(Head(send)) : n > base'}
    /\ withheld' = {n \in withheld \ Handed(Head(send)) : n > base'}
    /\ UNCHANGED <<streamVars, open, buf, drops, connSub, up, rp>>

(* A write, a read or a ping fails, the lifetime ends, or the session is     *)
(* revoked.                                                                  *)
Disconnect ==
    /\ up
    /\ up' = FALSE
    /\ send' = <<>>
    /\ UNCHANGED <<streamVars, open, buf, drops, connSub, rp, asks, clientVars, withheld>>

(* conn.run after both pumps returned: shutdown.  From here on whatever the  *)
(* connection still had in the room writes to a socket nobody reads.         *)
Shutdown ==
    /\ ~up /\ rp.pc = "idle"
    /\ Stream!Leave(Live)
    /\ connSub' = NoSub
    /\ asks' = <<>>
    /\ open' = {}
    /\ drops' = [s \in Subs |-> 0]
    /\ UNCHANGED <<buf, send, up, rp, clientVars, withheld>>

(* The client connects, and subscribes to what it follows from its cursor.   *)
Connect ==
    /\ ~up /\ rp.pc = "idle"
    /\ connSub = NoSub /\ asks = <<>> /\ Live = {} /\ \A s \in Subs : drops[s] = 0
    /\ wants
    /\ up' = TRUE
    /\ asks' = <<SubscribeAsk(cursor)>>
    /\ UNCHANGED <<streamVars, open, buf, drops, connSub, send, rp, clientVars, withheld>>

(* A page that shows the trip is opened, and subscribes on an open           *)
(* connection (TripSocket.subscribe).                                        *)
OpenPage ==
    /\ Len(asks) < MaxAsks
    /\ wants' = TRUE
    /\ cursor' = IF wants THEN cursor ELSE Null
    /\ asks' = IF up THEN Append(asks, SubscribeAsk(cursor')) ELSE asks
    /\ UNCHANGED <<streamVars, open, buf, drops, connSub, send, up, rp, base, seen, withheld>>

(* TripSocket.unsubscribe.                                                   *)
LeavePage ==
    /\ wants
    /\ Len(asks) < MaxAsks
    /\ wants' = FALSE
    /\ cursor' = Null
    /\ asks' = IF up THEN Append(asks, UnsubscribeAsk) ELSE asks
    /\ UNCHANGED <<streamVars, open, buf, drops, connSub, send, up, rp, base, seen, withheld>>
-----------------------------------------------------------------------------
(***************************************************************************)
(* The read pump.  It serves one frame at a time.                          *)
(***************************************************************************)
Asked(type) == up /\ rp.pc = "idle" /\ asks # <<>> /\ Head(asks).type = type

(* handleUnsubscribe: forget and close the subscription, then answer.        *)
HandleUnsubscribe ==
    /\ Asked("unsubscribe")
    /\ asks' = Tail(asks)
    /\ connSub' = NoSub
    /\ IF connSub \in Live THEN CloseSub(connSub)
       ELSE UNCHANGED <<streamVars, open, buf, send, drops, withheld>>
    /\ rp' = [rp EXCEPT !.pc = "bye"]
    /\ UNCHANGED <<up, clientVars>>

Unsubscribed ==
    /\ rp.pc = "bye"
    /\ Queue(Other)
    /\ rp' = Idle
    /\ UNCHANGED <<streamVars, open, buf, drops, connSub, asks, clientVars, withheld>>

(* Engine.Subscribe reads the head, and refuses a cursor beyond it or too    *)
(* far behind before it joins anything.  (Subs bounds the model: a handle    *)
(* must be left.)                                                            *)
HandleSubscribe ==
    /\ Asked("subscribe")
    /\ \E s \in Subs : Unused(s)
    /\ asks' = Tail(asks)
    /\ LET since == Head(asks).since IN
       IF since # Null /\ (since > head \/ head - since > MaxResync)
         THEN Queue(Resync) /\ UNCHANGED rp
         ELSE /\ rp' = [Idle EXCEPT !.pc = "join", !.fresh = (since = Null),
                                    !.from = IF since = Null THEN head ELSE since]
              /\ UNCHANGED <<send, up>>
    /\ UNCHANGED <<streamVars, open, buf, drops, connSub, clientVars, withheld>>

(* ... or the membership check or the read fails, and the client is sent an  *)
(* error.                                                                    *)
SubscribeFails ==
    /\ Asked("subscribe")
    /\ asks' = Tail(asks)
    /\ Queue(Other)
    /\ UNCHANGED <<streamVars, open, buf, drops, connSub, rp, clientVars, withheld>>

(* Broker.Subscribe with a new gate: into the room, wherever it stands.      *)
Join(s) ==
    /\ rp.pc = "join"
    /\ Unused(s)
    /\ Stream!Join(s)
    /\ \A t \in Live : due'[s] = due[t]
    /\ rp' = [rp EXCEPT !.pc = "announce", !.sub = s]
    /\ UNCHANGED <<open, buf, drops, connSub, send, up, asks, clientVars, withheld>>

(* ... which then announces the arrival to everybody in it.                  *)
Announce ==
    /\ rp.pc = "announce"
    /\ Broadcast(Live, Other)
    /\ rp' = [rp EXCEPT !.pc = "replace"]
    /\ UNCHANGED <<streamVars, open, connSub, up, asks, clientVars>>

(* handleSubscribe: close the subscription this one replaces.                *)
Replace ==
    /\ rp.pc = "replace"
    /\ IF connSub \in Live THEN CloseSub(connSub)
       ELSE UNCHANGED <<streamVars, open, buf, send, drops, withheld>>
    /\ connSub' = rp.sub
    /\ rp' = [rp EXCEPT !.pc = "hello"]
    /\ UNCHANGED <<up, asks, clientVars>>

(* Mutant: a fresh subscriber is not replayed to; it joined at the head. *)
HelloFreshSkipsReplay ==
    /\ rp.pc = "hello"
    /\ Queue([type |-> IF rp.fresh THEN "fresh" ELSE "subscribed", seq |-> rp.from])
    /\ rp' = [rp EXCEPT !.pc = IF rp.fresh THEN "flush" ELSE "list",
                        !.cursor = rp.from]
    /\ UNCHANGED <<streamVars, open, buf, drops, connSub, asks, clientVars, withheld>>

(* The `subscribed` frame goes first; the replay starts where it says.       *)
Hello ==
    /\ rp.pc = "hello"
    /\ Queue([type |-> IF rp.fresh THEN "fresh" ELSE "subscribed", seq |-> rp.from])
    /\ rp' = [rp EXCEPT !.pc = "list", !.cursor = rp.from]
    /\ UNCHANGED <<streamVars, open, buf, drops, connSub, asks, clientVars, withheld>>

(* Read a page of the log.  A short page is the last.                        *)
ListPage ==
    /\ rp.pc = "list"
    /\ LET got == IF head - rp.cursor < Page THEN head - rp.cursor ELSE Page IN
       rp' = [rp EXCEPT !.pc = "replay", !.end = rp.cursor + got, !.more = (got = Page)]
    /\ UNCHANGED <<streamVars, open, buf, drops, connSub, send, up, asks, clientVars, withheld>>

(* The replay returns an error, having delivered up to n.                    *)
AbandonReplay(n) ==
    /\ rp' = [rp EXCEPT !.pc = "flush", !.err = TRUE]
    /\ withheld' = IF up THEN withheld \cup ((n + 1)..head \ Coming) ELSE withheld

(* Deliver one operation of it, waiting for space in the send buffer; give   *)
(* up past MaxResync; go on to the next page, or open the gate.              *)
ReplayOne ==
    /\ rp.pc = "replay"
    /\ IF rp.cursor < rp.end
         THEN /\ up /\ Len(send) < SendBuf
              /\ send' = Append(send, OpFrame(rp.cursor + 1))
              /\ IF rp.cursor + 1 - rp.from > MaxResync
                   THEN AbandonReplay(rp.cursor + 1)
                   ELSE rp' = [rp EXCEPT !.cursor = @ + 1] /\ UNCHANGED withheld
         ELSE /\ rp' = [rp EXCEPT !.pc = IF rp.more THEN "list" ELSE "flush"]
              /\ UNCHANGED <<send, withheld>>
    /\ UNCHANGED <<streamVars, open, buf, drops, connSub, up, asks, clientVars>>

(* A log read fails, or a full buffer outlasts replayMaxWait.                *)
ReplayFails ==
    /\ \/ rp.pc = "list"
       \/ rp.pc = "replay" /\ rp.cursor < rp.end /\ (Len(send) = SendBuf \/ ~up)
    /\ AbandonReplay(rp.cursor)
    /\ UNCHANGED <<streamVars, open, buf, drops, connSub, send, up, asks, clientVars>>

(* gate.release passes the next buffered event on; one the connection        *)
(* refuses is gone.                                                          *)
FlushOne ==
    /\ rp.pc = "flush"
    /\ buf # <<>>
    /\ buf' = Tail(buf)
    /\ LET f == Head(buf) IN
       IF up /\ Len(send) < SendBuf
         THEN send' = Append(send, f) /\ UNCHANGED withheld
         ELSE /\ withheld' = IF up /\ f.type = "op" THEN withheld \cup ({f.seq} \ Coming) ELSE withheld
              /\ UNCHANGED send
    /\ UNCHANGED <<streamVars, open, drops, connSub, up, rp, asks, clientVars>>

(* Mutant: the gate stays shut when the replay failed. *)
ReleasedUnlessFailed ==
    /\ rp.pc = "flush"
    /\ buf = <<>>
    /\ open' = IF rp.sub \in Live /\ ~rp.err THEN open \cup {rp.sub} ELSE open
    /\ IF rp.err THEN Queue(Resync) ELSE UNCHANGED <<send, up>>
    /\ rp' = Idle
    /\ UNCHANGED <<streamVars, buf, drops, connSub, asks, clientVars, withheld>>

(* The buffer is flushed: the gate opens, whatever happened before.  A       *)
(* replay that failed ends in a resync frame.                                *)
Released ==
    /\ rp.pc = "flush"
    /\ buf = <<>>
    /\ open' = IF rp.sub \in Live THEN open \cup {rp.sub} ELSE open
    /\ IF rp.err THEN Queue(Resync) ELSE UNCHANGED <<send, up>>
    /\ rp' = Idle
    /\ UNCHANGED <<streamVars, buf, drops, connSub, asks, clientVars, withheld>>

ReadPump ==
    \/ HandleUnsubscribe \/ Unsubscribed \/ HandleSubscribe \/ SubscribeFails
    \/ \E s \in Subs : Join(s)
    \/ Announce \/ Replace \/ Hello \/ ListPage \/ ReplayOne \/ ReplayFails
    \/ FlushOne \/ Released

(* What happens without the page noticing.                                   *)
Unnoticed ==
    \/ Commit \/ Offer
    \/ \E m \in Others : Presence(m)
    \/ \E s \in Subs : DropClose(s) \/ Dropped(s)
    \/ Disconnect \/ Shutdown \/ Connect
    \/ ReadPump

Next == Unnoticed \/ WriteFrame \/ OpenPage \/ LeavePage

Spec == Init /\ [][Next]_vars

(* The two pumps run, and the room offers what it owes                       *)
(* (RoomDispatch!EveryOpOffered).                                            *)
Fairness == WF_vars(ReadPump) /\ WF_vars(WriteFrame) /\ WF_vars(Offer)

FairSpec == Spec /\ Fairness
-----------------------------------------------------------------------------
(***************************************************************************)
(* Properties                                                              *)
(***************************************************************************)

(* The socket has handed over every operation between the head its last      *)
(* fresh start was told and its cursor, over any sequence of connections,    *)
(* subscriptions, replays and drops, except those a sink refused or a failed *)
(* replay left out.  (A head that is stale when the room is joined, a room   *)
(* that is behind the log, a subscription that replaces another: the gate    *)
(* and the overlap cover them.)  What was committed up to that head comes    *)
(* over REST or not at all: Page says what of it can be missing.             *)
SeenUpToCursor ==
    wants /\ cursor # Null => base + 1..cursor \subseteq seen \cup withheld

(* What a gate still holds, while the replay runs and while it is flushed,   *)
(* is contiguous and ends where the room stands (unless it overflowed and    *)
(* its subscription is being dropped): behind each operation in the buffer   *)
(* come the next ones, in order, up to the one the room offers next.  No     *)
(* live event overtakes the buffer it was supposed to queue behind.          *)
GateHoldsStream ==
    up /\ rp.sub \in Live /\ drops[rp.sub] = 0
        => \A i \in 1..Len(buf) : buf[i].type = "op" =>
              /\ buf[i].seq < due[rp.sub]
              /\ \A j \in i + 1..Len(buf) : buf[j].type = "op" => buf[j].seq > buf[i].seq
              /\ \A n \in buf[i].seq + 1..due[rp.sub] - 1 :
                    \E j \in i + 1..Len(buf) : buf[j] = OpFrame(n)

(* A subscription that stays in its room brings every operation committed    *)
(* after the client's last fresh start to the socket, whether its replay     *)
(* works or fails, unless the connection closes or the operation is withheld.*)
SubscriberCatchesUp ==
    \A s \in Subs, n \in Seqs :
        (connSub = s /\ s \in Live /\ n <= head)
            ~> (n \in seen \cup withheld \/ n <= base \/ connSub # s \/ s \notin Live \/ ~up)

(* ws/conn.go on Deliver: "The broker closes the subscription on the error,  *)
(* the client reconnects, and the operation log has everything it missed".   *)
(* A client that connects with a cursor has been handed every operation      *)
(* between its last fresh start and that cursor.                             *)
ResumeLosesNothing ==
    [][Connect /\ cursor # Null => base + 1..cursor \subseteq seen]_vars

(* gate.go on the gate's buffer: "a subscriber that exceeds it is dropped    *)
(* and told to resync - the same rule as every other buffer here".  When an  *)
(* operation is withheld from a client, its subscription is being dropped or *)
(* its replay has failed; either ends in a resync frame.                     *)
WithheldIsTold ==
    [][\A n \in withheld' \ withheld :
          rp'.err \/ \E s \in Subs : drops'[s] > 0]_vars

(* ws/conn.go: "Re-subscribing replaces the old subscription rather than     *)
(* accumulating a second one, which would double every broadcast to this     *)
(* connection".  A subscription in the room that nobody is closing is the    *)
(* connection's own, or the one being set up.                                *)
OneSubscription ==
    \A s \in Live : drops[s] = 0 /\ up => s \in {connSub, rp.sub}
=============================================================================
