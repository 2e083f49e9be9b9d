------------------------------ MODULE Sockets ------------------------------
(***************************************************************************)
(* WebSocket handshakes and the revocation of live connections: tickets    *)
(* (transport/ws/ticket.go, ticket_redis.go), the handshake (handler.go),  *)
(* the registry of each server process (registry.go) and the channel that  *)
(* tells the other processes (pubsub/revocation.go).                       *)
(***************************************************************************)
EXTENDS Accounts

CONSTANTS
    Instances,      \* the server processes
    Tickets, Conns  \* identifiers; a ticket's is given out once

VARIABLES
    ticket,     \* ticket[k]: [user, session, spent], or Nil
    conn,       \* conn[c]: [user, session, at, stage, late], or Nil
    inflight,   \* revocations published to a peer and not yet received: [to, event]
    lost        \* revocations an instance is never told of: [to, event]

socketVars == <<ticket, conn, inflight, lost>>

TicketRows == [user : Users, session : Sessions, spent : BOOLEAN]

ConnStates ==
    [user : Users, session : Sessions, at : Instances, stage : {"handshake", "open", "closing"},
     late : BOOLEAN]

(* RevocationEvent: one session, or all of a user.                         *)
Events ==
    [scope : {"session"}, user : Users, session : Sessions] \cup
    [scope : {"user"}, user : Users, session : {Nil}]

TicketCalls == [op : {"ticket"}, pc : {"issue"}, session : Sessions]

ASSUME SocketsAssumption == Nil \notin TicketRows \cup ConnStates \cup TicketCalls

SocketsInit ==
    /\ ticket = [k \in Tickets |-> Nil]
    /\ conn = [c \in Conns |-> Nil]
    /\ inflight = {}
    /\ lost = {}

-----------------------------------------------------------------------------
(* Tickets                                                                 *)

(* RequireAuth: the bearer token is good and its session active.           *)
Authenticate(g, s) ==
    /\ Idle(g)
    /\ IsActive(s)
    /\ call' = [call EXCEPT ![g] = [op |-> "ticket", pc |-> "issue", session |-> s]]
    /\ UNCHANGED <<account, session, refreshToken, userToken, socketVars>>

IssueTicket(g, k) ==
    /\ At(g, "issue")
    /\ k \in Free(ticket)
    /\ ticket' = [ticket EXCEPT ![k] = [user |-> session[call[g].session].user,
                                        session |-> call[g].session, spent |-> FALSE]]
    /\ Done(g)
    /\ UNCHANGED <<account, session, refreshToken, userToken, conn, inflight, lost>>

Outstanding(k) == ticket[k] # Nil /\ ~ticket[k].spent

(* Lookup and removal are one step; nothing asks for the session.          *)
Redeem(k, c, at) ==
    /\ Outstanding(k)
    /\ c \in Free(conn)
    /\ ticket' = [ticket EXCEPT ![k].spent = TRUE]
    /\ conn' = [conn EXCEPT ![c] = [user |-> ticket[k].user, session |-> ticket[k].session,
                                    at |-> at, stage |-> "handshake", late |-> FALSE]]
    /\ UNCHANGED <<accountVars, inflight, lost>>

(* The thirty seconds are over (also when the sweep forgets it).           *)
ExpireTicket(k) ==
    /\ Outstanding(k)
    /\ ticket' = [ticket EXCEPT ![k].spent = TRUE]
    /\ UNCHANGED <<accountVars, conn, inflight, lost>>

-----------------------------------------------------------------------------
(* Connections                                                             *)

(* websocket.Accept refuses the handshake.                                 *)
AcceptFails(c) ==
    /\ conn[c] # Nil /\ conn[c].stage = "handshake"
    /\ conn' = [conn EXCEPT ![c] = Nil]
    /\ UNCHANGED <<accountVars, ticket, inflight, lost>>

(* Accepted, then registered; late records that its session was revoked by *)
(* then.                                                                   *)
Register(c) ==
    /\ conn[c] # Nil /\ conn[c].stage = "handshake"
    /\ conn' = [conn EXCEPT ![c].stage = "open",
                            ![c].late = session[conn[c].session].revoked # Nil]
    /\ UNCHANGED <<accountVars, ticket, inflight, lost>>

(* The client goes, or the connection reaches its greatest lifetime.       *)
Disconnect(c) ==
    /\ conn[c] # Nil /\ conn[c].stage = "open"
    /\ conn' = [conn EXCEPT ![c] = Nil]
    /\ UNCHANGED <<accountVars, ticket, inflight, lost>>

(* revoke: the frame that says why is written, or the drain timer fires.   *)
CloseDrained(c) ==
    /\ conn[c] # Nil /\ conn[c].stage = "closing"
    /\ conn' = [conn EXCEPT ![c] = Nil]
    /\ UNCHANGED <<accountVars, ticket, inflight, lost>>

-----------------------------------------------------------------------------
(* Revocation                                                              *)

(* RevocationEvent.Matches                                                 *)
Matches(event, u, s) ==
    event.user = u /\ (event.scope = "user" \/ event.session = s)

(* closeMatching: the registered connections of one instance; each is told *)
(* and closes when its frame is written or its drain timer fires.          *)
CloseMatching(at, event) ==
    [c \in Conns |->
        IF conn[c] # Nil /\ conn[c].stage # "handshake" /\ conn[c].at = at
           /\ Matches(event, conn[c].user, conn[c].session)
        THEN [conn[c] EXCEPT !.stage = "closing"]
        ELSE conn[c]]

To(instances, event) == {[to |-> i, event |-> event] : i \in instances}

(* Mutant: only the peers are told.                                        *)
PublishToPeers(g, at) ==
    LET event == call[g].event
        peers == Instances \ {at}
    IN /\ At(g, "announce")
       /\ \E reached \in SUBSET peers :
             /\ inflight' = inflight \cup To(reached, event)
             /\ lost' = lost \cup To(peers \ reached, event)
       /\ Done(g)
       /\ UNCHANGED <<account, session, refreshToken, userToken, ticket, conn>>

(* Mutant: the peers are not told.                                         *)
PublishLocally(g, at) ==
    /\ At(g, "announce")
    /\ conn' = CloseMatching(at, call[g].event)
    /\ Done(g)
    /\ UNCHANGED <<account, session, refreshToken, userToken, ticket, inflight, lost>>

(* Registry.Publish, on the instance that served the request: its own      *)
(* connections first, then the peers as far as Redis reaches them.         *)
Publish(g, at) ==
    LET event == call[g].event
        peers == Instances \ {at}
    IN /\ At(g, "announce")
       /\ conn' = CloseMatching(at, event)
       /\ \E reached \in SUBSET peers :
             /\ inflight' = inflight \cup To(reached, event)
             /\ lost' = lost \cup To(peers \ reached, event)
       /\ Done(g)
       /\ UNCHANGED <<account, session, refreshToken, userToken, ticket>>

(* Nobody is told: the user of the session cannot be looked up, or the      *)
(* answer to the commit of the revocation is lost and the request fails, or *)
(* the process dies before it publishes.                                   *)
AnnounceFails(g) ==
    /\ At(g, "announce")
    /\ lost' = lost \cup To(Instances, call[g].event)
    /\ Done(g)
    /\ UNCHANGED <<account, session, refreshToken, userToken, ticket, conn, inflight>>

(* Registry.Run on a peer.                                                 *)
Receive(m) ==
    /\ m \in inflight
    /\ conn' = CloseMatching(m.to, m.event)
    /\ inflight' = inflight \ {m}
    /\ UNCHANGED <<accountVars, ticket, lost>>

SocketRequest ==
    \/ \E g \in Goroutines, s \in Sessions : Authenticate(g, s)
    \/ \E k \in Tickets, c \in Conns, at \in Instances : Redeem(k, c, at)

(* What goroutine g does for a request, and what the connections and the   *)
(* channel do by themselves.                                               *)
SocketStep(g) ==
    \/ \E k \in Tickets : IssueTicket(g, k)
    \/ \E at \in Instances : Publish(g, at)
    \/ AnnounceFails(g)

ConnStep(c) ==
    \/ AcceptFails(c)
    \/ Register(c)
    \/ CloseDrained(c)

-----------------------------------------------------------------------------
SocketsTypeOK ==
    /\ ticket \in [Tickets -> TicketRows \cup {Nil}]
    /\ conn \in [Conns -> ConnStates \cup {Nil}]
    /\ inflight \in SUBSET [to : Instances, event : Events]
    /\ lost \in SUBSET [to : Instances, event : Events]

(***************************************************************************)
(* A connection never outlives its session unnoticed (domain/revocation.go):*)
(* one that stays open on a revoked session, and was registered while the  *)
(* session lived, is about to be told by the request that revoked it or by *)
(* a message on its way, or its instance's message was lost.               *)
(***************************************************************************)
RevokedSocketsExcused ==
    \A c \in Conns :
        (conn[c] # Nil /\ conn[c].stage = "open" /\ ~conn[c].late
            /\ session[conn[c].session].revoked # Nil) =>
          \/ \E g \in Goroutines :
                /\ At(g, "announce")
                /\ Matches(call[g].event, conn[c].user, conn[c].session)
          \/ \E m \in inflight \cup lost :
                m.to = conn[c].at /\ Matches(m.event, conn[c].user, conn[c].session)

(***************************************************************************)
(* And it does close (transport/ws/registry.go, closeMatching): a          *)
(* connection left open on a revoked session is closed without waiting for *)
(* its client or its greatest lifetime, unless it was registered late or   *)
(* the message that revokes it was lost on the way to its instance.         *)
(***************************************************************************)
RevocationReaches ==
    \A c \in Conns :
        (conn[c] # Nil /\ ~conn[c].late /\ session[conn[c].session].revoked # Nil)
            ~> \/ conn[c] = Nil
               \/ conn[c].late
               \/ \E m \in lost :
                     m.to = conn[c].at /\ Matches(m.event, conn[c].user, conn[c].session)
=============================================================================
