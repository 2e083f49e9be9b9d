------------------------------- MODULE Server -------------------------------
(***************************************************************************)
(* Accounts, sessions and their live connections (Sockets), the members    *)
(* and invitations of a trip (Membership) and its files (Media), served by *)
(* one pool of goroutines.                                                 *)
(***************************************************************************)
EXTENDS Sockets, Media

CONSTANT Budgets   \* bounds on the requests: [account, roster, media], one is chosen initially

VARIABLE budget

vars == <<accountVars, socketVars, rosterVars, mediaVars, budget>>

Init ==
    /\ AccountsInit
    /\ SocketsInit
    /\ RosterInit
    /\ MediaInit
    /\ (trip = Nil) <=> (\A u \in Users : account[u] = Nil)   \* a fresh database, or one in use
    /\ budget \in Budgets

(* What clients and the clock begin.                                       *)
Request ==
    \/ /\ budget.account > 0
       /\ budget' = [budget EXCEPT !.account = @ - 1]
       /\ (AccountRequest /\ UNCHANGED socketVars) \/ SocketRequest
       /\ UNCHANGED <<rosterVars, mediaVars>>
    \/ /\ budget.roster > 0
       /\ budget' = [budget EXCEPT !.roster = @ - 1]
       /\ \/ RosterRequest /\ UNCHANGED mediaVars
          \/ \E g \in Goroutines, u \in People : TripCreate(g, u)
       /\ UNCHANGED socketVars
    \/ /\ budget.media > 0
       /\ budget' = [budget EXCEPT !.media = @ - 1]
       /\ MediaRequest
       /\ UNCHANGED socketVars

(* A goroutine goes on with its request.                                   *)
Serve(g) ==
    /\ \/ AccountStep(g) /\ UNCHANGED <<socketVars, rosterVars, mediaVars>>
       \/ SocketStep(g) /\ UNCHANGED <<rosterVars, mediaVars>>
       \/ RosterStep(g) /\ UNCHANGED <<socketVars, mediaVars>>
       \/ MediaStep(g) /\ UNCHANGED socketVars
    /\ UNCHANGED budget

(* Connections and the channel between instances.                          *)
Proceed(c) == ConnStep(c) /\ UNCHANGED <<rosterVars, mediaVars, budget>>

Hear == (\E m \in inflight : Receive(m)) /\ UNCHANGED <<rosterVars, mediaVars, budget>>

(* What may happen and need not.                                           *)
Leave ==
    /\ \/ (\E c \in Conns : Disconnect(c)) /\ UNCHANGED <<rosterVars, mediaVars>>
       \/ (\E k \in Tickets : ExpireTicket(k)) /\ UNCHANGED <<rosterVars, mediaVars>>
       \/ MediaTime /\ UNCHANGED socketVars
    /\ UNCHANGED budget

Next ==
    \/ Request
    \/ \E g \in Goroutines : Serve(g)
    \/ \E c \in Conns : Proceed(c)
    \/ Hear
    \/ Leave

(***************************************************************************)
(* Goroutines are scheduled, the handshake has a deadline, the drain timer *)
(* of a closing connection fires, and the subscriber of the revocation     *)
(* channel reads what Redis delivers. Nothing is assumed of clients or of  *)
(* time.                                                                   *)
(***************************************************************************)
Fairness ==
    /\ \A g \in Goroutines : WF_vars(Serve(g))
    /\ \A c \in Conns : WF_vars(Proceed(c))
    /\ WF_vars(Hear)

Spec == Init /\ [][Next]_vars /\ Fairness

-----------------------------------------------------------------------------
(* The request a goroutine serves.                                         *)
Calls ==
    AccountCalls \cup TicketCalls \cup InviteCalls \cup RedeemCalls \cup MediaCalls \cup FileCalls
        \cup CoverCalls \cup DiscardCalls \cup SweepCalls \cup TombstoneCalls

(* The foreign keys.                                                       *)
AccountReferences ==
    /\ \A s \in Sessions : session[s] # Nil => account[session[s].user] # Nil
    /\ \A t \in RefreshTokens : refreshToken[t] # Nil =>
          /\ session[refreshToken[t].session] # Nil
          /\ refreshToken[t].used <=> refreshToken[t].replaced_by # Nil
          /\ refreshToken[t].used => refreshToken[refreshToken[t].replaced_by] # Nil
    /\ \A k \in UserTokens : userToken[k] # Nil => account[userToken[k].user] # Nil

SocketReferences ==
    /\ \A k \in Tickets : ticket[k] # Nil =>
          session[ticket[k].session] # Nil /\ session[ticket[k].session].user = ticket[k].user
    /\ \A c \in Conns : conn[c] # Nil =>
          session[conn[c].session] # Nil /\ session[conn[c].session].user = conn[c].user

RosterReferences ==
    /\ \A u \in People : member[u] # Nil => trip # Nil
    /\ \A i \in Invites : invite[i] # Nil => trip # Nil

(* The rows a request has found.                                           *)
FoundRows(x) ==
    /\ x.op = "login" => account[x.user] # Nil
    /\ x.op = "refresh" => refreshToken[x.token] # Nil
    /\ x.op = "revoke" => /\ session[x.session] # Nil
                          /\ x.event.session = x.session
                          /\ x.event.user = session[x.session].user
    /\ x.op = "link" => userToken[x.token] # Nil
    /\ x.op = "ticket" => session[x.session] # Nil
    /\ x.op = "invite" => trip # Nil
    /\ x.op = "redeem" => invite[x.invite] # Nil

FoundFiles(x) ==
    x.op = "media" =>
        /\ x.subject \in Attachments => attachment[x.subject] # Nil
        /\ x.subject \in Covers => upload[x.subject] # Nil
        /\ x.pc \in {"sweep", "tombstone"} => \A a \in x.todo : attachment[a] # Nil

CallReferences == \A g \in Goroutines : call[g] # Nil => FoundRows(call[g])

MediaReferences ==
    /\ \A g \in Goroutines : call[g] # Nil => FoundFiles(call[g])
    /\ cover.source = "uploaded" => cover.key \in Covers /\ upload[cover.key] # Nil

(***************************************************************************)
(* The tables and calls keep their shape, and every reference points at a  *)
(* row: a refresh token and a connection have a session, a session has an  *)
(* account, a redemption has an invitation (the foreign keys).             *)
(***************************************************************************)
TypeOK ==
    /\ AccountsTypeOK /\ SocketsTypeOK /\ RosterTypeOK /\ MediaTypeOK
    /\ call \in [Goroutines -> Calls \cup {Nil}]
    /\ AccountReferences /\ SocketReferences /\ RosterReferences
    /\ CallReferences /\ MediaReferences
=============================================================================
