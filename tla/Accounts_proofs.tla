-------------------------- MODULE Accounts_proofs --------------------------
(***************************************************************************)
(* What accounts, sessions and sockets promise: refresh tokens rotate in a *)
(* line, a password reset severs the sessions of the old password, and a   *)
(* socket left open on a revoked session is about to be told or its        *)
(* message was lost.                                                       *)
(***************************************************************************)
EXTENDS Server_proofs

-----------------------------------------------------------------------------
(* Refresh tokens                                                           *)

(* The table of refresh tokens is written by a login, a rotation and time.  *)
LEMMA TokenWriters ==
  ASSUME TypeOK, [Next]_vars
  PROVE  \/ UNCHANGED refreshToken
         \/ \E g \in Goroutines, s \in Sessions, t \in RefreshTokens : OpenSession(g, s, t)
         \/ \E g \in Goroutines, t \in RefreshTokens :
               Rotate(g, t) /\ ~refreshToken[call[g].token].used
         \/ \E t \in RefreshTokens : ExpireRefreshToken(t)
<1>1. CASE AccountMoves
  <2>1. \/ UNCHANGED refreshToken
        \/ \E g \in Goroutines, s \in Sessions, t \in RefreshTokens : OpenSession(g, s, t)
        \/ \E g \in Goroutines, t \in RefreshTokens : Rotate(g, t)
        \/ \E t \in RefreshTokens : ExpireRefreshToken(t)
    BY <1>1 DEF AccountMoves, AccountRequest, AccountStep, Signup, Login, Refresh, Logout, RevokeSession,
       FollowLink, RequestPasswordReset, ExpireSession, ExpireUserToken, Rehash, GetSession, Revoke,
       RevokeFails, Consume, WriteAccount
  <2>2. \A g \in Goroutines, t \in RefreshTokens :
           Rotate(g, t) /\ refreshToken[call[g].token].used => UNCHANGED refreshToken
    BY DEF Rotate
  <2> QED
    BY <2>1, <2>2
<1>2. CASE SocketMoves
  BY <1>2, SocketEffects DEF SocketMoves, SocketEffect
<1>3. CASE RosterMoves
  BY <1>3, RosterEffects DEF RosterMoves, RosterEffect
<1>4. CASE FileMoves
  BY <1>4, MediaEffects DEF FileMoves, MediaEffect
<1>5. CASE UNCHANGED vars
  BY <1>5 DEF vars, accountVars
<1> QED
  BY <1>1, <1>2, <1>3, <1>4, <1>5, NextCases

(* A login's first token belongs to a session no other token has.           *)
LEMMA OpenSessionLinear ==
  ASSUME TypeOK, RotationLinear,
         NEW g \in Goroutines, NEW s \in Sessions, NEW t \in RefreshTokens, OpenSession(g, s, t)
  PROVE  RotationLinear'
<1> DEFINE new == CreateRefreshToken(s)
<1>1. session[s] = Nil /\ refreshToken[t] = Nil
  BY FreeId DEF OpenSession
<1>2. refreshToken' = [refreshToken EXCEPT ![t] = new]
  BY DEF OpenSession
<1>3. new.session = s /\ ~new.used /\ new.replaced_by = Nil
  BY DEF CreateRefreshToken
<1> HIDE DEF new
<1>4. \A a \in RefreshTokens : refreshToken'[a] = IF a = t THEN new ELSE refreshToken[a]
  BY <1>2 DEF TypeOK, AccountsTypeOK
<1>5. \A a \in RefreshTokens : refreshToken[a] # Nil => refreshToken[a].session # s
  BY <1>1, TokenSession
<1> QED
  BY <1>3, <1>4, <1>5 DEF RotationLinear

(* A rotation spends the one token that could be exchanged, for a new one.  *)
LEMMA RotateLinear ==
  ASSUME TypeOK, RotationLinear, NEW g \in Goroutines, NEW t \in RefreshTokens, Rotate(g, t),
         ~refreshToken[call[g].token].used
  PROVE  RotationLinear'
<1> DEFINE old == call[g].token
           spent == [refreshToken[old] EXCEPT !.used = TRUE, !.replaced_by = t]
           new == CreateRefreshToken(refreshToken[old].session)
<1>1. /\ old \in RefreshTokens /\ old # t /\ refreshToken[old] # Nil /\ refreshToken[t] = Nil
      /\ refreshToken[old] \in RefreshTokenRows
      /\ refreshToken'[old] = spent
      /\ refreshToken'[t] = new
      /\ \A a \in RefreshTokens \ {old, t} : refreshToken'[a] = refreshToken[a]
  BY RotatedTokens
<1>2. /\ spent.session = refreshToken[old].session /\ spent.used /\ spent.replaced_by = t
      /\ new.session = refreshToken[old].session /\ ~new.used /\ new.replaced_by = Nil
  BY <1>1 DEF CreateRefreshToken, RefreshTokenRows
<1>3. ~refreshToken[old].used
  OBVIOUS
<1> HIDE DEF spent, new, old
<1>4. \A a \in RefreshTokens : refreshToken[a] # Nil => refreshToken[a].replaced_by # t
  BY <1>1, TokenSession, AccountsAssumption DEF TypeOK, AccountReferences, RefreshTokenRows
<1>5. \A a \in RefreshTokens \ {old} :
         refreshToken[a] # Nil /\ refreshToken[a].session = refreshToken[old].session => refreshToken[a].used
  BY <1>1, <1>3 DEF RotationLinear
<1>6. t # Nil
  BY AccountsAssumption
<1>7. SUFFICES ASSUME NEW a \in RefreshTokens, NEW b \in RefreshTokens, a # b,
                      refreshToken'[a] # Nil, refreshToken'[b] # Nil
               PROVE  /\ (refreshToken'[a].session = refreshToken'[b].session)
                            => refreshToken'[a].used \/ refreshToken'[b].used
                      /\ (refreshToken'[a].replaced_by # Nil)
                            => refreshToken'[a].replaced_by # refreshToken'[b].replaced_by
  BY DEF RotationLinear
<1>8. CASE a = old \/ b = old
  BY <1>1, <1>2, <1>4, <1>6, <1>7, <1>8
<1>9. CASE a # old /\ b # old
  BY <1>1, <1>2, <1>4, <1>5, <1>7, <1>9 DEF RotationLinear
<1> QED
  BY <1>8, <1>9

(* Time changes nothing about the chain.                                    *)
LEMMA ExpireLinear ==
  ASSUME TypeOK, RotationLinear, NEW t \in RefreshTokens, ExpireRefreshToken(t)
  PROVE  RotationLinear'
<1> DEFINE row == [refreshToken[t] EXCEPT !.expired = TRUE]
<1>1. refreshToken[t] \in RefreshTokenRows /\ refreshToken[t] # Nil
  BY DEF ExpireRefreshToken, TypeOK, AccountsTypeOK
<1>2. /\ row.session = refreshToken[t].session
      /\ row.used = refreshToken[t].used /\ row.replaced_by = refreshToken[t].replaced_by
  BY <1>1 DEF RefreshTokenRows
<1>3. refreshToken' = [refreshToken EXCEPT ![t] = row]
  BY DEF ExpireRefreshToken
<1> HIDE DEF row
<1>4. \A a \in RefreshTokens : refreshToken'[a] = IF a = t THEN row ELSE refreshToken[a]
  BY <1>3 DEF TypeOK, AccountsTypeOK
<1> QED
  BY <1>1, <1>2, <1>4 DEF RotationLinear

(***************************************************************************)
(* A rotation chain never forks (repository/session.go,                    *)
(* MarkRefreshTokenUsed): however many refreshes race, a session has at    *)
(* most one token that can be exchanged, and no two tokens were exchanged  *)
(* for the same one.                                                       *)
(***************************************************************************)
THEOREM RotationNeverForks == Spec => []RotationLinear
<1>1. ASSUME Init PROVE RotationLinear
  <2>1. ASSUME NEW q, NEW row, refreshToken = [t \in RefreshTokens |-> IF t = q THEN row ELSE Nil]
        PROVE  RotationLinear
    BY <2>1 DEF RotationLinear
  <2>2. CASE refreshToken = [t \in RefreshTokens |-> Nil]
    BY <2>2 DEF RotationLinear
  <2> DEFINE q == CHOOSE id \in RefreshTokens : TRUE
             row == [session |-> CHOOSE id \in Sessions : TRUE, used |-> FALSE, replaced_by |-> Nil,
                     expired |-> FALSE]
  <2>3. \/ refreshToken = [t \in RefreshTokens |-> Nil]
        \/ refreshToken = [t \in RefreshTokens |-> IF t = q THEN row ELSE Nil]
    BY <1>1 DEF Init, AccountsInit
  <2> HIDE DEF q, row
  <2> QED
    BY <2>1, <2>2, <2>3
<1>2. TypeOK /\ RotationLinear /\ [Next]_vars => RotationLinear'
  <2>1. SUFFICES ASSUME TypeOK, RotationLinear, [Next]_vars PROVE RotationLinear'
    OBVIOUS
  <2>2. CASE UNCHANGED refreshToken
    BY <2>1, <2>2 DEF RotationLinear
  <2> QED
    BY <2>1, <2>2, TokenWriters, OpenSessionLinear, RotateLinear, ExpireLinear
<1> QED
  BY <1>1, <1>2, ServerTyped, PTL DEF Spec

-----------------------------------------------------------------------------
(* Sessions and passwords                                                   *)

(***************************************************************************)
(* A login about to upgrade a hash has read the account at some version,   *)
(* and as long as that is the account's version the password it compared   *)
(* is the account's. This is why the version under which rehashPassword    *)
(* writes keeps an old password from coming back.                          *)
(***************************************************************************)
PasswordsCurrent ==
    \A g \in Goroutines : At(g, "rehash") =>
        /\ call[g].version <= account[call[g].user].version
        /\ call[g].version = account[call[g].user].version
              => call[g].password = account[call[g].user].password

PasswordInv == PasswordsCurrent /\ ResetSeversSessions

NoNewRehash == \A h \in Goroutines : At(h, "rehash")' => call'[h] = call[h]

(* A request that ends, or goes on to another step, is no new upgrade.      *)
LEMMA NoRehash ==
  ASSUME TypeOK, NEW g \in Goroutines, NEW x, x = Nil \/ x.pc # "rehash", call' = [call EXCEPT ![g] = x]
  PROVE  NoNewRehash
<1>1. \A h \in Goroutines : call'[h] = IF h = g THEN x ELSE call[h]
  BY DEF TypeOK
<1> QED
  BY <1>1 DEF NoNewRehash, At

(* A request that goes on keeps what it has read and is at the new step.     *)
LEMMA GoesOn ==
  ASSUME TypeOK, NEW g \in Goroutines, NEW pc, call[g] \in AccountCalls, Goto(g, pc)
  PROVE  /\ call' = [call EXCEPT ![g] = [call[g] EXCEPT !.pc = pc]]
         /\ [call[g] EXCEPT !.pc = pc].pc = pc
<1> DEFINE y == call[g]
<1>1. y \in AccountCalls
  OBVIOUS
<1>2. call' = [call EXCEPT ![g] = [y EXCEPT !.pc = pc]]
  BY DEF Goto
<1> HIDE DEF y
<1>3. "pc" \in DOMAIN y
  BY <1>1 DEF AccountCalls, LoginCalls, RefreshCalls, RevokeCalls, ConsumeCalls, WriteCalls, ResetCalls
<1>4. [y EXCEPT !.pc = pc].pc = pc
  BY <1>3
<1> QED
  BY <1>2, <1>4 DEF y

(* Steps that write neither accounts nor sessions.                          *)
LEMMA PasswordsUntouched ==
  ASSUME TypeOK, PasswordInv, UNCHANGED <<account, session>>, NoNewRehash
  PROVE  PasswordInv'
<1>1. ResetSeversSessions'
  BY DEF PasswordInv, ResetSeversSessions, IsActive
<1>2. \A h \in Goroutines : At(h, "rehash")' => At(h, "rehash")
  BY DEF NoNewRehash, At
<1>3. PasswordsCurrent'
  BY <1>2 DEF PasswordInv, PasswordsCurrent, NoNewRehash
<1> QED
  BY <1>1, <1>3 DEF PasswordInv

(* Requests on sockets, the roster and files.                               *)
LEMMA OthersKeepPasswords ==
  ASSUME TypeOK, PasswordInv, SocketMoves \/ RosterMoves \/ FileMoves
  PROVE  PasswordInv'
<1>1. CASE RosterMoves \/ FileMoves
  <2>1. /\ UNCHANGED <<account, session>>
        /\ CallStep(RosterCalls) \/ CallStep(AllMediaCalls)
    BY <1>1, RosterEffects, MediaEffects DEF RosterMoves, FileMoves, RosterEffect, MediaEffect
  <2>2. \A x \in RosterCalls \cup AllMediaCalls : x.pc # "rehash"
    BY CallSteps DEF RosterCalls, AllMediaCalls
  <2>3. NoNewRehash
    BY <2>1, <2>2, NoRehash DEF CallStep, NoNewRehash
  <2> QED
    BY <2>1, <2>3, PasswordsUntouched
<1>2. CASE SocketMoves
  <2>1. UNCHANGED <<account, session>>
    BY <1>2, SocketEffects DEF SocketMoves, SocketEffect
  <2>2. ASSUME NEW g \in Goroutines, NEW s \in Sessions, Authenticate(g, s) PROVE NoNewRehash
    <3> DEFINE x == [op |-> "ticket", pc |-> "issue", session |-> s]
    <3>1. x.pc # "rehash" /\ call' = [call EXCEPT ![g] = x]
      BY <2>2 DEF Authenticate
    <3> HIDE DEF x
    <3> QED
      BY <3>1, NoRehash
  <2>3. ASSUME NEW g \in Goroutines, Done(g) PROVE NoNewRehash
    BY <2>3, NoRehash DEF Done
  <2>4. ASSUME UNCHANGED call PROVE NoNewRehash
    BY <2>4 DEF NoNewRehash, At
  <2>5. NoNewRehash
    BY <1>2, <2>2, <2>3, <2>4 DEF SocketMoves, SocketRequest, SocketStep, ConnStep, IssueTicket, Redeem,
       ExpireTicket, AcceptFails, Register, Disconnect, CloseDrained, Publish, AnnounceFails, Receive,
       accountVars
  <2> QED
    BY <2>1, <2>5, PasswordsUntouched
<1> QED
  BY <1>1, <1>2

(* An account that is new has no session and no login under way.            *)
LEMMA SignupPasswords ==
  ASSUME TypeOK, PasswordInv, NEW u \in Users, NEW p, NEW k, Signup(u, p, k)
  PROVE  PasswordInv'
<1>1. /\ account[u] = Nil /\ UNCHANGED <<session, call>>
      /\ \A w \in Users \ {u} : account'[w] = account[w]
  BY DEF Signup, TypeOK, AccountsTypeOK
<1>2. \A s \in Sessions : session[s] # Nil => session[s].user \in Users /\ session[s].user # u
  BY <1>1 DEF TypeOK, AccountsTypeOK, AccountReferences, SessionRows
<1>3. ResetSeversSessions'
  BY <1>1, <1>2 DEF PasswordInv, ResetSeversSessions, IsActive
<1>4. \A g \in Goroutines : At(g, "rehash") => call[g].user \in Users /\ call[g].user # u
  BY <1>1, LoginCall
<1>5. PasswordsCurrent'
  BY <1>1, <1>4 DEF PasswordInv, PasswordsCurrent, At
<1> QED
  BY <1>3, <1>5 DEF PasswordInv

(* Login keeps the password invariant.                                       *)
LEMMA LoginPasswords ==
  ASSUME TypeOK, PasswordInv, NEW g \in Goroutines, NEW u \in Users, NEW p \in Passwords, Login(g, u, p)
  PROVE  PasswordInv'
<1>1. PICK pc \in {"rehash", "open"} :
         call' = [call EXCEPT ![g] = [op |-> "login", pc |-> pc, user |-> u,
                                      password |-> p, version |-> account[u].version]]
  BY DEF Login
<1> DEFINE x == [op |-> "login", pc |-> pc, user |-> u, password |-> p, version |-> account[u].version]
<1>2. x.user = u /\ x.password = account[u].password /\ x.version = account[u].version
  BY DEF Login
<1>3. account[u].version \in Nat
  BY DEF Login, TypeOK, AccountsTypeOK, AccountRows
<1>4. \A h \in Goroutines : call'[h] = IF h = g THEN x ELSE call[h]
  BY <1>1 DEF TypeOK
<1> HIDE DEF x
<1>5. UNCHANGED <<account, session>>
  BY DEF Login
<1>6. PasswordsCurrent'
  BY <1>2, <1>3, <1>4, <1>5 DEF PasswordInv, PasswordsCurrent, At
<1>7. ResetSeversSessions'
  BY <1>5 DEF PasswordInv, ResetSeversSessions, IsActive
<1> QED
  BY <1>6, <1>7 DEF PasswordInv

(* An account is written under the version it was read at: logins that read *)
(* it before have an older one.                                             *)
LEMMA VersionPasses ==
  ASSUME TypeOK, PasswordsCurrent, NEW u \in Users, account[u] # Nil,
         NEW p \in Passwords, NEW v \in BOOLEAN, UpdateUser(u, p, v), NoNewRehash
  PROVE  PasswordsCurrent'
<1>1. /\ account[u].version \in Nat
      /\ account'[u].version = account[u].version + 1
      /\ \A w \in Users \ {u} : account'[w] = account[w]
  BY UpdateUserTyped DEF TypeOK
<1>2. \A h \in Goroutines : At(h, "rehash")' => At(h, "rehash") /\ call'[h] = call[h]
  BY DEF NoNewRehash, At
<1>3. \A h \in Goroutines : At(h, "rehash") => call[h].user \in Users /\ call[h].version \in Nat
  BY LoginCall
<1>4. \A h \in Goroutines : At(h, "rehash")' =>
         /\ call[h].version <= account'[call[h].user].version
         /\ call[h].version = account'[call[h].user].version
               => call[h].password = account'[call[h].user].password
  BY <1>1, <1>2, <1>3 DEF PasswordsCurrent
<1> QED
  BY <1>2, <1>4 DEF PasswordsCurrent

(* Rehash keeps the password invariant.                                      *)
LEMMA RehashPasswords ==
  ASSUME TypeOK, PasswordInv, NEW g \in Goroutines, Rehash(g)
  PROVE  PasswordInv'
<1> DEFINE u == call[g].user
           p == call[g].password
           v == account[u].verified
<1>1. /\ call[g] \in AccountCalls /\ u \in Users /\ p \in Passwords
      /\ account[u] # Nil /\ account[u] \in AccountRows
  BY LoginCall DEF Rehash, AccountCalls
<1>2. NoNewRehash
  <2> DEFINE x == [call[g] EXCEPT !.pc = "open"]
  <2>1. call' = [call EXCEPT ![g] = x] /\ x.pc = "open"
    BY <1>1, GoesOn DEF Rehash
  <2> HIDE DEF x
  <2> QED
    BY <2>1, NoRehash
<1>3. CASE UNCHANGED account
  BY <1>2, <1>3, PasswordsUntouched DEF Rehash
<1>4. CASE account[u].version = call[g].version /\ UpdateUser(u, p, v)
  <2>1. v \in BOOLEAN
    BY <1>1 DEF AccountRows
  <2>2. p = account[u].password
    BY <1>4 DEF PasswordInv, PasswordsCurrent, Rehash
  <2> HIDE DEF u, p, v
  <2>3. PasswordsCurrent'
    BY <1>1, <1>2, <1>4, <2>1, VersionPasses DEF PasswordInv
  <2>4. \A w \in Users : account'[w].password = account[w].password
    <3>1. account'[u].password = p /\ \A w \in Users \ {u} : account'[w] = account[w]
      BY <1>1, <1>4, <2>1, UpdateUserTyped, Zenon DEF TypeOK
    <3> QED
      BY <3>1, <2>2
  <2>5. \A s \in Sessions : session[s] # Nil => session[s].user \in Users
    BY DEF TypeOK, AccountsTypeOK, SessionRows
  <2>6. ResetSeversSessions'
    BY <2>4, <2>5 DEF PasswordInv, ResetSeversSessions, IsActive, Rehash
  <2> QED
    BY <2>3, <2>6 DEF PasswordInv
<1> QED
  BY <1>3, <1>4 DEF Rehash

(* A session is opened with the account's password, or straddles a reset.   *)
LEMMA OpenSessionPasswords ==
  ASSUME TypeOK, PasswordInv, NEW g \in Goroutines, NEW s \in Sessions, NEW t, OpenSession(g, s, t)
  PROVE  PasswordInv'
<1> DEFINE u == call[g].user
           new == CreateSession(u, call[g].password)
<1>1. session' = [session EXCEPT ![s] = new] /\ UNCHANGED account
  BY DEF OpenSession
<1>2. new.user = u /\ new.password = call[g].password
      /\ (new.straddles <=> account[u].password # call[g].password)
  BY DEF CreateSession
<1>3. NoNewRehash
  BY NoRehash DEF OpenSession, Done
<1>4. PasswordsCurrent'
  <2>1. \A h \in Goroutines : At(h, "rehash")' => At(h, "rehash") /\ call'[h] = call[h]
    BY <1>3 DEF NoNewRehash, At
  <2> QED
    BY <1>1, <2>1 DEF PasswordInv, PasswordsCurrent
<1> HIDE DEF new
<1>5. \A r \in Sessions : session'[r] = IF r = s THEN new ELSE session[r]
  BY <1>1 DEF TypeOK, AccountsTypeOK
<1>6. ResetSeversSessions'
  BY <1>1, <1>2, <1>5 DEF PasswordInv, ResetSeversSessions, IsActive
<1> QED
  BY <1>4, <1>6 DEF PasswordInv

(* A session that is revoked or expires is not active.                      *)
LEMMA FewerActive ==
  ASSUME TypeOK, PasswordInv, UNCHANGED account, NoNewRehash, NEW s \in Sessions, NEW row,
         session' = [session EXCEPT ![s] = row], row.revoked # Nil \/ row.expired
  PROVE  PasswordInv'
<1>1. \A h \in Goroutines : At(h, "rehash")' => At(h, "rehash") /\ call'[h] = call[h]
  BY DEF NoNewRehash, At
<1>2. PasswordsCurrent'
  BY <1>1 DEF PasswordInv, PasswordsCurrent
<1>3. \A r \in Sessions : session'[r] = IF r = s THEN row ELSE session[r]
  BY DEF TypeOK, AccountsTypeOK
<1>4. ResetSeversSessions'
  BY <1>3 DEF PasswordInv, ResetSeversSessions, IsActive
<1> QED
  BY <1>2, <1>4 DEF PasswordInv

(* Revoke keeps the password invariant.                                      *)
LEMMA RevokePasswords ==
  ASSUME TypeOK, PasswordInv, NEW g \in Goroutines, Revoke(g)
  PROVE  PasswordInv'
<1> DEFINE s == call[g].session
           row == MarkRevoked(s, call[g].reason)
           x == [call[g] EXCEPT !.pc = "announce"]
<1>1. s \in Sessions /\ session[s] # Nil /\ call[g].reason \in Reasons /\ call[g] \in AccountCalls
  BY RevokeCall DEF Revoke, AccountCalls
<1>2. row.revoked # Nil
  BY <1>1, MarkRevokedRow DEF TypeOK
<1>3. session' = [session EXCEPT ![s] = row] /\ UNCHANGED account
  BY DEF Revoke
<1>4. call' = [call EXCEPT ![g] = x] /\ x.pc = "announce"
  BY <1>1, GoesOn DEF Revoke
<1> HIDE DEF row, s, x
<1>5. NoNewRehash
  BY <1>4, NoRehash
<1> QED
  BY <1>1, <1>2, <1>3, <1>5, FewerActive

(* ExpireSession keeps the password invariant.                               *)
LEMMA ExpireSessionPasswords ==
  ASSUME TypeOK, PasswordInv, NEW s \in Sessions, ExpireSession(s)
  PROVE  PasswordInv'
<1> DEFINE row == [session[s] EXCEPT !.expired = TRUE]
<1>1. session[s] \in SessionRows
  BY DEF ExpireSession, TypeOK, AccountsTypeOK
<1>2. row.expired
  BY <1>1 DEF SessionRows
<1>3. session' = [session EXCEPT ![s] = row] /\ UNCHANGED <<account, call>>
  BY DEF ExpireSession
<1> HIDE DEF row
<1>4. NoNewRehash
  BY <1>3 DEF NoNewRehash
<1> QED
  BY <1>2, <1>3, <1>4, FewerActive

(* A proven address leaves the password; a reset revokes every session of   *)
(* the account.                                                             *)
LEMMA WriteAccountPasswords ==
  ASSUME TypeOK, PasswordInv, NEW g \in Goroutines, NEW p \in Passwords, WriteAccount(g, p)
  PROVE  PasswordInv'
<1> DEFINE k == call[g].token
           u == userToken[k].user
           x == [op |-> "reset", pc |-> "announce",
                 event |-> [scope |-> "user", user |-> u, session |-> Nil]]
<1>1. u \in Users /\ account[u] # Nil /\ account[u].password \in Passwords
  BY LinkCall DEF WriteAccount, AccountRows
<1>2. \/ Done(g) /\ UNCHANGED <<account, session>>
      \/ Done(g) /\ UpdateUser(u, account[u].password, TRUE) /\ UNCHANGED session
      \/ /\ UpdateUser(u, p, TRUE)
         /\ session' = RevokeAllSessions(u, "password_reset")
         /\ call' = [call EXCEPT ![g] = x]
  BY WriteCases
<1>3. x.pc # "rehash"
  OBVIOUS
<1>4. \A s \in Sessions : session[s] # Nil => session[s].user \in Users
  BY DEF TypeOK, AccountsTypeOK, SessionRows
<1> HIDE DEF k, u, x
<1>5. NoNewRehash
  BY <1>2, <1>3, NoRehash DEF Done
<1>6. CASE UNCHANGED <<account, session>>
  BY <1>5, <1>6, PasswordsUntouched
<1>7. CASE UpdateUser(u, account[u].password, TRUE) /\ UNCHANGED session
  <2>1. PasswordsCurrent'
    BY <1>1, <1>5, <1>7, VersionPasses, Zenon DEF PasswordInv
  <2>2. account'[u].password = account[u].password /\ \A w \in Users \ {u} : account'[w] = account[w]
    BY <1>1, <1>7, UpdateUserTyped, Zenon DEF TypeOK
  <2>3. ResetSeversSessions'
    BY <1>4, <1>7, <2>2 DEF PasswordInv, ResetSeversSessions, IsActive
  <2> QED
    BY <2>1, <2>3 DEF PasswordInv
<1>8. CASE UpdateUser(u, p, TRUE) /\ session' = RevokeAllSessions(u, "password_reset")
  <2>1. PasswordsCurrent'
    BY <1>1, <1>5, <1>8, VersionPasses, Zenon DEF PasswordInv
  <2>2. \A w \in Users \ {u} : account'[w] = account[w]
    BY <1>1, <1>8, UpdateUserTyped, Zenon DEF TypeOK
  <2>3. /\ \A s \in Sessions : session[s] = Nil => session'[s] = Nil
        /\ \A s \in Sessions : session[s] # Nil =>
              /\ session[s].user = u => session'[s].revoked # Nil
              /\ session[s].user # u => session'[s] = session[s]
    <3>1. "password_reset" \in Reasons
      BY DEF Reasons
    <3> QED
      BY <1>1, <1>8, <3>1, RevokeAllRows DEF TypeOK
  <2>4. ResetSeversSessions'
    BY <1>4, <2>2, <2>3 DEF PasswordInv, ResetSeversSessions, IsActive
  <2> QED
    BY <2>1, <2>4 DEF PasswordInv
<1> QED
  BY <1>2, <1>6, <1>7, <1>8

(* The steps of other requests on accounts begin no upgrade.                *)
LEMMA OtherAccountSteps ==
  ASSUME TypeOK, NEW g \in Goroutines,
         \/ \E t \in RefreshTokens : Refresh(g, t) \/ Logout(g, t) \/ Rotate(g, t)
         \/ \E s \in Sessions : RevokeSession(g, s)
         \/ GetSession(g) \/ RevokeFails(g)
         \/ \E k \in UserTokens : FollowLink(g, k)
         \/ Consume(g)
  PROVE  NoNewRehash /\ UNCHANGED <<account, session>>
<1>1. ASSUME NEW s, NEW reason, Revoking(g, s, reason) PROVE NoNewRehash
  <2> DEFINE x == [op |-> "revoke", pc |-> "revoke", session |-> s, reason |-> reason,
                   event |-> [scope |-> "session", user |-> session[s].user, session |-> s]]
  <2>1. x.pc # "rehash" /\ call' = [call EXCEPT ![g] = x]
    BY <1>1 DEF Revoking
  <2> HIDE DEF x
  <2> QED
    BY <2>1, NoRehash
<1>2. ASSUME Done(g) PROVE NoNewRehash
  BY <1>2, NoRehash DEF Done
<1>3. ASSUME NEW pc, pc # "rehash", Goto(g, pc), call[g] \in AccountCalls PROVE NoNewRehash
  <2> DEFINE x == [call[g] EXCEPT !.pc = pc]
  <2>1. call' = [call EXCEPT ![g] = x] /\ x.pc = pc
    BY <1>3, GoesOn
  <2> HIDE DEF x
  <2> QED
    BY <1>3, <2>1, NoRehash
<1>4. ASSUME NEW t \in RefreshTokens, Refresh(g, t) PROVE NoNewRehash
  <2> DEFINE x == [op |-> "refresh", pc |-> "session", token |-> t]
  <2>1. x.pc # "rehash"
    OBVIOUS
  <2>2. CASE call' = [call EXCEPT ![g] = x]
    <3> HIDE DEF x
    <3> QED
      BY <2>1, <2>2, NoRehash
  <2> QED
    BY <1>1, <1>4, <2>2 DEF Refresh
<1>5. ASSUME NEW k \in UserTokens, FollowLink(g, k) PROVE NoNewRehash
  <2> DEFINE x == [op |-> "link", pc |-> "consume", token |-> k]
  <2>1. x.pc # "rehash" /\ call' = [call EXCEPT ![g] = x]
    BY <1>5 DEF FollowLink
  <2> HIDE DEF x
  <2> QED
    BY <2>1, NoRehash
<1>6. ASSUME Consume(g) PROVE NoNewRehash
  <2> DEFINE k == call[g].token
             x == [pc |-> "write", op |-> "link", token |-> k,
                   verified |-> account[userToken[k].user].verified,
                   version |-> account[userToken[k].user].version]
  <2>1. x.pc # "rehash"
    OBVIOUS
  <2>2. CASE call' = [call EXCEPT ![g] = x]
    <3> HIDE DEF x
    <3> QED
      BY <2>1, <2>2, NoRehash
  <2> QED
    BY <1>2, <1>6, <2>2 DEF Consume
<1>7. ASSUME GetSession(g) PROVE NoNewRehash
  <2>1. call[g] \in AccountCalls
    BY <1>7, RefreshCall DEF GetSession, AccountCalls
  <2> QED
    BY <1>2, <1>3, <1>7, <2>1 DEF GetSession
<1>8. ASSUME RevokeFails(g) PROVE NoNewRehash
  <2>1. call[g] \in AccountCalls
    BY <1>8, RevokeCall DEF RevokeFails, AccountCalls
  <2> QED
    BY <1>2, <1>3, <1>8, <2>1 DEF RevokeFails
<1>9. UNCHANGED <<account, session>>
  BY DEF Refresh, Logout, Rotate, RevokeSession, GetSession, RevokeFails, FollowLink, Consume
<1> QED
  BY <1>1, <1>2, <1>4, <1>5, <1>6, <1>7, <1>8, <1>9 DEF Logout, Rotate, RevokeSession

(* Initially there is nobody whose password could be stale.                  *)
LEMMA PasswordsInit ==
  ASSUME Init
  PROVE  PasswordInv
<1>1. call = [g \in Goroutines |-> Nil]
  BY DEF Init, AccountsInit
<1>2. PasswordsCurrent
  BY <1>1 DEF PasswordsCurrent, At
<1>3. CASE session = [s \in Sessions |-> Nil]
  BY <1>2, <1>3 DEF PasswordInv, ResetSeversSessions, IsActive
<1>4. ASSUME NEW p, NEW r, NEW owner \in Users,
             account = [u \in Users |-> [password |-> p, verified |-> TRUE, version |-> 2]],
             session = [s \in Sessions |->
                          IF s = r THEN [user |-> owner, password |-> p, straddles |-> FALSE,
                                         revoked |-> Nil, expired |-> FALSE]
                          ELSE Nil]
      PROVE  PasswordInv
  <2> DEFINE row == [password |-> p, verified |-> TRUE, version |-> 2]
             s0 == [user |-> owner, password |-> p, straddles |-> FALSE, revoked |-> Nil, expired |-> FALSE]
  <2>1. row.password = p /\ s0.user = owner /\ s0.password = p
    OBVIOUS
  <2>2. /\ account = [u \in Users |-> row]
        /\ session = [s \in Sessions |-> IF s = r THEN s0 ELSE Nil]
    BY <1>4
  <2> HIDE DEF row, s0
  <2>3. ResetSeversSessions
    BY <2>1, <2>2 DEF ResetSeversSessions, IsActive
  <2> QED
    BY <1>2, <2>3 DEF PasswordInv
<1> DEFINE p == CHOOSE p \in Passwords : TRUE
           r == CHOOSE id \in Sessions : TRUE
<1>5. \/ session = [s \in Sessions |-> Nil]
      \/ \E owner \in Users :
            /\ account = [u \in Users |-> [password |-> p, verified |-> TRUE, version |-> 2]]
            /\ session = [s \in Sessions |->
                           IF s = r THEN [user |-> owner, password |-> p, straddles |-> FALSE,
                                          revoked |-> Nil, expired |-> FALSE]
                           ELSE Nil]
  BY DEF Init, AccountsInit
<1> HIDE DEF p, r
<1> QED
  BY <1>3, <1>4, <1>5

(* No step at all breaks the password invariant.                             *)
LEMMA PasswordsNext ==
  ASSUME TypeOK, PasswordInv, [Next]_vars
  PROVE  PasswordInv'
<1>1. CASE AccountMoves
  <2>1. ASSUME UNCHANGED call PROVE NoNewRehash
    BY <2>1 DEF NoNewRehash
  <2>2. \A u \in Users, k \in UserTokens : RequestPasswordReset(u, k) => PasswordInv'
    BY <2>1, PasswordsUntouched DEF RequestPasswordReset
  <2>3. \A t \in RefreshTokens : ExpireRefreshToken(t) => PasswordInv'
    BY <2>1, PasswordsUntouched DEF ExpireRefreshToken
  <2>4. \A k \in UserTokens : ExpireUserToken(k) => PasswordInv'
    BY <2>1, PasswordsUntouched DEF ExpireUserToken
  <2>5. CASE AccountRequest
    BY <2>5, <2>2, <2>3, <2>4, OtherAccountSteps, PasswordsUntouched, SignupPasswords, LoginPasswords,
       ExpireSessionPasswords DEF AccountRequest
  <2>6. CASE \E g \in Goroutines : AccountStep(g)
    BY <2>6, OtherAccountSteps, PasswordsUntouched, RehashPasswords, OpenSessionPasswords,
       RevokePasswords, WriteAccountPasswords DEF AccountStep
  <2> QED
    BY <1>1, <2>5, <2>6 DEF AccountMoves
<1>2. CASE SocketMoves \/ RosterMoves \/ FileMoves
  BY <1>2, OthersKeepPasswords
<1>3. CASE UNCHANGED vars
  BY <1>3, PasswordsUntouched DEF vars, accountVars, NoNewRehash
<1> QED
  BY <1>1, <1>2, <1>3, NextCases

(***************************************************************************)
(* After a password reset no session opened with the old password is       *)
(* active, unless its login compared that password before the reset and    *)
(* opened the session after it; and no login brings the old password back  *)
(* (service/auth.go, ResetPassword and rehashPassword).                    *)
(***************************************************************************)
THEOREM ResetSevers == Spec => []ResetSeversSessions
<1>1. Init => PasswordInv
  BY PasswordsInit
<1>2. TypeOK /\ PasswordInv /\ [Next]_vars => PasswordInv'
  BY PasswordsNext
<1>3. PasswordInv => ResetSeversSessions
  BY DEF PasswordInv
<1> QED
  BY <1>1, <1>2, <1>3, ServerTyped, PTL DEF Spec

-----------------------------------------------------------------------------
(* Connections and revocations                                              *)

Exposed(c) ==
    conn[c] # Nil /\ conn[c].stage = "open" /\ ~conn[c].late /\ session[conn[c].session].revoked # Nil

(* Some request is about to announce a revocation that matches.             *)
Told(u, s) == \E g \in Goroutines : At(g, "announce") /\ Matches(call[g].event, u, s)

(* A message to that instance is under way, or was lost.                    *)
Addressed(at, u, s) == \E m \in inflight \cup lost : m.to = at /\ Matches(m.event, u, s)

AnnouncesKept == \A h \in Goroutines : At(h, "announce") => call'[h] = call[h]

(* The property restated with the names used below, in a state and in the    *)
(* next.                                                                     *)
LEMMA ExcusedAlt ==
  /\ RevokedSocketsExcused <=>
        \A c \in Conns : Exposed(c) => \/ Told(conn[c].user, conn[c].session)
                                       \/ Addressed(conn[c].at, conn[c].user, conn[c].session)
  /\ RevokedSocketsExcused' <=>
        \A c \in Conns : Exposed(c)' => \/ Told(conn[c].user, conn[c].session)'
                                        \/ Addressed(conn[c].at, conn[c].user, conn[c].session)'
  BY DEF RevokedSocketsExcused, Exposed, Told, Addressed

(* A connection's session is there, and is its user's.                      *)
LEMMA ConnSession ==
  ASSUME TypeOK, NEW c \in Conns, conn[c] # Nil
  PROVE  /\ conn[c] \in ConnStates /\ conn[c].session \in Sessions /\ conn[c].at \in Instances
         /\ session[conn[c].session] # Nil /\ session[conn[c].session].user = conn[c].user
<1>1. conn[c] \in ConnStates
  BY DEF TypeOK, SocketsTypeOK
<1> QED
  BY <1>1 DEF TypeOK, SocketReferences, ConnStates

(* An announcement under way stays under way.                               *)
LEMMA ToldKept ==
  ASSUME AnnouncesKept, NEW u, NEW s, Told(u, s)
  PROVE  Told(u, s)'
<1>1. PICK g \in Goroutines : At(g, "announce") /\ Matches(call[g].event, u, s)
  BY DEF Told
<1>2. call'[g] = call[g]
  BY <1>1 DEF AnnouncesKept
<1> QED
  BY <1>1, <1>2 DEF Told, At

(* A step of a request that announces nothing itself.                       *)
LEMMA NoAnnounce ==
  ASSUME TypeOK, NEW g \in Goroutines, NEW x, ~At(g, "announce"), call' = [call EXCEPT ![g] = x]
  PROVE  AnnouncesKept
<1>1. \A h \in Goroutines : call'[h] = IF h = g THEN x ELSE call[h]
  BY DEF TypeOK
<1> QED
  BY <1>1 DEF AnnouncesKept

(* Messages only come and the connection stays whose it is: so does its     *)
(* excuse.                                                                  *)
LEMMA ExcuseKept ==
  ASSUME TypeOK, RevokedSocketsExcused, AnnouncesKept,
         inflight \cup lost \subseteq inflight' \cup lost',
         NEW c \in Conns, Exposed(c),
         conn'[c].user = conn[c].user, conn'[c].session = conn[c].session, conn'[c].at = conn[c].at
  PROVE  \/ Told(conn[c].user, conn[c].session)'
         \/ Addressed(conn[c].at, conn[c].user, conn[c].session)'
<1> DEFINE u == conn[c].user
           s == conn[c].session
           at == conn[c].at
<1>2. /\ Told(u, s) \/ Addressed(at, u, s)
      /\ conn'[c].user = u /\ conn'[c].session = s /\ conn'[c].at = at
  BY ExcusedAlt
<1> HIDE DEF u, s, at
<1>3. \A v, r, i : Told(v, r) => Told(v, r)'
  BY ToldKept
<1>4. \A v, r, i : Addressed(i, v, r) => Addressed(i, v, r)'
  BY DEF Addressed
<1>5. \A v, r, i : v = conn'[c].user /\ r = conn'[c].session /\ i = conn'[c].at =>
         /\ Told(v, r)' => Told(conn[c].user, conn[c].session)'
         /\ Addressed(i, v, r)' => Addressed(conn[c].at, conn[c].user, conn[c].session)'
  BY DEF Told, Addressed
<1>6. Told(u, s) => Told(conn[c].user, conn[c].session)'
  <2>1. \A v, r : v = u /\ r = s /\ Told(v, r) => Told(conn[c].user, conn[c].session)'
    BY <1>2, <1>3, <1>5
  <2> QED
    BY <2>1
<1>7. Addressed(at, u, s) => Addressed(conn[c].at, conn[c].user, conn[c].session)'
  <2>1. \A v, r, i : v = u /\ r = s /\ i = at /\ Addressed(i, v, r)
           => Addressed(conn[c].at, conn[c].user, conn[c].session)'
    BY <1>2, <1>4, <1>5
  <2> QED
    BY <2>1
<1> QED
  BY <1>2, <1>6, <1>7

(* Connections may go or close; no session is newly revoked.                *)
LEMMA ExcusesKept ==
  ASSUME TypeOK, RevokedSocketsExcused, AnnouncesKept,
         inflight \cup lost \subseteq inflight' \cup lost',
         \A c \in Conns : Exposed(c)' =>
             /\ Exposed(c) /\ conn'[c].user = conn[c].user /\ conn'[c].session = conn[c].session
             /\ conn'[c].at = conn[c].at
  PROVE  RevokedSocketsExcused'
  BY ExcusedAlt, ExcuseKept

(* Sessions are revoked by a request that announces it next.                *)
LEMMA ExcusesGiven ==
  ASSUME TypeOK, RevokedSocketsExcused, AnnouncesKept, UNCHANGED socketVars,
         \A s \in Sessions : session[s] # Nil /\ session'[s].revoked # Nil =>
             session[s].revoked # Nil \/ \A u : u = session[s].user => Told(u, s)'
  PROVE  RevokedSocketsExcused'
<1>1. SUFFICES ASSUME NEW c \in Conns, Exposed(c)'
               PROVE  \/ Told(conn[c].user, conn[c].session)'
                      \/ Addressed(conn[c].at, conn[c].user, conn[c].session)'
  BY ExcusedAlt
<1>2. UNCHANGED <<conn, inflight, lost>>
  BY DEF socketVars
<1>3. conn[c] # Nil /\ session'[conn[c].session].revoked # Nil
  BY <1>1, <1>2 DEF Exposed
<1>4. CASE session[conn[c].session].revoked # Nil
  <2>1. Exposed(c)
    BY <1>1, <1>2, <1>4 DEF Exposed
  <2> QED
    BY <1>2, <2>1, ExcuseKept
<1>5. CASE session[conn[c].session].revoked = Nil
  <2>1. \A u, s : u = conn[c].user /\ s = conn[c].session => Told(u, s)'
    BY <1>3, <1>5, ConnSession
  <2> QED
    BY <1>2, <2>1 DEF Told
<1> QED
  BY <1>4, <1>5

(* Requests on the roster and files leave sessions and connections alone.   *)
LEMMA OthersKeepExcuses ==
  ASSUME TypeOK, RevokedSocketsExcused, UNCHANGED socketVars, RosterMoves \/ FileMoves
  PROVE  RevokedSocketsExcused'
<1>1. /\ UNCHANGED <<account, session>>
      /\ CallStep(RosterCalls) \/ CallStep(AllMediaCalls)
  BY RosterEffects, MediaEffects DEF RosterMoves, FileMoves, RosterEffect, MediaEffect
<1>2. \A x \in RosterCalls \cup AllMediaCalls : x.pc # "announce"
  BY CallSteps DEF RosterCalls, AllMediaCalls
<1>3. AnnouncesKept
  <2>1. CASE UNCHANGED call
    BY <2>1 DEF AnnouncesKept
  <2>2. CASE \E g \in Goroutines : \E x \in RosterCalls \cup AllMediaCalls \cup {Nil} :
                call' = [call EXCEPT ![g] = x] /\ call[g] \in RosterCalls \cup AllMediaCalls \cup {Nil}
    BY <1>2, <2>2, NoAnnounce DEF At
  <2> QED
    BY <1>1, <2>1, <2>2 DEF CallStep
<1> QED
  BY <1>1, <1>3, ExcusesKept DEF Exposed, socketVars

(* Revoke leaves no socket of a revoked session without an excuse.           *)
LEMMA RevokeExcuses ==
  ASSUME TypeOK, RevokedSocketsExcused, UNCHANGED socketVars, NEW g \in Goroutines, Revoke(g)
  PROVE  RevokedSocketsExcused'
<1> DEFINE s == call[g].session
           row == MarkRevoked(s, call[g].reason)
           x == [call[g] EXCEPT !.pc = "announce"]
<1>1. /\ call[g] \in RevokeCalls /\ call[g] # Nil /\ s \in Sessions /\ session[s] # Nil
      /\ call[g].event.session = s /\ call[g].event.scope = "session"
      /\ call[g].event.user = session[s].user
  BY RevokeCall DEF Revoke, At
<1>2. session' = [session EXCEPT ![s] = row]
  BY DEF Revoke
<1>3. /\ call' = [call EXCEPT ![g] = x] /\ x.pc = "announce" /\ x.event = call[g].event
      /\ x \in RevokeCalls
  BY <1>1 DEF RevokeCalls, Revoke, Goto
<1>4. x # Nil
  BY <1>3, AccountsAssumption DEF AccountCalls
<1>5. ~At(g, "announce")
  BY DEF Revoke, At
<1> HIDE DEF row, x
<1>6. AnnouncesKept
  BY <1>3, <1>5, NoAnnounce
<1>7. call'[g] = x
  BY <1>3 DEF TypeOK
<1>8. \A v, r : v = session[s].user /\ r = s => Told(v, r)'
  BY <1>1, <1>3, <1>4, <1>7 DEF Told, Matches, At
<1>9. \A r \in Sessions : r # s => session'[r] = session[r]
  BY <1>2 DEF TypeOK, AccountsTypeOK
<1> HIDE DEF s
<1>10. \A r \in Sessions : session[r] # Nil /\ session'[r].revoked # Nil =>
          session[r].revoked # Nil \/ \A v : v = session[r].user => Told(v, r)'
  BY <1>8, <1>9
<1> QED
  BY <1>6, <1>10, ExcusesGiven

(* Reset leaves no socket of a revoked session without an excuse.            *)
LEMMA ResetExcuses ==
  ASSUME TypeOK, RevokedSocketsExcused, UNCHANGED socketVars,
         NEW g \in Goroutines, NEW p \in Passwords, WriteAccount(g, p)
  PROVE  RevokedSocketsExcused'
<1> DEFINE k == call[g].token
           u == userToken[k].user
           x == [op |-> "reset", pc |-> "announce",
                 event |-> [scope |-> "user", user |-> u, session |-> Nil]]
<1>1. u \in Users /\ ~At(g, "announce")
  BY LinkCall DEF WriteAccount, At
<1>2. \/ Done(g) /\ UNCHANGED session
      \/ /\ session' = RevokeAllSessions(u, "password_reset")
         /\ call' = [call EXCEPT ![g] = x]
  BY WriteCases
<1>3. /\ x.pc = "announce" /\ x.event.scope = "user" /\ x.event.user = u
      /\ x \in ResetCalls
  BY <1>1 DEF ResetCalls
<1>4. x # Nil
  BY <1>3, AccountsAssumption DEF AccountCalls
<1> HIDE DEF k, u, x
<1>5. AnnouncesKept
  BY <1>1, <1>2, NoAnnounce DEF Done
<1>6. CASE UNCHANGED session
  BY <1>5, <1>6, ExcusesGiven
<1>7. CASE session' = RevokeAllSessions(u, "password_reset") /\ call' = [call EXCEPT ![g] = x]
  <2>1. \A s \in Sessions : session[s] # Nil /\ session[s].user # u => session'[s] = session[s]
    <3>1. "password_reset" \in Reasons
      BY DEF Reasons
    <3> QED
      BY <1>1, <1>7, <3>1, RevokeAllRows DEF TypeOK
  <2>2. call'[g] = x
    BY <1>7 DEF TypeOK
  <2>3. \A v, s : v = u => Told(v, s)'
    BY <1>3, <1>4, <2>2 DEF Told, Matches, At
  <2>4. \A s \in Sessions : session[s] # Nil /\ session'[s].revoked # Nil =>
            session[s].revoked # Nil \/ \A v : v = session[s].user => Told(v, s)'
    BY <2>1, <2>3
  <2> QED
    BY <1>5, <2>4, ExcusesGiven
<1> QED
  BY <1>2, <1>6, <1>7

(* Steps on accounts leave every connection its excuse, or give it one.     *)
LEMMA AccountExcuses ==
  ASSUME TypeOK, RevokedSocketsExcused, UNCHANGED socketVars, AccountMoves
  PROVE  RevokedSocketsExcused'
<1>1. ASSUME UNCHANGED session, AnnouncesKept PROVE RevokedSocketsExcused'
  BY <1>1, ExcusesGiven
<1>2. ASSUME UNCHANGED <<session, call>> PROVE RevokedSocketsExcused'
  BY <1>2, ExcusesGiven DEF AnnouncesKept
<1>3. ASSUME NEW g \in Goroutines, Idle(g) PROVE ~At(g, "announce")
  BY <1>3, FreeId DEF Idle, At
<1>4. ASSUME NEW g \in Goroutines, NEW x, call' = [call EXCEPT ![g] = x], ~At(g, "announce")
      PROVE  AnnouncesKept
  BY <1>4, NoAnnounce
<1>5. ASSUME NEW g \in Goroutines, NEW pc, Goto(g, pc), ~At(g, "announce")
      PROVE  AnnouncesKept
  BY <1>5, NoAnnounce DEF Goto
<1>6. ASSUME NEW g \in Goroutines, Done(g), ~At(g, "announce") PROVE AnnouncesKept
  BY <1>6, NoAnnounce DEF Done
<1>7. ASSUME NEW g \in Goroutines, NEW s, NEW reason, Revoking(g, s, reason),
             ~At(g, "announce")
      PROVE  AnnouncesKept
  BY <1>7, NoAnnounce DEF Revoking
<1>8. ASSUME NEW g \in Goroutines, NEW u, NEW p, Login(g, u, p) PROVE RevokedSocketsExcused'
  BY <1>8, <1>1, <1>3, <1>4 DEF Login
<1>9. ASSUME NEW g \in Goroutines, NEW t, Refresh(g, t) \/ Logout(g, t) PROVE RevokedSocketsExcused'
  BY <1>9, <1>1, <1>3, <1>4, <1>7 DEF Refresh, Logout
<1>10. ASSUME NEW g \in Goroutines, NEW s, RevokeSession(g, s) PROVE RevokedSocketsExcused'
  BY <1>10, <1>1, <1>3, <1>7 DEF RevokeSession
<1>11. ASSUME NEW g \in Goroutines, NEW k, FollowLink(g, k) PROVE RevokedSocketsExcused'
  BY <1>11, <1>1, <1>3, <1>4 DEF FollowLink
<1>12. ASSUME NEW g \in Goroutines, Rehash(g) \/ GetSession(g) \/ RevokeFails(g) PROVE RevokedSocketsExcused'
  <2>1. ~At(g, "announce")
    BY <1>12 DEF Rehash, GetSession, RevokeFails, At
  <2> QED
    BY <1>12, <1>1, <1>5, <1>6, <2>1 DEF Rehash, GetSession, RevokeFails
<1>13. ASSUME NEW g \in Goroutines, NEW t, Rotate(g, t) PROVE RevokedSocketsExcused'
  <2>1. ~At(g, "announce")
    BY <1>13 DEF Rotate, At
  <2> QED
    BY <1>13, <1>1, <1>6, <1>7, <2>1 DEF Rotate
<1>14. ASSUME NEW g \in Goroutines, Consume(g) PROVE RevokedSocketsExcused'
  <2>1. ~At(g, "announce")
    BY <1>14 DEF Consume, At
  <2> QED
    BY <1>14, <1>1, <1>4, <1>6, <2>1 DEF Consume
<1>15. ASSUME NEW g \in Goroutines, NEW s \in Sessions, NEW t, OpenSession(g, s, t)
       PROVE  RevokedSocketsExcused'
  <2>1. AnnouncesKept
    <3>1. ~At(g, "announce")
      BY <1>15 DEF OpenSession, At
    <3> QED
      BY <1>15, <1>6, <3>1 DEF OpenSession
  <2>2. session[s] = Nil /\ \A r \in Sessions : r # s => session'[r] = session[r]
    BY <1>15, FreeId DEF OpenSession, TypeOK, AccountsTypeOK
  <2> QED
    BY <2>1, <2>2, ExcusesGiven
<1>16. ASSUME NEW s \in Sessions, ExpireSession(s) PROVE RevokedSocketsExcused'
  <2> DEFINE row == [session[s] EXCEPT !.expired = TRUE]
  <2>1. session[s] \in SessionRows
    BY <1>16 DEF ExpireSession, TypeOK, AccountsTypeOK
  <2>2. row.revoked = session[s].revoked
    BY <2>1 DEF SessionRows
  <2>3. session' = [session EXCEPT ![s] = row] /\ UNCHANGED call
    BY <1>16 DEF ExpireSession
  <2> HIDE DEF row
  <2>4. \A r \in Sessions : session'[r] = IF r = s THEN row ELSE session[r]
    BY <2>3 DEF TypeOK, AccountsTypeOK
  <2>5. AnnouncesKept
    BY <2>3 DEF AnnouncesKept
  <2> QED
    BY <2>2, <2>4, <2>5, ExcusesGiven
<1>17. CASE AccountRequest
  BY <1>17, <1>2, <1>8, <1>9, <1>10, <1>11, <1>16 DEF AccountRequest, Signup, RequestPasswordReset,
     ExpireRefreshToken, ExpireUserToken
<1>18. CASE \E g \in Goroutines : AccountStep(g)
  BY <1>18, <1>12, <1>13, <1>14, <1>15, RevokeExcuses, ResetExcuses DEF AccountStep
<1> QED
  BY <1>17, <1>18 DEF AccountMoves

(* A ticket redeemed is a handshake; one issued or expired is no connection.*)
LEMMA TicketExcuses ==
  ASSUME TypeOK, RevokedSocketsExcused,
         \/ \E g \in Goroutines, s \in Sessions : Authenticate(g, s)
         \/ \E g \in Goroutines, k \in Tickets : IssueTicket(g, k)
         \/ \E k \in Tickets, c \in Conns, at \in Instances : Redeem(k, c, at)
         \/ \E k \in Tickets : ExpireTicket(k)
  PROVE  RevokedSocketsExcused'
<1>1. ASSUME NEW g \in Goroutines, NEW s \in Sessions, Authenticate(g, s) PROVE RevokedSocketsExcused'
  <2>1. AnnouncesKept
    BY <1>1, NoAnnounce, FreeId DEF Authenticate, Idle, At
  <2> QED
    BY <1>1, <2>1, ExcusesGiven DEF Authenticate
<1>2. ASSUME NEW g \in Goroutines, NEW k \in Tickets, IssueTicket(g, k) PROVE RevokedSocketsExcused'
  <2>1. AnnouncesKept
    BY <1>2, NoAnnounce DEF IssueTicket, Done, At
  <2> QED
    BY <1>2, <2>1, ExcusesKept DEF IssueTicket, Exposed
<1>3. ASSUME NEW k \in Tickets, NEW c \in Conns, NEW at \in Instances, Redeem(k, c, at)
      PROVE  RevokedSocketsExcused'
  <2> DEFINE x == [user |-> ticket[k].user, session |-> ticket[k].session, at |-> at,
                   stage |-> "handshake", late |-> FALSE]
  <2>1. /\ conn' = [conn EXCEPT ![c] = x] /\ x.stage = "handshake"
        /\ UNCHANGED <<session, call, inflight, lost>>
    BY <1>3 DEF Redeem, accountVars
  <2> HIDE DEF x
  <2>2. \A d \in Conns : conn'[d] = IF d = c THEN x ELSE conn[d]
    BY <2>1 DEF TypeOK, SocketsTypeOK
  <2>3. AnnouncesKept
    BY <2>1 DEF AnnouncesKept
  <2>4. \A d \in Conns : Exposed(d)' => conn'[d] = conn[d] /\ Exposed(d)
    BY <2>1, <2>2 DEF Exposed
  <2> QED
    BY <2>1, <2>3, <2>4, ExcusesKept
<1>4. ASSUME NEW k \in Tickets, ExpireTicket(k) PROVE RevokedSocketsExcused'
  BY <1>4, ExcusesKept DEF ExpireTicket, Exposed, accountVars, AnnouncesKept
<1> QED
  BY <1>1, <1>2, <1>3, <1>4

(* A connection that goes needs none; one that is registered on a revoked   *)
(* session is late.                                                         *)
LEMMA ConnExcuses ==
  ASSUME TypeOK, RevokedSocketsExcused, NEW c \in Conns, ConnStep(c) \/ Disconnect(c)
  PROVE  RevokedSocketsExcused'
<1>1. UNCHANGED <<session, call, inflight, lost>> /\ AnnouncesKept
  BY DEF ConnStep, AcceptFails, Register, CloseDrained, Disconnect, accountVars, AnnouncesKept
<1>2. CASE AcceptFails(c) \/ CloseDrained(c) \/ Disconnect(c)
  <2>1. conn' = [conn EXCEPT ![c] = Nil]
    BY <1>2 DEF AcceptFails, CloseDrained, Disconnect
  <2>2. \A d \in Conns : conn'[d] = IF d = c THEN Nil ELSE conn[d]
    BY <2>1 DEF TypeOK, SocketsTypeOK
  <2>3. \A d \in Conns : Exposed(d)' => conn'[d] = conn[d] /\ Exposed(d)
    BY <1>1, <2>2 DEF Exposed
  <2> QED
    BY <1>1, <2>3, ExcusesKept
<1>3. CASE Register(c)
  <2>1. /\ ConnsKept /\ conn'[c].late = (session[conn[c].session].revoked # Nil)
        /\ \A d \in Conns \ {c} : conn'[d] = conn[d]
    BY <1>3, RegisterEffect
  <2>2. ~Exposed(c)'
    BY <1>1, <2>1 DEF Exposed, ConnsKept
  <2>3. \A d \in Conns : Exposed(d)' => conn'[d] = conn[d] /\ Exposed(d)
    BY <1>1, <2>1, <2>2 DEF Exposed
  <2> QED
    BY <1>1, <2>3, ExcusesKept
<1> QED
  BY <1>2, <1>3 DEF ConnStep

(* A connection still open after closeMatching was open, and on another     *)
(* instance if the event matches it.                                        *)
LEMMA StillExposed ==
  ASSUME TypeOK, UNCHANGED session, NEW at \in Instances, NEW event, conn' = CloseMatching(at, event),
         NEW c \in Conns, Exposed(c)'
  PROVE  /\ Exposed(c) /\ conn'[c].user = conn[c].user /\ conn'[c].session = conn[c].session
         /\ conn'[c].at = conn[c].at
         /\ Matches(event, conn[c].user, conn[c].session) => conn[c].at # at
<1>1. ConnsKept
  BY CloseMatchingConns
<1>2. conn'[c] # Nil /\ conn[c] # Nil /\ conn'[c].stage = "open"
  BY <1>1 DEF Exposed, ConnsKept
<1>3. /\ conn'[c].late = conn[c].late /\ conn[c].stage = "open"
      /\ conn[c].at = at => ~Matches(event, conn[c].user, conn[c].session)
  BY <1>2, CloseMatchingConns
<1> QED
  BY <1>1, <1>2, <1>3 DEF Exposed, ConnsKept

(* A revocation is published: who is not told here has a message under way  *)
(* or lost.                                                                 *)
LEMMA PublishExcuses ==
  ASSUME TypeOK, RevokedSocketsExcused, NEW g \in Goroutines, NEW at \in Instances, Publish(g, at)
  PROVE  RevokedSocketsExcused'
<1> DEFINE event == call[g].event
           peers == Instances \ {at}
<1>1. /\ UNCHANGED session /\ conn' = CloseMatching(at, event)
      /\ \A h \in Goroutines : h # g => call'[h] = call[h]
  BY DEF Publish, Done, TypeOK
<1>2. PICK reached \in SUBSET peers :
         /\ inflight' = inflight \cup To(reached, event)
         /\ lost' = lost \cup To(peers \ reached, event)
  BY DEF Publish
<1>3. \A i \in peers : [to |-> i, event |-> event] \in inflight' \cup lost'
  BY <1>2 DEF To
<1> HIDE DEF event
<1>4. SUFFICES ASSUME NEW c \in Conns, Exposed(c)'
               PROVE  \/ Told(conn[c].user, conn[c].session)'
                      \/ Addressed(conn[c].at, conn[c].user, conn[c].session)'
  BY ExcusedAlt
<1>5. /\ Exposed(c) /\ conn'[c].user = conn[c].user /\ conn'[c].session = conn[c].session
      /\ conn'[c].at = conn[c].at
      /\ Matches(event, conn[c].user, conn[c].session) => conn[c].at # at
  BY <1>1, <1>4, StillExposed
<1>6. conn[c].at \in Instances
  BY <1>5, ConnSession DEF Exposed
<1>7. CASE Matches(event, conn[c].user, conn[c].session)
  <2> DEFINE m == [to |-> conn[c].at, event |-> event]
  <2>1. m \in inflight' \cup lost' /\ m.to = conn'[c].at /\ m.event = event
    BY <1>3, <1>5, <1>6, <1>7
  <2> HIDE DEF m
  <2> QED
    BY <1>5, <1>7, <2>1 DEF Addressed
<1>8. CASE ~Matches(event, conn[c].user, conn[c].session)
  <2>1. CASE Told(conn[c].user, conn[c].session)
    <3>1. PICK h \in Goroutines : At(h, "announce") /\ Matches(call[h].event, conn[c].user, conn[c].session)
      BY <2>1 DEF Told
    <3>2. h # g
      BY <1>8, <3>1 DEF event
    <3> QED
      BY <1>1, <1>5, <3>1, <3>2 DEF Told, At
  <2>2. CASE Addressed(conn[c].at, conn[c].user, conn[c].session)
    BY <1>2, <1>5, <2>2 DEF Addressed
  <2> QED
    BY <1>5, <2>1, <2>2, ExcusedAlt
<1> QED
  BY <1>7, <1>8

(* AnnounceFails leaves no socket of a revoked session without an excuse.    *)
LEMMA AnnounceFailsExcuses ==
  ASSUME TypeOK, RevokedSocketsExcused, NEW g \in Goroutines, AnnounceFails(g)
  PROVE  RevokedSocketsExcused'
<1> DEFINE event == call[g].event
<1>1. /\ UNCHANGED <<session, conn, inflight>> /\ lost' = lost \cup To(Instances, event)
      /\ \A h \in Goroutines : h # g => call'[h] = call[h]
  BY DEF AnnounceFails, Done, TypeOK
<1>2. \A i \in Instances : [to |-> i, event |-> event] \in lost'
  BY <1>1 DEF To
<1> HIDE DEF event
<1>3. SUFFICES ASSUME NEW c \in Conns, Exposed(c)'
               PROVE  \/ Told(conn[c].user, conn[c].session)'
                      \/ Addressed(conn[c].at, conn[c].user, conn[c].session)'
  BY ExcusedAlt
<1>4. Exposed(c)
  BY <1>1, <1>3 DEF Exposed
<1>5. conn[c].at \in Instances
  BY <1>4, ConnSession DEF Exposed
<1>6. CASE Told(conn[c].user, conn[c].session)
  <2>1. PICK h \in Goroutines : At(h, "announce") /\ Matches(call[h].event, conn[c].user, conn[c].session)
    BY <1>6 DEF Told
  <2>2. CASE h # g
    BY <1>1, <2>1, <2>2 DEF Told, At
  <2>3. CASE h = g
    <3> DEFINE m == [to |-> conn[c].at, event |-> event]
    <3>1. m \in lost' /\ m.to = conn[c].at /\ m.event = event
      BY <1>2, <1>5
    <3> HIDE DEF m
    <3>2. Matches(event, conn[c].user, conn[c].session)
      BY <2>1, <2>3 DEF event
    <3> QED
      BY <1>1, <3>1, <3>2 DEF Addressed
  <2> QED
    BY <2>2, <2>3
<1>7. CASE Addressed(conn[c].at, conn[c].user, conn[c].session)
  BY <1>1, <1>7 DEF Addressed
<1> QED
  BY <1>4, <1>6, <1>7, ExcusedAlt

(* Receive leaves no socket of a revoked session without an excuse.          *)
LEMMA ReceiveExcuses ==
  ASSUME TypeOK, RevokedSocketsExcused, NEW m \in inflight, Receive(m)
  PROVE  RevokedSocketsExcused'
<1>1. /\ UNCHANGED <<session, call, lost>> /\ conn' = CloseMatching(m.to, m.event)
      /\ inflight' = inflight \ {m} /\ m.to \in Instances
  BY DEF Receive, accountVars, TypeOK, SocketsTypeOK
<1>2. SUFFICES ASSUME NEW c \in Conns, Exposed(c)'
               PROVE  \/ Told(conn[c].user, conn[c].session)'
                      \/ Addressed(conn[c].at, conn[c].user, conn[c].session)'
  BY ExcusedAlt
<1>3. /\ Exposed(c) /\ conn'[c].user = conn[c].user /\ conn'[c].session = conn[c].session
      /\ conn'[c].at = conn[c].at
      /\ Matches(m.event, conn[c].user, conn[c].session) => conn[c].at # m.to
  BY <1>1, <1>2, StillExposed
<1>4. CASE Told(conn[c].user, conn[c].session)
  BY <1>1, <1>3, <1>4 DEF Told, At
<1>5. CASE Addressed(conn[c].at, conn[c].user, conn[c].session)
  BY <1>1, <1>3, <1>5 DEF Addressed
<1> QED
  BY <1>3, <1>4, <1>5, ExcusedAlt

(***************************************************************************)
(* A connection that stays open on a session revoked after it was          *)
(* registered is about to be told, by the request that revoked the session *)
(* or by a message to its instance, or that message was lost               *)
(* (domain/revocation.go; transport/ws/registry.go, Publish), however      *)
(* revocations, resets, redemptions and registrations interleave.          *)
(***************************************************************************)
THEOREM RevokedExcused == Spec => []RevokedSocketsExcused
<1>1. Init => RevokedSocketsExcused
  BY DEF Init, SocketsInit, RevokedSocketsExcused
<1>2. TypeOK /\ RevokedSocketsExcused /\ [Next]_vars => RevokedSocketsExcused'
  <2>1. SUFFICES ASSUME TypeOK, RevokedSocketsExcused, [Next]_vars PROVE RevokedSocketsExcused'
    OBVIOUS
  <2>2. CASE AccountMoves /\ UNCHANGED socketVars
    BY <2>1, <2>2, AccountExcuses
  <2>3. CASE SocketMoves
    BY <2>1, <2>3, TicketExcuses, ConnExcuses, PublishExcuses, AnnounceFailsExcuses, ReceiveExcuses
       DEF SocketMoves, SocketRequest, SocketStep
  <2>4. CASE (RosterMoves \/ FileMoves) /\ UNCHANGED socketVars
    BY <2>1, <2>4, OthersKeepExcuses
  <2>5. CASE UNCHANGED vars
    BY <2>1, <2>5, ExcusesGiven DEF vars, accountVars, AnnouncesKept
  <2> QED
    BY <2>1, <2>2, <2>3, <2>4, <2>5, NextCases
<1> QED
  BY <1>1, <1>2, ServerTyped, PTL DEF Spec
=============================================================================
