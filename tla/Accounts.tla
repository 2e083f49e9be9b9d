------------------------------ MODULE Accounts ------------------------------
(***************************************************************************)
(* Accounts, login sessions, refresh token rotation and the single-use     *)
(* tokens of mailed links (internal/service/auth.go, repository/session.go,*)
(* repository/usertoken.go, repository/user.go).                           *)
(*                                                                         *)
(* A request runs in a goroutine, and every statement or transaction it    *)
(* sends to the database is a step of its own: call[g] is what goroutine g *)
(* has read and what it does next. A request that is refused ends without  *)
(* a trace. The last step of a revocation, telling the open sockets, is in *)
(* Sockets. Time is the three actions that let an expiry pass.             *)
(***************************************************************************)
EXTENDS Integers, FiniteSets

CONSTANTS
    Users, Passwords,
    Sessions, RefreshTokens, UserTokens,   \* identifiers, each given out once
    Goroutines,                            \* that serve requests
    Nil,
    AutoVerifyEmail                        \* AuthConfig.AutoVerifyEmail

VARIABLES
    account,        \* users: [password, verified, version]
    session,        \* auth_sessions: [user, password, straddles, revoked, expired]
    refreshToken,   \* refresh_tokens: [session, used, replaced_by, expired]
    userToken,      \* user_tokens: [user, purpose, consumed, expired]
    call            \* the request each goroutine serves, or Nil

accountVars == <<account, session, refreshToken, userToken, call>>

Purposes == {"email_verify", "password_reset"}

Reasons == {"logout", "refresh_token_reuse_detected", "password_reset", "revoked_by_user"}

(* The rows of the tables.                                                 *)
AccountRows == [password : Passwords, verified : BOOLEAN, version : Nat]

SessionRows ==
    [user : Users, password : Passwords, straddles : BOOLEAN, revoked : Reasons \cup {Nil},
     expired : BOOLEAN]

RefreshTokenRows ==
    [session : Sessions, used : BOOLEAN, replaced_by : RefreshTokens \cup {Nil}, expired : BOOLEAN]

UserTokenRows == [user : Users, purpose : Purposes, consumed : BOOLEAN, expired : BOOLEAN]

(* What each kind of request has read, by the step it takes next.          *)
LoginCalls ==
    [op : {"login"}, pc : {"rehash", "open"}, user : Users, password : Passwords, version : Nat]

RefreshCalls == [op : {"refresh"}, pc : {"session", "rotate"}, token : RefreshTokens]

RevokeCalls ==
    [op : {"revoke"}, pc : {"revoke", "announce"}, session : Sessions, reason : Reasons,
     event : [scope : {"session"}, user : Users, session : Sessions]]

ConsumeCalls == [op : {"link"}, pc : {"consume"}, token : UserTokens]

WriteCalls ==
    [op : {"link"}, pc : {"write"}, token : UserTokens, verified : BOOLEAN, version : Nat]

ResetCalls ==
    [op : {"reset"}, pc : {"announce"},
     event : [scope : {"user"}, user : Users, session : {Nil}]]

AccountCalls ==
    LoginCalls \cup RefreshCalls \cup RevokeCalls \cup ConsumeCalls \cup WriteCalls \cup ResetCalls

ASSUME AccountsAssumption ==
    /\ Passwords # {} /\ Sessions # {} /\ RefreshTokens # {}
    /\ AutoVerifyEmail \in BOOLEAN
    /\ Nil \notin RefreshTokens /\ Nil \notin Reasons
    /\ Nil \notin AccountRows \cup SessionRows \cup RefreshTokenRows \cup UserTokenRows \cup AccountCalls

(* An identifier that was not given out yet, if there is one.              *)
Free(table) ==
    LET unused == {id \in DOMAIN table : table[id] = Nil}
    IN IF unused = {} THEN {} ELSE {CHOOSE id \in unused : TRUE}

(***************************************************************************)
(* A fresh database, or one where everyone has an account, has proven the  *)
(* address and one of them is logged in.                                   *)
(***************************************************************************)
AccountsInit ==
    /\ userToken = [k \in UserTokens |-> Nil]
    /\ call = [g \in Goroutines |-> Nil]
    /\ \/ /\ account = [u \in Users |-> Nil]
          /\ session = [s \in Sessions |-> Nil]
          /\ refreshToken = [t \in RefreshTokens |-> Nil]
       \/ LET password == CHOOSE p \in Passwords : TRUE
              first(ids) == CHOOSE id \in ids : TRUE
          IN /\ account = [u \in Users |-> [password |-> password, verified |-> TRUE, version |-> 2]]
             /\ \E u \in Users :
                   session = [s \in Sessions |->
                                IF s = first(Sessions)
                                THEN [user |-> u, password |-> password, straddles |-> FALSE,
                                      revoked |-> Nil, expired |-> FALSE]
                                ELSE Nil]
             /\ refreshToken = [t \in RefreshTokens |->
                                  IF t = first(RefreshTokens)
                                  THEN [session |-> first(Sessions), used |-> FALSE,
                                        replaced_by |-> Nil, expired |-> FALSE]
                                  ELSE Nil]

(* The goroutine that takes the next request: they are interchangeable.    *)
Idle(g) == g \in Free(call)

At(g, pc) == call[g] # Nil /\ call[g].pc = pc

Goto(g, pc) == call' = [call EXCEPT ![g].pc = pc]

Done(g) == call' = [call EXCEPT ![g] = Nil]

(* AuthSession.IsActive                                                    *)
IsActive(s) == session[s] # Nil /\ session[s].revoked = Nil /\ ~session[s].expired

-----------------------------------------------------------------------------
(* The statements: the rows they insert and what they leave of a table.    *)

CreateUser(password) == [password |-> password, verified |-> AutoVerifyEmail, version |-> 1]

(* Its WHERE asks for the version the row was read at; the callers do.     *)
UpdateUser(u, password, verified) ==
    account' = [account EXCEPT ![u] = [password |-> password, verified |-> verified,
                                       version |-> @.version + 1]]

CreateUserToken(u, purpose) ==
    [user |-> u, purpose |-> purpose, consumed |-> FALSE, expired |-> FALSE]

ConsumeUserToken(k) == [userToken EXCEPT ![k].consumed = TRUE]

ConsumeAllForPurpose(u, purpose) ==
    [k \in UserTokens |->
        IF userToken[k] # Nil /\ userToken[k].user = u /\ userToken[k].purpose = purpose
        THEN [userToken[k] EXCEPT !.consumed = TRUE]
        ELSE userToken[k]]

(* straddles records that the password compared is no longer the account's.*)
CreateSession(u, password) ==
    [user |-> u, password |-> password, straddles |-> account[u].password # password,
     revoked |-> Nil, expired |-> FALSE]

CreateRefreshToken(s) ==
    [session |-> s, used |-> FALSE, replaced_by |-> Nil, expired |-> FALSE]

MarkRefreshTokenUsed(old, new) ==
    [refreshToken EXCEPT ![old].used = TRUE, ![old].replaced_by = new]

(* The first reason stays.                                                 *)
MarkRevoked(s, reason) == [session[s] EXCEPT !.revoked = IF @ = Nil THEN reason ELSE @]

RevokeAllSessions(u, reason) ==
    [s \in Sessions |-> IF session[s] # Nil /\ session[s].user = u
                        THEN MarkRevoked(s, reason) ELSE session[s]]

-----------------------------------------------------------------------------
(* Sign-up and login                                                       *)

Signup(u, p, k) ==
    /\ account[u] = Nil
    /\ k \in Free(userToken)
    /\ account' = [account EXCEPT ![u] = CreateUser(p)]
    /\ userToken' = IF AutoVerifyEmail THEN userToken
                    ELSE [userToken EXCEPT ![k] = CreateUserToken(u, "email_verify")]
    /\ UNCHANGED <<session, refreshToken, call>>

(* The account is read and the password compared with its hash; an old     *)
(* hash is to be upgraded.                                                 *)
Login(g, u, p) ==
    /\ Idle(g)
    /\ account[u] # Nil
    /\ account[u].password = p
    /\ account[u].verified
    /\ \E pc \in {"rehash", "open"} :
          call' = [call EXCEPT ![g] = [op |-> "login", pc |-> pc, user |-> u,
                                       password |-> p, version |-> account[u].version]]
    /\ UNCHANGED <<account, session, refreshToken, userToken>>

(* Mutant: the upgraded hash is written whatever happened to the account.  *)
RehashBlindly(g) ==
    /\ At(g, "rehash")
    /\ UpdateUser(call[g].user, call[g].password, account[call[g].user].verified)
    /\ Goto(g, "open")
    /\ UNCHANGED <<session, refreshToken, userToken>>

(* rehashPassword writes the row it read, under its version; a conflict is *)
(* only logged.                                                            *)
Rehash(g) ==
    /\ At(g, "rehash")
    /\ IF account[call[g].user].version = call[g].version
       THEN UpdateUser(call[g].user, call[g].password, account[call[g].user].verified)
       ELSE UNCHANGED account
    /\ Goto(g, "open")
    /\ UNCHANGED <<session, refreshToken, userToken>>

(* openSession: the session and its first refresh token in one             *)
(* transaction. The account is not read again.                             *)
OpenSession(g, s, t) ==
    /\ At(g, "open")
    /\ s \in Free(session) /\ t \in Free(refreshToken)
    /\ session' = [session EXCEPT ![s] = CreateSession(call[g].user, call[g].password)]
    /\ refreshToken' = [refreshToken EXCEPT ![t] = CreateRefreshToken(s)]
    /\ Done(g)
    /\ UNCHANGED <<account, userToken>>

-----------------------------------------------------------------------------
(* Refresh                                                                 *)

(* What a revocation of one session is going to tell.                      *)
Revoking(g, s, reason) ==
    call' = [call EXCEPT ![g] =
                [op |-> "revoke", pc |-> "revoke", session |-> s, reason |-> reason,
                 event |-> [scope |-> "session", user |-> session[s].user, session |-> s]]]

(* The token is read: one that was exchanged before is a replay.           *)
Refresh(g, t) ==
    /\ Idle(g)
    /\ refreshToken[t] # Nil
    /\ IF refreshToken[t].used
       THEN Revoking(g, refreshToken[t].session, "refresh_token_reuse_detected")
       ELSE /\ ~refreshToken[t].expired
            /\ call' = [call EXCEPT ![g] = [op |-> "refresh", pc |-> "session", token |-> t]]
    /\ UNCHANGED <<account, session, refreshToken, userToken>>

GetSession(g) ==
    /\ At(g, "session")
    /\ IF IsActive(refreshToken[call[g].token].session) THEN Goto(g, "rotate") ELSE Done(g)
    /\ UNCHANGED <<account, session, refreshToken, userToken>>

(* Mutant: MarkRefreshTokenUsed does not ask whether it is used.           *)
RotateUnguarded(g, t) ==
    LET old == call[g].token
    IN /\ At(g, "rotate")
       /\ t \in Free(refreshToken)
       /\ refreshToken' = [MarkRefreshTokenUsed(old, t) EXCEPT
                             ![t] = CreateRefreshToken(refreshToken[old].session)]
       /\ Done(g)
       /\ UNCHANGED <<account, session, userToken>>

(* Mutant: the old token does not name its successor.                      *)
RotateUnlinked(g, t) ==
    LET old == call[g].token
    IN /\ At(g, "rotate")
       /\ t \in Free(refreshToken)
       /\ ~refreshToken[old].used
       /\ refreshToken' = [refreshToken EXCEPT
                             ![old].used = TRUE,
                             ![t] = CreateRefreshToken(refreshToken[old].session)]
       /\ Done(g)
       /\ UNCHANGED <<account, session, userToken>>

(* The rotation, one transaction: the successor is inserted and the old    *)
(* token marked used if it is not. If it is, everything is rolled back and *)
(* the race is taken for a replay. Whether the session is still active is  *)
(* not asked again.                                                        *)
Rotate(g, t) ==
    LET old == call[g].token
        s   == refreshToken[old].session
    IN /\ At(g, "rotate")
       /\ t \in Free(refreshToken)
       /\ IF refreshToken[old].used
          THEN /\ Revoking(g, s, "refresh_token_reuse_detected")
               /\ UNCHANGED refreshToken
          ELSE /\ refreshToken' = [MarkRefreshTokenUsed(old, t) EXCEPT ![t] = CreateRefreshToken(s)]
               /\ Done(g)
       /\ UNCHANGED <<account, session, userToken>>

-----------------------------------------------------------------------------
(* Revocation of one session                                               *)

Logout(g, t) ==
    /\ Idle(g)
    /\ refreshToken[t] # Nil
    /\ Revoking(g, refreshToken[t].session, "logout")
    /\ UNCHANGED <<account, session, refreshToken, userToken>>

(* The owner ends a session from the list of devices.                      *)
RevokeSession(g, s) ==
    /\ Idle(g)
    /\ session[s] # Nil
    /\ Revoking(g, s, "revoked_by_user")
    /\ UNCHANGED <<account, session, refreshToken, userToken>>

Revoke(g) ==
    /\ At(g, "revoke")
    /\ session' = [session EXCEPT ![call[g].session] = MarkRevoked(call[g].session, call[g].reason)]
    /\ Goto(g, "announce")
    /\ UNCHANGED <<account, refreshToken, userToken>>

(* The statement fails: a replay is announced all the same, a logout or a  *)
(* revocation by the owner is given up.                                    *)
RevokeFails(g) ==
    /\ At(g, "revoke")
    /\ IF call[g].reason = "refresh_token_reuse_detected" THEN Goto(g, "announce") ELSE Done(g)
    /\ UNCHANGED <<account, session, refreshToken, userToken>>

-----------------------------------------------------------------------------
(* Mailed links                                                            *)

(* The outstanding links die with the new one, in one transaction.         *)
RequestPasswordReset(u, k) ==
    /\ account[u] # Nil
    /\ k \in Free(userToken)
    /\ userToken' = [ConsumeAllForPurpose(u, "password_reset") EXCEPT
                        ![k] = CreateUserToken(u, "password_reset")]
    /\ UNCHANGED <<account, session, refreshToken, call>>

(* consumeUserToken up to its guard: VerifyEmail and ResetPassword find    *)
(* the token unspent.                                                      *)
FollowLink(g, k) ==
    /\ Idle(g)
    /\ userToken[k] # Nil
    /\ ~userToken[k].consumed /\ ~userToken[k].expired
    /\ call' = [call EXCEPT ![g] = [op |-> "link", pc |-> "consume", token |-> k]]
    /\ UNCHANGED <<account, session, refreshToken, userToken>>

(* The row of a token another transaction is spending is locked.           *)
Locked(k, g) ==
    \E h \in Goroutines \ {g} : At(h, "write") /\ call[h].token = k

(* The guarded UPDATE that spends the token, and the account as read.      *)
Consume(g) ==
    LET k == call[g].token
    IN /\ At(g, "consume")
       /\ ~Locked(k, g)
       /\ IF userToken[k].consumed
          THEN Done(g)
          ELSE call' = [call EXCEPT ![g] = [pc |-> "write", op |-> "link", token |-> k,
                                            verified |-> account[userToken[k].user].verified,
                                            version |-> account[userToken[k].user].version]]
       /\ UNCHANGED <<account, session, refreshToken, userToken>>

(* The rest of the transaction and its commit. A verification proves the   *)
(* address; a reset sets the new password p, proves the address as well,   *)
(* revokes every session of the account and is then announced. An account  *)
(* changed in between is a version conflict, which rolls everything back.  *)
WriteAccount(g, p) ==
    LET k == call[g].token
        u == userToken[k].user
    IN /\ At(g, "write")
       /\ IF userToken[k].purpose = "email_verify"
          THEN IF call[g].verified \/ account[u].version = call[g].version
               THEN /\ userToken' = ConsumeUserToken(k)
                    /\ IF call[g].verified THEN UNCHANGED account
                                           ELSE UpdateUser(u, account[u].password, TRUE)
                    /\ UNCHANGED session
                    /\ Done(g)
               ELSE Done(g) /\ UNCHANGED <<account, userToken, session>>
          ELSE IF account[u].version = call[g].version
               THEN /\ userToken' = ConsumeUserToken(k)
                    /\ UpdateUser(u, p, TRUE)
                    /\ session' = RevokeAllSessions(u, "password_reset")
                    /\ call' = [call EXCEPT ![g] = [op |-> "reset", pc |-> "announce",
                                                    event |-> [scope |-> "user", user |-> u, session |-> Nil]]]
               ELSE Done(g) /\ UNCHANGED <<account, userToken, session>>
       /\ UNCHANGED refreshToken

-----------------------------------------------------------------------------
(* Time                                                                    *)

ExpireSession(s) ==
    /\ session[s] # Nil /\ ~session[s].expired
    /\ session' = [session EXCEPT ![s].expired = TRUE]
    /\ UNCHANGED <<account, refreshToken, userToken, call>>

ExpireRefreshToken(t) ==
    /\ refreshToken[t] # Nil /\ ~refreshToken[t].expired
    /\ refreshToken' = [refreshToken EXCEPT ![t].expired = TRUE]
    /\ UNCHANGED <<account, session, userToken, call>>

ExpireUserToken(k) ==
    /\ userToken[k] # Nil /\ ~userToken[k].expired
    /\ userToken' = [userToken EXCEPT ![k].expired = TRUE]
    /\ UNCHANGED <<account, session, refreshToken, call>>

(***************************************************************************)
(* What clients and the clock begin, and what the server then goes on with.*)
(***************************************************************************)
AccountRequest ==
    \/ \E u \in Users, p \in Passwords, k \in UserTokens : Signup(u, p, k)
    \/ \E g \in Goroutines :
          \/ \E u \in Users, p \in Passwords : Login(g, u, p)
          \/ \E t \in RefreshTokens : Refresh(g, t) \/ Logout(g, t)
          \/ \E s \in Sessions : RevokeSession(g, s)
          \/ \E k \in UserTokens : FollowLink(g, k)
    \/ \E u \in Users, k \in UserTokens : RequestPasswordReset(u, k)
    \/ \E s \in Sessions : ExpireSession(s)
    \/ \E t \in RefreshTokens : ExpireRefreshToken(t)
    \/ \E k \in UserTokens : ExpireUserToken(k)

AccountStep(g) ==
    \/ Rehash(g)
    \/ \E s \in Sessions, t \in RefreshTokens : OpenSession(g, s, t)
    \/ GetSession(g)
    \/ \E t \in RefreshTokens : Rotate(g, t)
    \/ Revoke(g)
    \/ RevokeFails(g)
    \/ Consume(g)
    \/ \E p \in Passwords : WriteAccount(g, p)

-----------------------------------------------------------------------------
AccountsTypeOK ==
    /\ account \in [Users -> AccountRows \cup {Nil}]
    /\ session \in [Sessions -> SessionRows \cup {Nil}]
    /\ refreshToken \in [RefreshTokens -> RefreshTokenRows \cup {Nil}]
    /\ userToken \in [UserTokens -> UserTokenRows \cup {Nil}]

(***************************************************************************)
(* A rotation chain never forks (repository/session.go,                    *)
(* MarkRefreshTokenUsed): a session has at most one token that can still   *)
(* be exchanged, and no two tokens were exchanged for the same one,        *)
(* however many refreshes race.                                            *)
(***************************************************************************)
RotationLinear ==
    \A a, b \in RefreshTokens :
        (a # b /\ refreshToken[a] # Nil /\ refreshToken[b] # Nil) =>
            /\ (refreshToken[a].session = refreshToken[b].session)
                   => refreshToken[a].used \/ refreshToken[b].used
            /\ (refreshToken[a].replaced_by # Nil)
                   => refreshToken[a].replaced_by # refreshToken[b].replaced_by

(***************************************************************************)
(* A password reset leaves no session of an old password alive             *)
(* (service/auth.go, ResetPassword), and nothing brings the old password   *)
(* back: a usable session was opened with the account's password. The one  *)
(* exception is a login that compared the old password before the reset    *)
(* and opened its session after it.                                        *)
(***************************************************************************)
ResetSeversSessions ==
    \A s \in Sessions :
        IsActive(s) => session[s].password = account[session[s].user].password \/ session[s].straddles
=============================================================================
