--------------------------- MODULE Server_proofs ---------------------------
(***************************************************************************)
(* Every state of the server is well typed, and what a row or a request    *)
(* under way refers to exists.  The effects of each kind of step, on which *)
(* Accounts_proofs and Trip_proofs build.                                  *)
(***************************************************************************)
EXTENDS Server, TLAPS

(* An identifier given out was not in use.                                  *)
LEMMA FreeId ==
  ASSUME NEW table, NEW id \in Free(table)
  PROVE  id \in DOMAIN table /\ table[id] = Nil
  BY DEF Free

CallTypeOK == call \in [Goroutines -> Calls \cup {Nil}]

(* The steps each kind of request goes through.                             *)
LEMMA CallSteps ==
  /\ \A x \in LoginCalls : x.op = "login" /\ x.pc \in {"rehash", "open"}
  /\ \A x \in RefreshCalls : x.op = "refresh" /\ x.pc \in {"session", "rotate"}
  /\ \A x \in RevokeCalls : x.op = "revoke" /\ x.pc \in {"revoke", "announce"}
  /\ \A x \in ConsumeCalls : x.op = "link" /\ x.pc = "consume"
  /\ \A x \in WriteCalls : x.op = "link" /\ x.pc = "write"
  /\ \A x \in ResetCalls : x.op = "reset" /\ x.pc = "announce"
  /\ \A x \in TicketCalls : x.op = "ticket" /\ x.pc = "issue"
  /\ \A x \in InviteCalls : x.op = "invite" /\ x.pc \in {"invite", "withdraw"}
  /\ \A x \in RedeemCalls : x.op = "redeem" /\ x.pc \in {"count", "member", "add"}
  /\ \A x \in MediaCalls : x.op = "media" /\ x.pc \in {"link", "reserve", "reserve_cover", "search", "apply"}
  /\ \A x \in FileCalls : x.op = "media" /\ x.pc \in {"stat", "confirm", "reject", "remove"}
  /\ \A x \in CoverCalls : x.op = "media" /\ x.pc \in {"stat_cover", "confirm_cover", "reject_cover"}
  /\ \A x \in DiscardCalls : x.op = "media" /\ x.pc = "discard"
  /\ \A x \in SweepCalls : x.op = "media" /\ x.pc = "sweep"
  /\ \A x \in TombstoneCalls : x.op = "media" /\ x.pc = "tombstone"
  BY DEF LoginCalls, RefreshCalls, RevokeCalls, ConsumeCalls, WriteCalls, ResetCalls, TicketCalls,
         InviteCalls, RedeemCalls, MediaCalls, FileCalls, CoverCalls, DiscardCalls, SweepCalls,
         TombstoneCalls

(* The step a goroutine takes next tells what it has read.                  *)
LEMMA CallAt ==
  ASSUME CallTypeOK, NEW g \in Goroutines
  PROVE  /\ At(g, "rehash") \/ At(g, "open") => call[g] \in LoginCalls
         /\ At(g, "session") \/ At(g, "rotate") => call[g] \in RefreshCalls
         /\ At(g, "revoke") => call[g] \in RevokeCalls
         /\ At(g, "announce") => call[g] \in RevokeCalls \cup ResetCalls
         /\ At(g, "consume") => call[g] \in ConsumeCalls
         /\ At(g, "write") => call[g] \in WriteCalls
         /\ At(g, "issue") => call[g] \in TicketCalls
         /\ At(g, "invite") \/ At(g, "withdraw") => call[g] \in InviteCalls
         /\ At(g, "count") \/ At(g, "member") \/ At(g, "add") => call[g] \in RedeemCalls
         /\ At(g, "link") \/ At(g, "reserve") \/ At(g, "reserve_cover") \/ At(g, "search") \/ At(g, "apply")
               => call[g] \in MediaCalls
         /\ At(g, "stat") \/ At(g, "confirm") \/ At(g, "reject") \/ At(g, "remove")
               => call[g] \in FileCalls
         /\ At(g, "stat_cover") \/ At(g, "confirm_cover") \/ At(g, "reject_cover")
               => call[g] \in CoverCalls
         /\ At(g, "discard") => call[g] \in DiscardCalls
         /\ At(g, "sweep") => call[g] \in SweepCalls
         /\ At(g, "tombstone") => call[g] \in TombstoneCalls
<1> DEFINE x == call[g]
<1>1. x = Nil \/ x \in Calls
  BY DEF CallTypeOK
<1> HIDE DEF x
<1>2. /\ x \in Calls /\ x.pc \in {"rehash", "open"} => x \in LoginCalls
      /\ x \in Calls /\ x.pc \in {"session", "rotate"} => x \in RefreshCalls
      /\ x \in Calls /\ x.pc = "revoke" => x \in RevokeCalls
      /\ x \in Calls /\ x.pc = "announce" => x \in RevokeCalls \cup ResetCalls
      /\ x \in Calls /\ x.pc = "consume" => x \in ConsumeCalls
      /\ x \in Calls /\ x.pc = "write" => x \in WriteCalls
      /\ x \in Calls /\ x.pc = "issue" => x \in TicketCalls
      /\ x \in Calls /\ x.pc \in {"invite", "withdraw"} => x \in InviteCalls
      /\ x \in Calls /\ x.pc \in {"count", "member", "add"} => x \in RedeemCalls
      /\ x \in Calls /\ x.pc \in {"link", "reserve", "reserve_cover", "search", "apply"}
            => x \in MediaCalls
      /\ x \in Calls /\ x.pc \in {"stat", "confirm", "reject", "remove"} => x \in FileCalls
      /\ x \in Calls /\ x.pc \in {"stat_cover", "confirm_cover", "reject_cover"} => x \in CoverCalls
      /\ x \in Calls /\ x.pc = "discard" => x \in DiscardCalls
      /\ x \in Calls /\ x.pc = "sweep" => x \in SweepCalls
      /\ x \in Calls /\ x.pc = "tombstone" => x \in TombstoneCalls
  BY CallSteps DEF Calls, AccountCalls
<1> QED
  BY <1>1, <1>2 DEF At, x

-----------------------------------------------------------------------------
(* Rows are never deleted, and a session never changes hands.               *)
RowsKept ==
    /\ \A u \in Users : account[u] # Nil => account'[u] # Nil
    /\ \A s \in Sessions : session[s] # Nil => session'[s] # Nil /\ session'[s].user = session[s].user
    /\ \A t \in RefreshTokens : refreshToken[t] # Nil => refreshToken'[t] # Nil
    /\ \A k \in UserTokens : userToken[k] # Nil => userToken'[k] # Nil
    /\ trip # Nil => trip' # Nil
    /\ \A i \in Invites : invite[i] # Nil => invite'[i] # Nil

(* A goroutine goes on from a call in one set to a call in that set, or to  *)
(* none.                                                                    *)
CallStep(kinds) ==
    \/ UNCHANGED call
    \/ \E g \in Goroutines : \E x \in kinds \cup {Nil} :
          /\ call' = [call EXCEPT ![g] = x]
          /\ call[g] \in kinds \cup {Nil}
          /\ x # Nil => FoundRows(x)'

RosterCalls == InviteCalls \cup RedeemCalls

AllMediaCalls ==
    MediaCalls \cup FileCalls \cup CoverCalls \cup DiscardCalls \cup SweepCalls \cup TombstoneCalls

(* What a request has found stays while rows stay.                          *)
LEMMA FoundRowsKept ==
  ASSUME RowsKept, NEW x \in Calls, FoundRows(x)
  PROVE  FoundRows(x)'
<1>1. /\ x.op = "login" => x \in LoginCalls
      /\ x.op = "refresh" => x \in RefreshCalls
      /\ x.op = "revoke" => x \in RevokeCalls
      /\ x.op = "link" => x \in ConsumeCalls \cup WriteCalls
      /\ x.op = "ticket" => x \in TicketCalls
      /\ x.op = "redeem" => x \in RedeemCalls
  BY CallSteps DEF Calls, AccountCalls
<1>2. /\ x \in LoginCalls => x.user \in Users
      /\ x \in RefreshCalls => x.token \in RefreshTokens
      /\ x \in RevokeCalls => x.session \in Sessions
      /\ x \in ConsumeCalls \cup WriteCalls => x.token \in UserTokens
      /\ x \in TicketCalls => x.session \in Sessions
      /\ x \in RedeemCalls => x.invite \in Invites
  BY DEF LoginCalls, RefreshCalls, RevokeCalls, ConsumeCalls, WriteCalls, TicketCalls, RedeemCalls
<1> QED
  BY <1>1, <1>2 DEF FoundRows, RowsKept

(* So the calls keep their types and what they found, if the new one does.  *)
LEMMA CallsKept ==
  ASSUME CallTypeOK, CallReferences, RowsKept,
         NEW kinds, kinds \subseteq Calls, CallStep(kinds)
  PROVE  CallTypeOK' /\ CallReferences'
<1>1. \A x \in Calls : FoundRows(x) => FoundRows(x)'
  BY FoundRowsKept
<1>2. \A h \in Goroutines : call[h] # Nil => call[h] \in Calls /\ FoundRows(call[h])
  BY DEF CallTypeOK, CallReferences
<1>3. \A h \in Goroutines : \A x : x = call[h] /\ x # Nil => x \in Calls /\ FoundRows(x)'
  BY <1>1, <1>2
<1>4. SUFFICES /\ CallTypeOK'
               /\ \A h \in Goroutines : \A x : x = call'[h] /\ x # Nil => FoundRows(x)'
  BY DEF CallReferences, FoundRows
<1>5. CASE UNCHANGED call
  BY <1>3, <1>5 DEF CallTypeOK
<1>6. CASE \E g \in Goroutines : \E x \in kinds \cup {Nil} :
          call' = [call EXCEPT ![g] = x] /\ (x # Nil => FoundRows(x)')
  <2>1. PICK g \in Goroutines, x \in kinds \cup {Nil} :
          call' = [call EXCEPT ![g] = x] /\ (x # Nil => FoundRows(x)')
    BY <1>6
  <2>2. \A h \in Goroutines : call'[h] = IF h = g THEN x ELSE call[h]
    BY <2>1 DEF CallTypeOK
  <2>3. CallTypeOK'
    BY <2>1 DEF CallTypeOK
  <2> QED
    BY <2>1, <2>2, <2>3, <1>3
<1> QED
  BY <1>5, <1>6 DEF CallStep

(* A request that is no longer served, and one that goes on to another step.*)
LEMMA CallEnds ==
  ASSUME NEW kinds, NEW g \in Goroutines, call[g] \in kinds, Done(g)
  PROVE  CallStep(kinds)
  BY DEF CallStep, Done

(* A request that an idle goroutine takes up.                                *)
LEMMA CallBegins ==
  ASSUME NEW kinds, NEW g \in Goroutines, Idle(g), NEW x \in kinds,
         call' = [call EXCEPT ![g] = x], FoundRows(x)'
  PROVE  CallStep(kinds)
<1>1. call[g] = Nil
  BY FreeId DEF Idle
<1> QED
  BY <1>1 DEF CallStep
-----------------------------------------------------------------------------
(* What the roster's actions do: they touch its tables and its calls.       *)
RosterEffect ==
    /\ UNCHANGED <<account, session, refreshToken, userToken>>
    /\ CallStep(RosterCalls)
    /\ RosterTypeOK' /\ RosterReferences' /\ RowsKept

(* TripDelete keeps every row typed and every reference, and the rest as it  *)
(* was.                                                                      *)
LEMMA TripDeleteEffect ==
  ASSUME TypeOK, NEW u \in People, TripDelete(u)
  PROVE  RosterEffect
<1>1. trip \in TripRows /\ trip' = [version |-> trip.version + 1, deleted |-> TRUE]
  BY DEF TypeOK, RosterTypeOK, TripDelete
<1>2. trip' \in TripRows
  BY <1>1 DEF TripRows
<1>3. RosterTypeOK' /\ RosterReferences' /\ RowsKept
  BY <1>2, MembershipAssumption DEF TypeOK, RosterTypeOK, RosterReferences, RowsKept, TripDelete,
     accountVars
<1> QED
  BY <1>3 DEF TripDelete, RosterEffect, CallStep, accountVars

(* UpdateRole keeps every row typed and every reference, and the rest as it  *)
(* was.                                                                      *)
LEMMA UpdateRoleEffect ==
  ASSUME TypeOK, NEW actor \in People, NEW target \in People, NEW role \in AssignableRoles,
         UpdateRole(actor, target, role)
  PROVE  RosterEffect
<1>1. RosterTypeOK' /\ RosterReferences' /\ RowsKept
  BY MembershipAssumption DEF TypeOK, RosterTypeOK, RosterReferences, RowsKept, UpdateRole, MemberRows,
     accountVars
<1> QED
  BY <1>1 DEF UpdateRole, RosterEffect, CallStep, accountVars

(* RemoveMember keeps every row typed and every reference, and the rest as   *)
(* it was.                                                                   *)
LEMMA RemoveMemberEffect ==
  ASSUME TypeOK, NEW actor \in People, NEW target \in People, RemoveMember(actor, target)
  PROVE  RosterEffect
<1>1. RosterTypeOK' /\ RosterReferences' /\ RowsKept
  BY DEF TypeOK, RosterTypeOK, RosterReferences, RowsKept, RemoveMember, accountVars
<1> QED
  BY <1>1 DEF RemoveMember, RosterEffect, CallStep, accountVars

(* ExpireInvite keeps every row typed and every reference, and the rest as   *)
(* it was.                                                                   *)
LEMMA ExpireInviteEffect ==
  ASSUME TypeOK, NEW i \in Invites, ExpireInvite(i)
  PROVE  RosterEffect
<1>1. RosterTypeOK' /\ RosterReferences' /\ RowsKept
  BY MembershipAssumption DEF TypeOK, RosterTypeOK, RosterReferences, RowsKept, ExpireInvite, InviteRows,
     accountVars
<1> QED
  BY <1>1 DEF ExpireInvite, RosterEffect, CallStep, accountVars

(* Steps that only move a goroutine on.                                     *)
LEMMA RosterUnchanged ==
  ASSUME TypeOK, UNCHANGED <<account, session, refreshToken, userToken, rosterVars>>,
         CallStep(RosterCalls)
  PROVE  RosterEffect
  BY DEF TypeOK, RosterEffect, RosterTypeOK, RosterReferences, RowsKept, rosterVars

(* AskToInvite keeps every row typed and every reference, and the rest as it *)
(* was.                                                                      *)
LEMMA AskToInviteEffect ==
  ASSUME TypeOK, NEW g \in Goroutines, NEW u \in People, NEW pc \in {"invite", "withdraw"},
         AskToInvite(g, u, pc)
  PROVE  RosterEffect
<1> DEFINE x == [op |-> "invite", pc |-> pc]
<1>1. x \in RosterCalls
  BY DEF RosterCalls, InviteCalls
<1>2. trip' # Nil
  BY DEF TypeOK, RosterReferences, AskToInvite, Require, rosterVars
<1>3. FoundRows(x)'
  BY <1>2 DEF FoundRows
<1>4. CallStep(RosterCalls)
  BY <1>1, <1>3, CallBegins DEF AskToInvite
<1> QED
  BY <1>4, RosterUnchanged DEF AskToInvite

(* RedeemInvitation keeps every row typed and every reference, and the rest  *)
(* as it was.                                                                *)
LEMMA RedeemInvitationEffect ==
  ASSUME TypeOK, NEW g \in Goroutines, NEW u \in People, NEW i \in Invites,
         RedeemInvitation(g, u, i)
  PROVE  RosterEffect
<1> DEFINE x == [op |-> "redeem", pc |-> "count", user |-> u, invite |-> i]
<1>1. x \in RosterCalls
  BY DEF RosterCalls, RedeemCalls
<1>2. FoundRows(x)'
  BY DEF FoundRows, RedeemInvitation, rosterVars
<1>3. CallStep(RosterCalls)
  BY <1>1, <1>2, CallBegins DEF RedeemInvitation
<1> QED
  BY <1>3, RosterUnchanged DEF RedeemInvitation

(* CreateInvitation keeps every row typed and every reference, and the rest  *)
(* as it was.                                                                *)
LEMMA CreateInvitationEffect ==
  ASSUME TypeOK, NEW g \in Goroutines, NEW i \in Invites, NEW email \in People \cup {Nil},
         NEW role \in AssignableRoles, NEW max \in {Nil, 1},
         CreateInvitation(g, i, email, role, max)
  PROVE  RosterEffect
<1>1. call[g] \in InviteCalls
  BY CallAt DEF TypeOK, CallTypeOK, CreateInvitation
<1>2. CallStep(RosterCalls)
  BY <1>1, CallEnds DEF CreateInvitation, RosterCalls
<1>3. trip # Nil
  <2>1. call[g] # Nil /\ call[g].op = "invite"
    BY <1>1, CallSteps, MembershipAssumption
  <2> QED
    BY <2>1 DEF TypeOK, CallReferences, FoundRows
<1>4. InsertInvitation(email, role, max) \in InviteRows
  BY DEF InsertInvitation, InviteRows
<1>5. RosterTypeOK' /\ RosterReferences' /\ RowsKept
  BY <1>3, <1>4, MembershipAssumption, FreeId DEF TypeOK, RosterTypeOK, RosterReferences, RowsKept,
     CreateInvitation
<1> QED
  BY <1>2, <1>5 DEF CreateInvitation, RosterEffect

(* RevokeInvitation keeps every row typed and every reference, and the rest  *)
(* as it was.                                                                *)
LEMMA RevokeInvitationEffect ==
  ASSUME TypeOK, NEW g \in Goroutines, NEW i \in Invites, RevokeInvitation(g, i)
  PROVE  RosterEffect
<1>1. call[g] \in InviteCalls
  BY CallAt DEF TypeOK, CallTypeOK, RevokeInvitation
<1>2. CallStep(RosterCalls)
  BY <1>1, CallEnds DEF RevokeInvitation, RosterCalls
<1>3. RosterTypeOK' /\ RosterReferences' /\ RowsKept
  BY MembershipAssumption DEF TypeOK, RosterTypeOK, RosterReferences, RowsKept, RevokeInvitation,
     InviteRows
<1> QED
  BY <1>2, <1>3 DEF RevokeInvitation, RosterEffect

(* RevokeNothing keeps every row typed and every reference, and the rest as  *)
(* it was.                                                                   *)
LEMMA RevokeNothingEffect ==
  ASSUME TypeOK, NEW g \in Goroutines, RevokeNothing(g)
  PROVE  RosterEffect
<1>1. call[g] \in InviteCalls
  BY CallAt DEF TypeOK, CallTypeOK, RevokeNothing
<1>2. CallStep(RosterCalls)
  BY <1>1, CallEnds DEF RevokeNothing, RosterCalls
<1> QED
  BY <1>2, RosterUnchanged DEF RevokeNothing

(* A redemption under way has its invitation.                               *)
LEMMA RedeemCall ==
  ASSUME TypeOK, NEW g \in Goroutines, At(g, "count") \/ At(g, "member") \/ At(g, "add")
  PROVE  /\ call[g] \in RedeemCalls /\ call[g].user \in People /\ call[g].invite \in Invites
         /\ invite[call[g].invite] \in InviteRows
         /\ trip \in TripRows
<1>1. call[g] \in RedeemCalls
  BY CallAt DEF TypeOK, CallTypeOK
<1>2. call[g].op = "redeem" /\ call[g].user \in People /\ call[g].invite \in Invites
  BY <1>1 DEF RedeemCalls
<1>3. invite[call[g].invite] # Nil
  BY <1>2 DEF TypeOK, CallReferences, FoundRows, At
<1> QED
  BY <1>1, <1>2, <1>3 DEF TypeOK, RosterTypeOK, RosterReferences

(* A redemption that goes on to its next statement.                          *)
LEMMA RedeemGoesOn ==
  ASSUME TypeOK, NEW g \in Goroutines, At(g, "count") \/ At(g, "member"),
         NEW pc \in {"member", "add"}, Goto(g, pc), UNCHANGED invite
  PROVE  CallStep(RosterCalls)
<1> DEFINE x == [call[g] EXCEPT !.pc = pc]
<1>1. call[g] \in RedeemCalls /\ call[g].invite \in Invites /\ invite[call[g].invite] # Nil
  BY RedeemCall, MembershipAssumption
<1>2. x \in RedeemCalls /\ x.op = "redeem" /\ x.invite = call[g].invite
  BY <1>1 DEF RedeemCalls
<1>3. call' = [call EXCEPT ![g] = x]
  BY DEF Goto
<1> HIDE DEF x
<1>4. \A y : y = x => FoundRows(y)'
  BY <1>1, <1>2 DEF FoundRows
<1> QED
  BY <1>1, <1>2, <1>3, <1>4 DEF CallStep, RosterCalls

(* IncrementUseCount keeps every row typed and every reference, and the rest *)
(* as it was.                                                                *)
LEMMA IncrementUseCountEffect ==
  ASSUME TypeOK, NEW g \in Goroutines, IncrementUseCount(g)
  PROVE  RosterEffect
<1>1. call[g] \in RosterCalls /\ UNCHANGED invite
  BY RedeemCall DEF IncrementUseCount, RosterCalls, rosterVars
<1>2. CASE Done(g)
  BY <1>1, <1>2, CallEnds, RosterUnchanged DEF IncrementUseCount
<1>3. CASE Goto(g, "member")
  BY <1>1, <1>3, RedeemGoesOn, RosterUnchanged DEF IncrementUseCount
<1> QED
  BY <1>2, <1>3 DEF IncrementUseCount

(* A counted use leaves an invitation an invitation.                        *)
LEMMA CountUseTyped ==
  ASSUME TypeOK, NEW i \in Invites, invite[i] \in InviteRows
  PROVE  CountUse(i) \in [Invites -> InviteRows \cup {Nil}] /\ CountUse(i)[i] \in InviteRows
         /\ \A j \in Invites \ {i} : CountUse(i)[j] = invite[j]
<1>1. [invite[i] EXCEPT !.uses = @ + 1] \in InviteRows
  BY DEF InviteRows
<1> QED
  BY <1>1 DEF TypeOK, RosterTypeOK, CountUse

(* GetMembership keeps every row typed and every reference, and the rest as  *)
(* it was.                                                                   *)
LEMMA GetMembershipEffect ==
  ASSUME TypeOK, NEW g \in Goroutines, GetMembership(g)
  PROVE  RosterEffect
<1> DEFINE i == call[g].invite
<1>1. At(g, "member") /\ call[g] \in RosterCalls /\ i \in Invites /\ invite[i] \in InviteRows
  BY RedeemCall DEF GetMembership, RosterCalls
<1>2. invite' = invite \/ invite' = CountUse(i)
  BY DEF GetMembership
<1>3. RosterTypeOK' /\ RosterReferences' /\ RowsKept
  BY <1>1, <1>2, CountUseTyped, RedeemCall, MembershipAssumption
     DEF TypeOK, RosterTypeOK, RosterReferences, RowsKept, GetMembership
<1>4. CASE Done(g)
  BY <1>1, <1>3, <1>4, CallEnds DEF GetMembership, RosterEffect
<1>5. CASE Goto(g, "add") /\ UNCHANGED invite
  BY <1>1, <1>3, <1>5, RedeemGoesOn DEF GetMembership, RosterEffect
<1> QED
  BY <1>4, <1>5 DEF GetMembership

(* AddMember keeps every row typed and every reference, and the rest as it   *)
(* was.                                                                      *)
LEMMA AddMemberEffect ==
  ASSUME TypeOK, NEW g \in Goroutines, AddMember(g)
  PROVE  RosterEffect
<1> DEFINE i == call[g].invite
           u == call[g].user
<1>1. /\ call[g] \in RosterCalls /\ i \in Invites /\ u \in People /\ invite[i] \in InviteRows
      /\ trip \in TripRows
  BY RedeemCall DEF AddMember, RosterCalls
<1>2. CallStep(RosterCalls)
  BY <1>1, CallEnds DEF AddMember
<1>3. InsertMember(invite[i].role) \in MemberRows
  BY <1>1 DEF InsertMember, InviteRows, MemberRows
<1>4. Append(joined[i], u) \in Seq(People)
  BY <1>1 DEF TypeOK, RosterTypeOK
<1>5. RosterTypeOK' /\ RosterReferences' /\ RowsKept
  <2> SUFFICES RosterTypeOK' /\ \A j \in Invites : invite[j] # Nil => invite'[j] # Nil
    BY <1>1, MembershipAssumption DEF TypeOK, RosterTypeOK, RosterReferences, RowsKept, AddMember
  <2>1. CASE member[u] = Nil /\ ~trip.deleted
    <3>1. /\ member' = [member EXCEPT ![u] = InsertMember(invite[i].role)]
          /\ invite' = CountUse(i) /\ trip' = trip
          /\ joined' = [joined EXCEPT ![i] = Append(joined[i], u)]
      BY <2>1 DEF AddMember
    <3> QED
      BY <3>1, <1>1, <1>3, <1>4, CountUseTyped, MembershipAssumption DEF TypeOK, RosterTypeOK
  <2>2. CASE ~(member[u] = Nil /\ ~trip.deleted)
    BY <2>2 DEF AddMember, TypeOK, RosterTypeOK
  <2> QED
    BY <2>1, <2>2
<1> QED
  BY <1>2, <1>5 DEF AddMember, RosterEffect

(* Every step of the roster is one of the above.                             *)
LEMMA RosterEffects ==
  ASSUME TypeOK, RosterRequest \/ \E g \in Goroutines : RosterStep(g)
  PROVE  RosterEffect
  BY TripDeleteEffect, UpdateRoleEffect, RemoveMemberEffect, ExpireInviteEffect, AskToInviteEffect,
     RedeemInvitationEffect, CreateInvitationEffect, RevokeInvitationEffect, RevokeNothingEffect,
     IncrementUseCountEffect, GetMembershipEffect, AddMemberEffect DEF RosterRequest, RosterStep
-----------------------------------------------------------------------------
(* What the actions on accounts do, while the roster stays as it is.        *)
AccountEffect ==
    /\ CallStep(AccountCalls)
    /\ AccountsTypeOK' /\ AccountReferences' /\ RowsKept

(* The statements write rows of their tables.                               *)
LEMMA NewRows ==
  /\ \A p \in Passwords : CreateUser(p) \in AccountRows
  /\ \A u \in Users, purpose \in Purposes : CreateUserToken(u, purpose) \in UserTokenRows
  /\ \A u \in Users, p \in Passwords : CreateSession(u, p) \in SessionRows
  /\ \A s \in Sessions : CreateRefreshToken(s) \in RefreshTokenRows
<1>1. \A p \in Passwords : CreateUser(p) \in AccountRows
  BY AccountsAssumption DEF CreateUser, AccountRows
<1>2. \A u \in Users, purpose \in Purposes : CreateUserToken(u, purpose) \in UserTokenRows
  BY DEF CreateUserToken, UserTokenRows
<1>3. \A u \in Users, p \in Passwords : CreateSession(u, p) \in SessionRows
  BY DEF CreateSession, SessionRows
<1>4. \A s \in Sessions : CreateRefreshToken(s) \in RefreshTokenRows
  BY DEF CreateRefreshToken, RefreshTokenRows
<1> QED
  BY <1>1, <1>2, <1>3, <1>4

(* UpdateUser counts the version of one account.                            *)
LEMMA UpdateUserTyped ==
  ASSUME AccountsTypeOK, NEW u \in Users, account[u] # Nil, NEW p \in Passwords, NEW v \in BOOLEAN,
         UpdateUser(u, p, v)
  PROVE  /\ account' \in [Users -> AccountRows \cup {Nil}]
         /\ account[u].version \in Nat
         /\ account'[u] = [password |-> p, verified |-> v, version |-> account[u].version + 1]
         /\ account'[u].password = p /\ account'[u].version = account[u].version + 1
         /\ \A w \in Users \ {u} : account'[w] = account[w]
         /\ \A w \in Users : account[w] # Nil => account'[w] # Nil
<1> DEFINE row == [password |-> p, verified |-> v, version |-> account[u].version + 1]
<1>1. account[u] \in AccountRows /\ account[u].version \in Nat
  BY DEF AccountsTypeOK, AccountRows
<1>2. row \in AccountRows /\ row.password = p /\ row.version = account[u].version + 1
  BY <1>1 DEF AccountRows
<1>3. account' = [account EXCEPT ![u] = row]
  BY DEF UpdateUser
<1> HIDE DEF row
<1>4. /\ account' \in [Users -> AccountRows \cup {Nil}]
      /\ account'[u] = row
      /\ \A w \in Users \ {u} : account'[w] = account[w]
  BY <1>2, <1>3 DEF AccountsTypeOK
<1> QED
  BY <1>1, <1>2, <1>4, AccountsAssumption DEF row

(* Steps that only move a goroutine on.                                     *)
LEMMA AccountUnchanged ==
  ASSUME TypeOK, UNCHANGED <<account, session, refreshToken, userToken, rosterVars>>,
         CallStep(AccountCalls)
  PROVE  AccountEffect
  BY DEF TypeOK, AccountEffect, AccountsTypeOK, AccountReferences, RowsKept, rosterVars

(* Signup keeps every row typed and every reference, and the rest as it was. *)
LEMMA SignupEffect ==
  ASSUME TypeOK, UNCHANGED rosterVars,
         NEW u \in Users, NEW p \in Passwords, NEW k \in UserTokens, Signup(u, p, k)
  PROVE  AccountEffect
<1>1. CreateUser(p) \in AccountRows /\ CreateUserToken(u, "email_verify") \in UserTokenRows
  BY NewRows DEF Purposes
<1>2. /\ account' = [account EXCEPT ![u] = CreateUser(p)]
      /\ userToken' = userToken \/ userToken' = [userToken EXCEPT ![k] = CreateUserToken(u, "email_verify")]
      /\ UNCHANGED <<session, refreshToken, call>> /\ userToken[k] = Nil
  BY FreeId DEF Signup
<1>3. /\ account' \in [Users -> AccountRows \cup {Nil}] /\ account'[u] # Nil
      /\ \A w \in Users : account[w] # Nil => account'[w] # Nil
  BY <1>1, <1>2, AccountsAssumption DEF TypeOK, AccountsTypeOK
<1>4. /\ userToken' \in [UserTokens -> UserTokenRows \cup {Nil}]
      /\ \A j \in UserTokens : userToken'[j] # Nil => account'[userToken'[j].user] # Nil
      /\ \A j \in UserTokens : userToken[j] # Nil => userToken'[j] # Nil
  <2>1. \A j \in UserTokens : userToken[j] # Nil => account'[userToken[j].user] # Nil
    BY <1>3 DEF TypeOK, AccountReferences, AccountsTypeOK, UserTokenRows
  <2>2. CreateUserToken(u, "email_verify").user = u
    BY DEF CreateUserToken
  <2> QED
    BY <1>1, <1>2, <1>3, <2>1, <2>2 DEF TypeOK, AccountsTypeOK
<1>5. AccountsTypeOK' /\ RowsKept
  BY <1>2, <1>3, <1>4 DEF TypeOK, AccountsTypeOK, RowsKept, rosterVars
<1>6. AccountReferences'
  <2>1. \A s \in Sessions : session[s] # Nil => account'[session[s].user] # Nil
    BY <1>3 DEF TypeOK, AccountReferences, AccountsTypeOK, SessionRows
  <2> QED
    BY <1>2, <1>4, <2>1 DEF TypeOK, AccountReferences
<1> QED
  BY <1>2, <1>5, <1>6 DEF AccountEffect, CallStep

(* Login keeps every row typed and every reference, and the rest as it was.  *)
LEMMA LoginEffect ==
  ASSUME TypeOK, UNCHANGED rosterVars,
         NEW g \in Goroutines, NEW u \in Users, NEW p \in Passwords, Login(g, u, p)
  PROVE  AccountEffect
<1>1. PICK pc \in {"rehash", "open"} :
          call' = [call EXCEPT ![g] = [op |-> "login", pc |-> pc, user |-> u,
                                       password |-> p, version |-> account[u].version]]
  BY DEF Login
<1> DEFINE x == [op |-> "login", pc |-> pc, user |-> u, password |-> p, version |-> account[u].version]
<1>2. account[u].version \in Nat /\ account'[u] # Nil
  BY DEF Login, TypeOK, AccountsTypeOK, AccountRows
<1>3. x \in AccountCalls
  BY <1>2 DEF AccountCalls, LoginCalls
<1>4. \A y : y = x => FoundRows(y)'
  BY <1>2 DEF FoundRows
<1>5. CallStep(AccountCalls)
  <2>1. call[g] = Nil /\ call' = [call EXCEPT ![g] = x]
    BY <1>1, FreeId DEF Login, Idle
  <2> HIDE DEF x
  <2> QED
    BY <2>1, <1>3, <1>4 DEF CallStep
<1> QED
  BY <1>5, AccountUnchanged DEF Login

(* What a login has read by the time it writes.                              *)
LEMMA LoginCall ==
  ASSUME TypeOK, NEW g \in Goroutines, At(g, "rehash") \/ At(g, "open")
  PROVE  /\ call[g] \in LoginCalls /\ call[g].op = "login"
         /\ call[g].user \in Users /\ call[g].password \in Passwords /\ call[g].version \in Nat
         /\ account[call[g].user] # Nil /\ account[call[g].user] \in AccountRows
<1>1. call[g] \in LoginCalls
  BY CallAt DEF TypeOK, CallTypeOK
<1>2. /\ call[g].op = "login" /\ call[g].user \in Users
      /\ call[g].password \in Passwords /\ call[g].version \in Nat
  BY <1>1 DEF LoginCalls
<1>3. account[call[g].user] # Nil
  BY <1>2 DEF TypeOK, CallReferences, FoundRows, At
<1> QED
  BY <1>1, <1>2, <1>3 DEF TypeOK, AccountsTypeOK

(* Rehash keeps every row typed and every reference, and the rest as it was. *)
LEMMA RehashEffect ==
  ASSUME TypeOK, UNCHANGED rosterVars, NEW g \in Goroutines, Rehash(g)
  PROVE  AccountEffect
<1> DEFINE u == call[g].user
           x == [call[g] EXCEPT !.pc = "open"]
<1>1. /\ call[g] \in LoginCalls /\ u \in Users /\ call[g].password \in Passwords
      /\ account[u] # Nil /\ account[u].verified \in BOOLEAN
  BY LoginCall DEF Rehash, AccountRows
<1>2. /\ account' \in [Users -> AccountRows \cup {Nil}]
      /\ \A w \in Users : account[w] # Nil => account'[w] # Nil
  BY <1>1, UpdateUserTyped DEF Rehash, TypeOK, AccountsTypeOK
<1>3. /\ x \in LoginCalls /\ x.op = "login" /\ x.user = u
      /\ call' = [call EXCEPT ![g] = x]
  BY <1>1 DEF LoginCalls, Rehash, Goto
<1>4. CallStep(AccountCalls)
  <2> HIDE DEF x
  <2>1. \A y : y = x => FoundRows(y)'
    BY <1>1, <1>2, <1>3 DEF FoundRows
  <2> QED
    BY <2>1, <1>1, <1>3 DEF CallStep, AccountCalls
<1>5. AccountsTypeOK' /\ RowsKept
  BY <1>2 DEF TypeOK, AccountsTypeOK, RowsKept, Rehash, rosterVars
<1>6. AccountReferences'
  BY <1>2 DEF TypeOK, AccountsTypeOK, AccountReferences, Rehash, SessionRows, UserTokenRows
<1> QED
  BY <1>4, <1>5, <1>6 DEF AccountEffect

(* OpenSession keeps every row typed and every reference, and the rest as it *)
(* was.                                                                      *)
LEMMA OpenSessionEffect ==
  ASSUME TypeOK, UNCHANGED rosterVars,
         NEW g \in Goroutines, NEW s \in Sessions, NEW t \in RefreshTokens, OpenSession(g, s, t)
  PROVE  AccountEffect
<1> DEFINE u == call[g].user
           new == CreateSession(u, call[g].password)
<1>1. call[g] \in AccountCalls /\ u \in Users /\ call[g].password \in Passwords /\ account[u] # Nil
  BY LoginCall DEF OpenSession, AccountCalls
<1>2. CallStep(AccountCalls)
  BY <1>1, CallEnds DEF OpenSession
<1>3. new \in SessionRows /\ new.user = u /\ CreateRefreshToken(s) \in RefreshTokenRows
  BY <1>1, NewRows DEF CreateSession
<1>4. /\ session' = [session EXCEPT ![s] = new] /\ session[s] = Nil
      /\ refreshToken' = [refreshToken EXCEPT ![t] = CreateRefreshToken(s)] /\ refreshToken[t] = Nil
      /\ UNCHANGED <<account, userToken>>
  BY FreeId DEF OpenSession
<1> HIDE DEF new
<1>5. AccountsTypeOK' /\ RowsKept
  BY <1>3, <1>4 DEF TypeOK, AccountsTypeOK, RowsKept, rosterVars
<1>6. \A r \in Sessions : session'[r] # Nil => account'[session'[r].user] # Nil
  BY <1>1, <1>3, <1>4 DEF TypeOK, AccountsTypeOK, AccountReferences
<1>7. ASSUME NEW a \in RefreshTokens, refreshToken'[a] # Nil
      PROVE  /\ session'[refreshToken'[a].session] # Nil
             /\ refreshToken'[a].used <=> refreshToken'[a].replaced_by # Nil
             /\ refreshToken'[a].used => refreshToken'[refreshToken'[a].replaced_by] # Nil
  <2>1. CASE a = t
    <3>1. refreshToken'[a] = CreateRefreshToken(s) /\ session'[s] # Nil
      BY <2>1, <1>3, <1>4, AccountsAssumption DEF TypeOK, AccountsTypeOK
    <3> QED
      BY <3>1 DEF CreateRefreshToken
  <2>2. CASE a # t
    <3>1. refreshToken'[a] = refreshToken[a] /\ refreshToken[a] \in RefreshTokenRows
      BY <2>2, <1>4, <1>7 DEF TypeOK, AccountsTypeOK
    <3>2. refreshToken[a].session \in Sessions
      BY <3>1 DEF RefreshTokenRows
    <3> QED
      BY <3>1, <3>2, <1>5, <1>7 DEF TypeOK, AccountReferences, RowsKept, RefreshTokenRows
  <2> QED
    BY <2>1, <2>2
<1>8. AccountReferences'
  BY <1>4, <1>6, <1>7 DEF TypeOK, AccountReferences
<1> QED
  BY <1>2, <1>5, <1>8 DEF AccountEffect

(* The request that ends a session, and knows whose it is.                  *)
LEMMA RevokingStep ==
  ASSUME TypeOK, NEW g \in Goroutines, call[g] \in AccountCalls \cup {Nil},
         NEW s \in Sessions, session[s] # Nil, NEW reason \in Reasons,
         Revoking(g, s, reason), UNCHANGED session
  PROVE  CallStep(AccountCalls)
<1> DEFINE x == [op |-> "revoke", pc |-> "revoke", session |-> s, reason |-> reason,
                 event |-> [scope |-> "session", user |-> session[s].user, session |-> s]]
<1>1. session[s].user \in Users
  BY DEF TypeOK, AccountsTypeOK, SessionRows
<1>2. x \in AccountCalls
  BY <1>1 DEF AccountCalls, RevokeCalls
<1>3. \A y : y = x => FoundRows(y)'
  BY DEF FoundRows
<1>4. call' = [call EXCEPT ![g] = x]
  BY DEF Revoking
<1> HIDE DEF x
<1> QED
  BY <1>2, <1>3, <1>4 DEF CallStep

(* A refresh token has its session.                                         *)
LEMMA TokenSession ==
  ASSUME TypeOK, NEW t \in RefreshTokens, refreshToken[t] # Nil
  PROVE  /\ refreshToken[t] \in RefreshTokenRows /\ refreshToken[t].session \in Sessions
         /\ session[refreshToken[t].session] # Nil
<1>1. refreshToken[t] \in RefreshTokenRows
  BY DEF TypeOK, AccountsTypeOK
<1> QED
  BY <1>1 DEF TypeOK, AccountReferences, RefreshTokenRows

(* Refresh keeps every row typed and every reference, and the rest as it     *)
(* was.                                                                      *)
LEMMA RefreshEffect ==
  ASSUME TypeOK, UNCHANGED rosterVars, NEW g \in Goroutines, NEW t \in RefreshTokens, Refresh(g, t)
  PROVE  AccountEffect
<1> DEFINE x == [op |-> "refresh", pc |-> "session", token |-> t]
<1>1. call[g] = Nil /\ refreshToken[t] # Nil /\ UNCHANGED <<session, refreshToken>>
  BY FreeId DEF Refresh, Idle
<1>2. CASE refreshToken[t].used
  <2>1. Revoking(g, refreshToken[t].session, "refresh_token_reuse_detected")
    BY <1>2 DEF Refresh
  <2>2. CallStep(AccountCalls)
    BY <1>1, <2>1, TokenSession, RevokingStep DEF Reasons
  <2> QED
    BY <2>2, AccountUnchanged DEF Refresh
<1>3. CASE ~refreshToken[t].used
  <2>1. call' = [call EXCEPT ![g] = x]
    BY <1>3 DEF Refresh
  <2>2. x \in AccountCalls /\ FoundRows(x)'
    BY <1>1 DEF AccountCalls, RefreshCalls, FoundRows
  <2>3. CallStep(AccountCalls)
    BY <1>1, <2>1, <2>2 DEF CallStep
  <2> QED
    BY <2>3, AccountUnchanged DEF Refresh
<1> QED
  BY <1>2, <1>3

(* What a refresh has read by the time it writes.                            *)
LEMMA RefreshCall ==
  ASSUME TypeOK, NEW g \in Goroutines, At(g, "session") \/ At(g, "rotate")
  PROVE  /\ call[g] \in RefreshCalls /\ call[g].op = "refresh" /\ call[g].token \in RefreshTokens
         /\ refreshToken[call[g].token] # Nil
<1>1. call[g] \in RefreshCalls
  BY CallAt DEF TypeOK, CallTypeOK
<1>2. call[g].op = "refresh" /\ call[g].token \in RefreshTokens
  BY <1>1 DEF RefreshCalls
<1> QED
  BY <1>1, <1>2 DEF TypeOK, CallReferences, FoundRows, At

(* GetSession keeps every row typed and every reference, and the rest as it  *)
(* was.                                                                      *)
LEMMA GetSessionEffect ==
  ASSUME TypeOK, UNCHANGED rosterVars, NEW g \in Goroutines, GetSession(g)
  PROVE  AccountEffect
<1> DEFINE x == [call[g] EXCEPT !.pc = "rotate"]
<1>1. /\ call[g] \in RefreshCalls /\ call[g].token \in RefreshTokens
      /\ refreshToken[call[g].token] # Nil
  BY RefreshCall DEF GetSession
<1>2. CASE Done(g)
  <2>1. CallStep(AccountCalls)
    BY <1>1, <1>2, CallEnds DEF AccountCalls
  <2> QED
    BY <2>1, AccountUnchanged DEF GetSession
<1>3. CASE Goto(g, "rotate")
  <2>1. /\ x \in RefreshCalls /\ x.op = "refresh" /\ x.token = call[g].token
        /\ call' = [call EXCEPT ![g] = x]
    BY <1>1, <1>3 DEF RefreshCalls, Goto
  <2> HIDE DEF x
  <2>2. \A y : y = x => FoundRows(y)'
    BY <1>1, <2>1 DEF FoundRows, GetSession
  <2>3. CallStep(AccountCalls)
    BY <1>1, <2>1, <2>2 DEF CallStep, AccountCalls
  <2> QED
    BY <2>3, AccountUnchanged DEF GetSession
<1> QED
  BY <1>2, <1>3 DEF GetSession

(* What a rotation leaves of the tokens.                                    *)
LEMMA RotatedTokens ==
  ASSUME TypeOK, NEW g \in Goroutines, NEW t \in RefreshTokens, Rotate(g, t),
         ~refreshToken[call[g].token].used
  PROVE  LET old == call[g].token
         IN /\ old \in RefreshTokens /\ old # t /\ refreshToken[old] # Nil /\ refreshToken[t] = Nil
            /\ refreshToken[old] \in RefreshTokenRows
            /\ refreshToken' \in [RefreshTokens -> RefreshTokenRows \cup {Nil}]
            /\ refreshToken'[old] = [refreshToken[old] EXCEPT !.used = TRUE, !.replaced_by = t]
            /\ refreshToken'[t] = CreateRefreshToken(refreshToken[old].session)
            /\ \A a \in RefreshTokens \ {old, t} : refreshToken'[a] = refreshToken[a]
<1> DEFINE old == call[g].token
           spent == [refreshToken[old] EXCEPT !.used = TRUE, !.replaced_by = t]
           new == CreateRefreshToken(refreshToken[old].session)
<1>1. /\ old \in RefreshTokens /\ refreshToken[old] # Nil /\ refreshToken[t] = Nil
      /\ refreshToken[old] \in RefreshTokenRows
  BY RefreshCall, TokenSession, FreeId DEF Rotate
<1>2. spent \in RefreshTokenRows /\ new \in RefreshTokenRows
  BY <1>1, NewRows DEF RefreshTokenRows
<1>3. refreshToken' = [MarkRefreshTokenUsed(old, t) EXCEPT ![t] = new]
  BY DEF Rotate
<1>4. MarkRefreshTokenUsed(old, t) = [refreshToken EXCEPT ![old] = spent]
  BY <1>1 DEF MarkRefreshTokenUsed, TypeOK, AccountsTypeOK
<1> HIDE DEF spent, new, old
<1>5. /\ refreshToken' \in [RefreshTokens -> RefreshTokenRows \cup {Nil}]
      /\ refreshToken'[old] = spent /\ refreshToken'[t] = new
      /\ \A a \in RefreshTokens \ {old, t} : refreshToken'[a] = refreshToken[a]
  BY <1>1, <1>2, <1>3, <1>4 DEF TypeOK, AccountsTypeOK
<1> QED
  BY <1>1, <1>5 DEF spent, new, old

(* Rotate keeps every row typed and every reference, and the rest as it was. *)
LEMMA RotateEffect ==
  ASSUME TypeOK, UNCHANGED rosterVars, NEW g \in Goroutines, NEW t \in RefreshTokens, Rotate(g, t)
  PROVE  AccountEffect
<1> DEFINE old == call[g].token
           s == refreshToken[old].session
<1>1. call[g] \in AccountCalls /\ old \in RefreshTokens /\ refreshToken[old] # Nil
  BY RefreshCall DEF Rotate, AccountCalls
<1>2. s \in Sessions /\ session[s] # Nil /\ UNCHANGED <<account, session, userToken>>
  BY <1>1, TokenSession DEF Rotate
<1>3. CASE refreshToken[old].used
  <2>1. Revoking(g, s, "refresh_token_reuse_detected") /\ UNCHANGED refreshToken
    BY <1>3 DEF Rotate
  <2>2. CallStep(AccountCalls)
    BY <1>1, <1>2, <2>1, RevokingStep DEF Reasons
  <2> QED
    BY <1>2, <2>1, <2>2, AccountUnchanged
<1>4. CASE ~refreshToken[old].used
  <2>1. CallStep(AccountCalls)
    BY <1>1, <1>4, CallEnds DEF Rotate
  <2>2. /\ old # t /\ refreshToken[t] = Nil
        /\ refreshToken[old] \in RefreshTokenRows
        /\ refreshToken' \in [RefreshTokens -> RefreshTokenRows \cup {Nil}]
        /\ refreshToken'[old] = [refreshToken[old] EXCEPT !.used = TRUE, !.replaced_by = t]
        /\ refreshToken'[t] = CreateRefreshToken(s)
        /\ \A a \in RefreshTokens \ {old, t} : refreshToken'[a] = refreshToken[a]
    BY <1>4, RotatedTokens
  <2>3. /\ refreshToken'[old].session = s /\ refreshToken'[old].used /\ refreshToken'[old].replaced_by = t
        /\ refreshToken'[old] # Nil
    <3>1. [refreshToken[old] EXCEPT !.used = TRUE, !.replaced_by = t] \in RefreshTokenRows
      BY <2>2 DEF RefreshTokenRows
    <3> QED
      BY <2>2, <3>1, AccountsAssumption DEF RefreshTokenRows
  <2>4. /\ refreshToken'[t].session = s /\ refreshToken'[t].used = FALSE
        /\ refreshToken'[t].replaced_by = Nil /\ refreshToken'[t] # Nil
    BY <2>2, <1>2, NewRows, AccountsAssumption DEF CreateRefreshToken
  <2>5. \A a \in RefreshTokens : refreshToken[a] # Nil => refreshToken'[a] # Nil
    BY <2>2, <2>3, <2>4
  <2>6. ASSUME NEW a \in RefreshTokens, refreshToken'[a] # Nil
        PROVE  /\ session'[refreshToken'[a].session] # Nil
               /\ refreshToken'[a].used <=> refreshToken'[a].replaced_by # Nil
               /\ refreshToken'[a].used => refreshToken'[refreshToken'[a].replaced_by] # Nil
    <3>1. CASE a = old
      BY <3>1, <1>2, <2>3, <2>4, AccountsAssumption
    <3>2. CASE a = t
      BY <3>2, <1>2, <2>4
    <3>3. CASE a # old /\ a # t
      <4>1. refreshToken'[a] = refreshToken[a] /\ refreshToken[a] \in RefreshTokenRows
        BY <3>3, <2>2, <2>6, TokenSession
      <4> QED
        BY <4>1, <1>2, <2>5, <2>6 DEF TypeOK, AccountReferences, RefreshTokenRows
    <3> QED
      BY <3>1, <3>2, <3>3
  <2>7. AccountsTypeOK' /\ RowsKept
    BY <1>2, <2>2, <2>5 DEF TypeOK, AccountsTypeOK, RowsKept, rosterVars
  <2>8. AccountReferences'
    BY <1>2, <2>6 DEF TypeOK, AccountReferences
  <2> QED
    BY <2>1, <2>7, <2>8 DEF AccountEffect
<1> QED
  BY <1>3, <1>4

(* Logout keeps every row typed and every reference, and the rest as it was. *)
LEMMA LogoutEffect ==
  ASSUME TypeOK, UNCHANGED rosterVars, NEW g \in Goroutines, NEW t \in RefreshTokens, Logout(g, t)
  PROVE  AccountEffect
<1>1. call[g] = Nil
  BY FreeId DEF Logout, Idle
<1>2. CallStep(AccountCalls)
  BY <1>1, TokenSession, RevokingStep DEF Logout, Reasons
<1> QED
  BY <1>2, AccountUnchanged DEF Logout

(* RevokeSession keeps every row typed and every reference, and the rest as  *)
(* it was.                                                                   *)
LEMMA RevokeSessionEffect ==
  ASSUME TypeOK, UNCHANGED rosterVars, NEW g \in Goroutines, NEW s \in Sessions, RevokeSession(g, s)
  PROVE  AccountEffect
<1>1. call[g] = Nil
  BY FreeId DEF RevokeSession, Idle
<1>2. CallStep(AccountCalls)
  BY <1>1, RevokingStep DEF RevokeSession, Reasons
<1> QED
  BY <1>2, AccountUnchanged DEF RevokeSession

(* Marking a session revoked keeps the rest of its row.                     *)
LEMMA MarkRevokedRow ==
  ASSUME AccountsTypeOK, NEW s \in Sessions, session[s] # Nil, NEW reason \in Reasons
  PROVE  LET row == MarkRevoked(s, reason)
         IN /\ row \in SessionRows /\ row # Nil /\ row.revoked # Nil
            /\ row.user = session[s].user /\ row.password = session[s].password
            /\ row.straddles = session[s].straddles /\ row.expired = session[s].expired
<1>1. session[s] \in SessionRows
  BY DEF AccountsTypeOK
<1>2. MarkRevoked(s, reason) \in SessionRows
  BY <1>1 DEF MarkRevoked, SessionRows
<1> QED
  BY <1>1, <1>2, AccountsAssumption DEF MarkRevoked, SessionRows

(* What a revocation has read by the time it writes.                         *)
LEMMA RevokeCall ==
  ASSUME TypeOK, NEW g \in Goroutines, At(g, "revoke")
  PROVE  /\ call[g] \in RevokeCalls /\ call[g].op = "revoke" /\ call[g].reason \in Reasons
         /\ call[g].session \in Sessions /\ session[call[g].session] # Nil
         /\ call[g].event.session = call[g].session /\ call[g].event.scope = "session"
         /\ call[g].event.user = session[call[g].session].user
<1>1. call[g] \in RevokeCalls
  BY CallAt DEF TypeOK, CallTypeOK
<1>2. /\ call[g].op = "revoke" /\ call[g].session \in Sessions /\ call[g].reason \in Reasons
      /\ call[g].event.scope = "session"
  BY <1>1 DEF RevokeCalls
<1> QED
  BY <1>1, <1>2 DEF TypeOK, CallReferences, FoundRows, At

(* A revocation that is announced next has named its session.               *)
LEMMA RevokeGoesOn ==
  ASSUME TypeOK, NEW g \in Goroutines, At(g, "revoke"), Goto(g, "announce"),
         \A s \in Sessions : session[s] # Nil => session'[s] # Nil /\ session'[s].user = session[s].user
  PROVE  CallStep(AccountCalls)
<1> DEFINE x == [call[g] EXCEPT !.pc = "announce"]
<1>1. /\ call[g] \in RevokeCalls /\ call[g].session \in Sessions /\ session[call[g].session] # Nil
      /\ call[g].event.session = call[g].session
      /\ call[g].event.user = session[call[g].session].user
  BY RevokeCall
<1>2. /\ x \in RevokeCalls /\ x.op = "revoke" /\ x.session = call[g].session
      /\ x.event = call[g].event /\ call' = [call EXCEPT ![g] = x]
  BY <1>1 DEF RevokeCalls, Goto
<1> HIDE DEF x
<1>3. \A y : y = x => FoundRows(y)'
  BY <1>1, <1>2 DEF FoundRows
<1> QED
  BY <1>1, <1>2, <1>3 DEF CallStep, AccountCalls

(* Revoke keeps every row typed and every reference, and the rest as it was. *)
LEMMA RevokeEffect ==
  ASSUME TypeOK, UNCHANGED rosterVars, NEW g \in Goroutines, Revoke(g)
  PROVE  AccountEffect
<1> DEFINE s == call[g].session
           row == MarkRevoked(s, call[g].reason)
<1>1. s \in Sessions /\ session[s] # Nil /\ call[g].reason \in Reasons
  BY RevokeCall DEF Revoke
<1>2. row \in SessionRows /\ row # Nil /\ row.user = session[s].user
  BY <1>1, MarkRevokedRow DEF TypeOK
<1>3. session' = [session EXCEPT ![s] = row] /\ UNCHANGED <<account, refreshToken, userToken>>
  BY DEF Revoke
<1> HIDE DEF row
<1>4. /\ session' \in [Sessions -> SessionRows \cup {Nil}]
      /\ \A r \in Sessions : session[r] # Nil => session'[r] # Nil /\ session'[r].user = session[r].user
      /\ \A r \in Sessions : session[r] = Nil => session'[r] = Nil
  BY <1>1, <1>2, <1>3 DEF TypeOK, AccountsTypeOK
<1>5. AccountsTypeOK' /\ RowsKept
  BY <1>3, <1>4 DEF TypeOK, AccountsTypeOK, RowsKept, rosterVars
<1>6. AccountReferences'
  <2>1. \A t \in RefreshTokens : refreshToken[t] # Nil => refreshToken[t].session \in Sessions
    BY TokenSession
  <2> QED
    BY <1>3, <1>4, <2>1 DEF TypeOK, AccountReferences
<1>7. CallStep(AccountCalls)
  BY <1>4, RevokeGoesOn DEF Revoke
<1> QED
  BY <1>5, <1>6, <1>7 DEF AccountEffect

(* RevokeFails keeps every row typed and every reference, and the rest as it *)
(* was.                                                                      *)
LEMMA RevokeFailsEffect ==
  ASSUME TypeOK, UNCHANGED rosterVars, NEW g \in Goroutines, RevokeFails(g)
  PROVE  AccountEffect
<1>1. call[g] \in AccountCalls
  BY RevokeCall DEF RevokeFails, AccountCalls
<1>2. CallStep(AccountCalls)
  BY <1>1, CallEnds, RevokeGoesOn DEF RevokeFails
<1> QED
  BY <1>2, AccountUnchanged DEF RevokeFails

(* A changed link token keeps its user and its purpose.                     *)
LEMMA SpentTokens ==
  ASSUME AccountsTypeOK, NEW k \in UserTokens, userToken[k] # Nil
  PROVE  LET row == [userToken[k] EXCEPT !.consumed = TRUE]
         IN /\ userToken[k] \in UserTokenRows /\ row \in UserTokenRows /\ row # Nil
            /\ row.user = userToken[k].user /\ row.user \in Users
<1>1. userToken[k] \in UserTokenRows
  BY DEF AccountsTypeOK
<1>2. [userToken[k] EXCEPT !.consumed = TRUE] \in UserTokenRows
  BY <1>1 DEF UserTokenRows
<1> QED
  BY <1>1, <1>2, AccountsAssumption DEF UserTokenRows

(* What consuming leaves of the tokens: their types and their users.        *)
TokensKept(table) ==
    /\ table \in [UserTokens -> UserTokenRows \cup {Nil}]
    /\ \A k \in UserTokens : userToken[k] = Nil => table[k] = Nil
    /\ \A k \in UserTokens : userToken[k] # Nil => table[k] # Nil /\ table[k].user = userToken[k].user

(* Spending links keeps every link, its user and its purpose.                *)
LEMMA ConsumeKeepsTokens ==
  ASSUME AccountsTypeOK
  PROVE  /\ \A u \in Users, purpose \in Purposes : TokensKept(ConsumeAllForPurpose(u, purpose))
         /\ \A k \in UserTokens : userToken[k] # Nil => TokensKept(ConsumeUserToken(k))
<1>0. userToken \in [UserTokens -> UserTokenRows \cup {Nil}]
  BY DEF AccountsTypeOK
<1>1. ASSUME NEW u \in Users, NEW purpose \in Purposes
      PROVE  TokensKept(ConsumeAllForPurpose(u, purpose))
  <2> DEFINE table == ConsumeAllForPurpose(u, purpose)
  <2>1. DOMAIN table = UserTokens /\ \A k \in UserTokens :
           table[k] = userToken[k] \/ (userToken[k] # Nil /\ table[k] = [userToken[k] EXCEPT !.consumed = TRUE])
    BY DEF ConsumeAllForPurpose
  <2>2. table = [k \in UserTokens |-> table[k]]
    BY DEF ConsumeAllForPurpose
  <2> HIDE DEF table
  <2>3. \A k \in UserTokens : table[k] \in UserTokenRows \cup {Nil}
    BY <1>0, <2>1, SpentTokens
  <2> QED
    BY <2>1, <2>2, <2>3, SpentTokens DEF TokensKept, table
<1>2. ASSUME NEW k \in UserTokens, userToken[k] # Nil
      PROVE  TokensKept(ConsumeUserToken(k))
  <2> DEFINE row == [userToken[k] EXCEPT !.consumed = TRUE]
  <2>1. row \in UserTokenRows /\ row # Nil /\ row.user = userToken[k].user
    BY <1>2, SpentTokens
  <2>2. ConsumeUserToken(k) = [userToken EXCEPT ![k] = row]
    BY DEF ConsumeUserToken
  <2> HIDE DEF row
  <2>3. /\ [userToken EXCEPT ![k] = row] \in [UserTokens -> UserTokenRows \cup {Nil}]
        /\ \A j \in UserTokens : [userToken EXCEPT ![k] = row][j] = IF j = k THEN row ELSE userToken[j]
    BY <1>0, <2>1
  <2> QED
    BY <1>2, <2>1, <2>2, <2>3 DEF TokensKept
<1> QED
  BY <1>1, <1>2

(* RequestPasswordReset keeps every row typed and every reference, and the   *)
(* rest as it was.                                                           *)
LEMMA RequestPasswordResetEffect ==
  ASSUME TypeOK, UNCHANGED rosterVars,
         NEW u \in Users, NEW k \in UserTokens, RequestPasswordReset(u, k)
  PROVE  AccountEffect
<1> DEFINE table == ConsumeAllForPurpose(u, "password_reset")
           row == CreateUserToken(u, "password_reset")
<1>1. TokensKept(table) /\ row \in UserTokenRows /\ row.user = u /\ row # Nil
  BY ConsumeKeepsTokens, NewRows, AccountsAssumption DEF TypeOK, Purposes, CreateUserToken
<1>2. /\ userToken' = [table EXCEPT ![k] = row] /\ account[u] # Nil
      /\ UNCHANGED <<account, session, refreshToken, call>>
  BY DEF RequestPasswordReset
<1> HIDE DEF table, row
<1>3. /\ userToken' \in [UserTokens -> UserTokenRows \cup {Nil}]
      /\ \A j \in UserTokens : userToken[j] # Nil => userToken'[j] # Nil
      /\ \A j \in UserTokens : userToken'[j] # Nil =>
            userToken'[j].user = u \/ (userToken[j] # Nil /\ userToken'[j].user = userToken[j].user)
  BY <1>1, <1>2 DEF TokensKept
<1>4. AccountsTypeOK' /\ RowsKept
  BY <1>2, <1>3 DEF TypeOK, AccountsTypeOK, RowsKept, rosterVars
<1>5. AccountReferences'
  BY <1>2, <1>3 DEF TypeOK, AccountReferences
<1> QED
  BY <1>2, <1>4, <1>5 DEF AccountEffect, CallStep

(* FollowLink keeps every row typed and every reference, and the rest as it  *)
(* was.                                                                      *)
LEMMA FollowLinkEffect ==
  ASSUME TypeOK, UNCHANGED rosterVars, NEW g \in Goroutines, NEW k \in UserTokens, FollowLink(g, k)
  PROVE  AccountEffect
<1> DEFINE x == [op |-> "link", pc |-> "consume", token |-> k]
<1>1. x \in AccountCalls /\ FoundRows(x)'
  BY DEF AccountCalls, ConsumeCalls, FoundRows, FollowLink
<1>2. CallStep(AccountCalls)
  BY <1>1, CallBegins DEF FollowLink
<1> QED
  BY <1>2, AccountUnchanged DEF FollowLink

(* What a request that follows a link has read.                              *)
LEMMA LinkCall ==
  ASSUME TypeOK, NEW g \in Goroutines, At(g, "consume") \/ At(g, "write")
  PROVE  /\ call[g] \in ConsumeCalls \cup WriteCalls /\ call[g].token \in UserTokens
         /\ userToken[call[g].token] # Nil /\ userToken[call[g].token].user \in Users
         /\ account[userToken[call[g].token].user] # Nil
         /\ account[userToken[call[g].token].user] \in AccountRows
<1>1. call[g] \in ConsumeCalls \cup WriteCalls
  BY CallAt DEF TypeOK, CallTypeOK
<1>2. call[g].op = "link" /\ call[g].token \in UserTokens
  BY <1>1 DEF ConsumeCalls, WriteCalls
<1>3. userToken[call[g].token] # Nil
  BY <1>2 DEF TypeOK, CallReferences, FoundRows, At
<1>4. userToken[call[g].token].user \in Users
  BY <1>2, <1>3, SpentTokens DEF TypeOK, UserTokenRows
<1> QED
  BY <1>1, <1>2, <1>3, <1>4 DEF TypeOK, AccountReferences, AccountsTypeOK

(* Consume keeps every row typed and every reference, and the rest as it     *)
(* was.                                                                      *)
LEMMA ConsumeEffect ==
  ASSUME TypeOK, UNCHANGED rosterVars, NEW g \in Goroutines, Consume(g)
  PROVE  AccountEffect
<1> DEFINE k == call[g].token
           u == userToken[k].user
           x == [pc |-> "write", op |-> "link", token |-> k, verified |-> account[u].verified,
                 version |-> account[u].version]
<1>1. /\ call[g] \in AccountCalls /\ k \in UserTokens /\ userToken[k] # Nil
      /\ account[u].verified \in BOOLEAN /\ account[u].version \in Nat
  BY LinkCall DEF Consume, AccountCalls, AccountRows
<1>2. CASE Done(g)
  BY <1>1, <1>2, CallEnds, AccountUnchanged DEF Consume
<1>3. CASE call' = [call EXCEPT ![g] = x]
  <2>1. x \in AccountCalls /\ x.op = "link" /\ x.token = k
    BY <1>1 DEF AccountCalls, WriteCalls
  <2> HIDE DEF x
  <2>2. \A y : y = x => FoundRows(y)'
    <3>1. userToken'[k] # Nil
      BY <1>1 DEF Consume
    <3> HIDE DEF k
    <3> QED
      BY <2>1, <3>1 DEF FoundRows
  <2>3. CallStep(AccountCalls)
    BY <1>1, <1>3, <2>1, <2>2 DEF CallStep
  <2> QED
    BY <2>3, AccountUnchanged DEF Consume
<1> QED
  BY <1>2, <1>3 DEF Consume

(* Revoking every session of a user keeps the rest of the rows.             *)
LEMMA RevokeAllRows ==
  ASSUME AccountsTypeOK, NEW u \in Users, NEW reason \in Reasons
  PROVE  LET table == RevokeAllSessions(u, reason)
         IN /\ table \in [Sessions -> SessionRows \cup {Nil}]
            /\ \A s \in Sessions : session[s] = Nil => table[s] = Nil
            /\ \A s \in Sessions : session[s] # Nil =>
                  /\ table[s] # Nil /\ table[s].user = session[s].user
                  /\ session[s].user = u => table[s].revoked # Nil
                  /\ session[s].user # u => table[s] = session[s]
<1> DEFINE table == RevokeAllSessions(u, reason)
<1>1. table = [s \in Sessions |-> table[s]]
  BY DEF RevokeAllSessions
<1>2. \A s \in Sessions :
         table[s] = IF session[s] # Nil /\ session[s].user = u THEN MarkRevoked(s, reason) ELSE session[s]
  BY DEF RevokeAllSessions
<1> HIDE DEF table
<1>3. ASSUME NEW s \in Sessions
      PROVE  /\ table[s] \in SessionRows \cup {Nil}
             /\ session[s] = Nil => table[s] = Nil
             /\ session[s] # Nil =>
                  /\ table[s] # Nil /\ table[s].user = session[s].user
                  /\ session[s].user = u => table[s].revoked # Nil
                  /\ session[s].user # u => table[s] = session[s]
  <2>1. session[s] \in SessionRows \cup {Nil}
    BY DEF AccountsTypeOK
  <2>2. session[s] # Nil => LET row == MarkRevoked(s, reason)
                            IN /\ row \in SessionRows /\ row # Nil /\ row.revoked # Nil
                               /\ row.user = session[s].user
    BY MarkRevokedRow
  <2> QED
    BY <1>2, <2>1, <2>2
<1> QED
  BY <1>1, <1>3 DEF table

(* The cases of WriteAccount: nothing, a proven address, a reset.           *)
LEMMA WriteCases ==
  ASSUME NEW g \in Goroutines, NEW p \in Passwords, WriteAccount(g, p)
  PROVE  LET k == call[g].token
             u == userToken[k].user
             x == [op |-> "reset", pc |-> "announce",
                   event |-> [scope |-> "user", user |-> u, session |-> Nil]]
         IN \/ Done(g) /\ UNCHANGED <<account, userToken, session, refreshToken>>
            \/ /\ Done(g) /\ userToken' = ConsumeUserToken(k)
               /\ UNCHANGED account \/ UpdateUser(u, account[u].password, TRUE)
               /\ UNCHANGED <<session, refreshToken>>
            \/ /\ userToken' = ConsumeUserToken(k) /\ UpdateUser(u, p, TRUE)
               /\ session' = RevokeAllSessions(u, "password_reset")
               /\ call' = [call EXCEPT ![g] = x]
               /\ UNCHANGED refreshToken
  BY DEF WriteAccount

(* WriteAccount keeps every row typed and every reference, and the rest as   *)
(* it was.                                                                   *)
LEMMA WriteAccountEffect ==
  ASSUME TypeOK, UNCHANGED rosterVars, NEW g \in Goroutines, NEW p \in Passwords, WriteAccount(g, p)
  PROVE  AccountEffect
<1> DEFINE k == call[g].token
           u == userToken[k].user
           x == [op |-> "reset", pc |-> "announce",
                 event |-> [scope |-> "user", user |-> u, session |-> Nil]]
<1>1. /\ call[g] \in AccountCalls /\ k \in UserTokens /\ userToken[k] # Nil /\ u \in Users
      /\ account[u] # Nil /\ account[u].password \in Passwords
  BY LinkCall DEF WriteAccount, AccountCalls, AccountRows
<1>2. TokensKept(ConsumeUserToken(k))
  BY <1>1, ConsumeKeepsTokens DEF TypeOK
<1>3. \A q \in Passwords : UpdateUser(u, q, TRUE) =>
         /\ account' \in [Users -> AccountRows \cup {Nil}]
         /\ \A w \in Users : account[w] # Nil => account'[w] # Nil
  BY <1>1, UpdateUserTyped DEF TypeOK
<1> DEFINE Kept == /\ account' \in [Users -> AccountRows \cup {Nil}]
                   /\ \A w \in Users : account[w] # Nil => account'[w] # Nil
                   /\ userToken' = userToken \/ userToken' = ConsumeUserToken(k)
                   /\ session' = session \/ session' = RevokeAllSessions(u, "password_reset")
                   /\ UNCHANGED refreshToken
<1>4. Kept /\ CallStep(AccountCalls)
  <2>1. CASE Done(g) /\ UNCHANGED <<account, userToken, session, refreshToken>>
    BY <2>1, <1>1, CallEnds DEF TypeOK, AccountsTypeOK
  <2>2. CASE /\ Done(g) /\ userToken' = ConsumeUserToken(k)
             /\ UNCHANGED account \/ UpdateUser(u, account[u].password, TRUE)
             /\ UNCHANGED <<session, refreshToken>>
    BY <2>2, <1>1, <1>3, CallEnds DEF TypeOK, AccountsTypeOK
  <2>3. CASE /\ userToken' = ConsumeUserToken(k) /\ UpdateUser(u, p, TRUE)
             /\ session' = RevokeAllSessions(u, "password_reset")
             /\ call' = [call EXCEPT ![g] = x]
             /\ UNCHANGED refreshToken
    <3>1. x \in AccountCalls /\ x.op = "reset"
      BY <1>1 DEF AccountCalls, ResetCalls
    <3>2. call' = [call EXCEPT ![g] = x]
      BY <2>3
    <3> HIDE DEF x
    <3>3. \A y : y = x => FoundRows(y)'
      BY <3>1 DEF FoundRows
    <3>4. CallStep(AccountCalls)
      BY <1>1, <3>1, <3>2, <3>3 DEF CallStep
    <3> QED
      BY <2>3, <3>4, <1>3
  <2> QED
    BY <2>1, <2>2, <2>3, WriteCases
<1>5. /\ userToken' \in [UserTokens -> UserTokenRows \cup {Nil}]
      /\ \A j \in UserTokens : userToken[j] # Nil => userToken'[j] # Nil
      /\ \A j \in UserTokens : userToken'[j] # Nil =>
            userToken[j] # Nil /\ userToken'[j].user = userToken[j].user
  BY <1>2, <1>4 DEF TokensKept, TypeOK, AccountsTypeOK
<1>6. /\ session' \in [Sessions -> SessionRows \cup {Nil}]
      /\ \A s \in Sessions : session[s] # Nil => session'[s] # Nil /\ session'[s].user = session[s].user
      /\ \A s \in Sessions : session[s] = Nil => session'[s] = Nil
  <2>1. "password_reset" \in Reasons
    BY DEF Reasons
  <2> QED
    BY <1>1, <1>4, <2>1, RevokeAllRows DEF TypeOK, AccountsTypeOK
<1>7. AccountsTypeOK' /\ RowsKept
  BY <1>4, <1>5, <1>6 DEF TypeOK, AccountsTypeOK, RowsKept, rosterVars
<1>8. AccountReferences'
  <2>1. \A s \in Sessions : session'[s] # Nil => account'[session'[s].user] # Nil
    BY <1>4, <1>6 DEF TypeOK, AccountReferences, AccountsTypeOK, SessionRows
  <2>2. \A j \in UserTokens : userToken'[j] # Nil => account'[userToken'[j].user] # Nil
    BY <1>4, <1>5 DEF TypeOK, AccountReferences, AccountsTypeOK, UserTokenRows
  <2>3. \A t \in RefreshTokens : refreshToken[t] # Nil => session'[refreshToken[t].session] # Nil
    BY <1>6, TokenSession
  <2> QED
    BY <1>4, <2>1, <2>2, <2>3 DEF TypeOK, AccountReferences
<1> QED
  BY <1>4, <1>7, <1>8 DEF AccountEffect

(* ExpireSession keeps every row typed and every reference, and the rest as  *)
(* it was.                                                                   *)
LEMMA ExpireSessionEffect ==
  ASSUME TypeOK, UNCHANGED rosterVars, NEW s \in Sessions, ExpireSession(s)
  PROVE  AccountEffect
<1> DEFINE row == [session[s] EXCEPT !.expired = TRUE]
<1>1. session[s] \in SessionRows /\ session[s] # Nil
  BY DEF ExpireSession, TypeOK, AccountsTypeOK
<1>2. row \in SessionRows /\ row.user = session[s].user
  BY <1>1 DEF SessionRows
<1>3. session' = [session EXCEPT ![s] = row] /\ UNCHANGED <<account, refreshToken, userToken, call>>
  BY DEF ExpireSession
<1> HIDE DEF row
<1>4. /\ session' \in [Sessions -> SessionRows \cup {Nil}]
      /\ \A r \in Sessions : session[r] # Nil => session'[r] # Nil /\ session'[r].user = session[r].user
      /\ \A r \in Sessions : session[r] = Nil => session'[r] = Nil
  BY <1>1, <1>2, <1>3, AccountsAssumption DEF TypeOK, AccountsTypeOK
<1>5. AccountsTypeOK' /\ RowsKept
  BY <1>3, <1>4 DEF TypeOK, AccountsTypeOK, RowsKept, rosterVars
<1>6. AccountReferences'
  <2>1. \A t \in RefreshTokens : refreshToken[t] # Nil => refreshToken[t].session \in Sessions
    BY TokenSession
  <2> QED
    BY <1>3, <1>4, <2>1 DEF TypeOK, AccountReferences
<1> QED
  BY <1>3, <1>5, <1>6 DEF AccountEffect, CallStep

(* ExpireRefreshToken keeps every row typed and every reference, and the     *)
(* rest as it was.                                                           *)
LEMMA ExpireRefreshTokenEffect ==
  ASSUME TypeOK, UNCHANGED rosterVars, NEW t \in RefreshTokens, ExpireRefreshToken(t)
  PROVE  AccountEffect
<1> DEFINE row == [refreshToken[t] EXCEPT !.expired = TRUE]
<1>1. refreshToken[t] \in RefreshTokenRows /\ refreshToken[t] # Nil
  BY DEF ExpireRefreshToken, TypeOK, AccountsTypeOK
<1>2. /\ row \in RefreshTokenRows /\ row.session = refreshToken[t].session
      /\ row.used = refreshToken[t].used /\ row.replaced_by = refreshToken[t].replaced_by
  BY <1>1 DEF RefreshTokenRows
<1>3. refreshToken' = [refreshToken EXCEPT ![t] = row] /\ UNCHANGED <<account, session, userToken, call>>
  BY DEF ExpireRefreshToken
<1> HIDE DEF row
<1>4. /\ refreshToken' \in [RefreshTokens -> RefreshTokenRows \cup {Nil}]
      /\ \A a \in RefreshTokens : refreshToken[a] # Nil =>
            /\ refreshToken'[a] # Nil /\ refreshToken'[a].session = refreshToken[a].session
            /\ refreshToken'[a].used = refreshToken[a].used
            /\ refreshToken'[a].replaced_by = refreshToken[a].replaced_by
      /\ \A a \in RefreshTokens : refreshToken[a] = Nil => refreshToken'[a] = Nil
  BY <1>1, <1>2, <1>3, AccountsAssumption DEF TypeOK, AccountsTypeOK
<1>5. AccountsTypeOK' /\ RowsKept
  BY <1>3, <1>4 DEF TypeOK, AccountsTypeOK, RowsKept, rosterVars
<1>6. AccountReferences'
  <2>1. \A a \in RefreshTokens : refreshToken[a] # Nil => refreshToken[a].replaced_by \in RefreshTokens \cup {Nil}
    BY TokenSession DEF RefreshTokenRows
  <2> QED
    BY <1>3, <1>4, <2>1 DEF TypeOK, AccountReferences
<1> QED
  BY <1>3, <1>5, <1>6 DEF AccountEffect, CallStep

(* ExpireUserToken keeps every row typed and every reference, and the rest   *)
(* as it was.                                                                *)
LEMMA ExpireUserTokenEffect ==
  ASSUME TypeOK, UNCHANGED rosterVars, NEW k \in UserTokens, ExpireUserToken(k)
  PROVE  AccountEffect
<1> DEFINE row == [userToken[k] EXCEPT !.expired = TRUE]
<1>1. userToken[k] \in UserTokenRows /\ userToken[k] # Nil
  BY DEF ExpireUserToken, TypeOK, AccountsTypeOK
<1>2. row \in UserTokenRows /\ row.user = userToken[k].user
  BY <1>1 DEF UserTokenRows
<1>3. userToken' = [userToken EXCEPT ![k] = row] /\ UNCHANGED <<account, session, refreshToken, call>>
  BY DEF ExpireUserToken
<1> HIDE DEF row
<1>4. /\ userToken' \in [UserTokens -> UserTokenRows \cup {Nil}]
      /\ \A j \in UserTokens : userToken[j] # Nil => userToken'[j] # Nil /\ userToken'[j].user = userToken[j].user
      /\ \A j \in UserTokens : userToken[j] = Nil => userToken'[j] = Nil
  BY <1>1, <1>2, <1>3, AccountsAssumption DEF TypeOK, AccountsTypeOK
<1>5. AccountsTypeOK' /\ RowsKept
  BY <1>3, <1>4 DEF TypeOK, AccountsTypeOK, RowsKept, rosterVars
<1>6. AccountReferences'
  BY <1>3, <1>4 DEF TypeOK, AccountReferences
<1> QED
  BY <1>3, <1>5, <1>6 DEF AccountEffect, CallStep

(* Every step of the accounts is one of the above.                           *)
LEMMA AccountEffects ==
  ASSUME TypeOK, UNCHANGED rosterVars, AccountRequest \/ \E g \in Goroutines : AccountStep(g)
  PROVE  AccountEffect
  BY SignupEffect, LoginEffect, RehashEffect, OpenSessionEffect, RefreshEffect, GetSessionEffect,
     RotateEffect, LogoutEffect, RevokeSessionEffect, RevokeEffect, RevokeFailsEffect,
     RequestPasswordResetEffect, FollowLinkEffect, ConsumeEffect, WriteAccountEffect,
     ExpireSessionEffect, ExpireRefreshTokenEffect, ExpireUserTokenEffect
     DEF AccountRequest, AccountStep
-----------------------------------------------------------------------------
(* What tickets, connections and revocations do.                            *)
SocketCalls == AccountCalls \cup TicketCalls

SocketEffect ==
    /\ UNCHANGED <<account, session, refreshToken, userToken>>
    /\ CallStep(SocketCalls)
    /\ SocketsTypeOK' /\ SocketReferences'

(* Authenticate keeps every row typed and every reference, and the rest as   *)
(* it was.                                                                   *)
LEMMA AuthenticateEffect ==
  ASSUME TypeOK, NEW g \in Goroutines, NEW s \in Sessions, Authenticate(g, s)
  PROVE  SocketEffect
<1> DEFINE x == [op |-> "ticket", pc |-> "issue", session |-> s]
<1>1. x \in SocketCalls /\ FoundRows(x)'
  BY DEF SocketCalls, TicketCalls, FoundRows, Authenticate, IsActive
<1>2. CallStep(SocketCalls)
  BY <1>1, CallBegins DEF Authenticate
<1> QED
  BY <1>2 DEF Authenticate, socketVars, SocketEffect, TypeOK, SocketsTypeOK, SocketReferences

(* What a request for a ticket has read.                                     *)
LEMMA TicketCall ==
  ASSUME TypeOK, NEW g \in Goroutines, At(g, "issue")
  PROVE  /\ call[g] \in TicketCalls /\ call[g].session \in Sessions
         /\ session[call[g].session] # Nil /\ session[call[g].session].user \in Users
<1>1. call[g] \in TicketCalls
  BY CallAt DEF TypeOK, CallTypeOK
<1>2. call[g].op = "ticket" /\ call[g].session \in Sessions
  BY <1>1 DEF TicketCalls
<1>3. session[call[g].session] # Nil
  BY <1>2 DEF TypeOK, CallReferences, FoundRows, At
<1> QED
  BY <1>1, <1>2, <1>3 DEF TypeOK, AccountsTypeOK, SessionRows

(* IssueTicket keeps every row typed and every reference, and the rest as it *)
(* was.                                                                      *)
LEMMA IssueTicketEffect ==
  ASSUME TypeOK, NEW g \in Goroutines, NEW k \in Tickets, IssueTicket(g, k)
  PROVE  SocketEffect
<1> DEFINE s == call[g].session
           row == [user |-> session[s].user, session |-> s, spent |-> FALSE]
<1>1. /\ call[g] \in SocketCalls /\ s \in Sessions /\ session[s] # Nil
      /\ session[s].user \in Users
  BY TicketCall DEF IssueTicket, SocketCalls
<1>2. CallStep(SocketCalls)
  BY <1>1, CallEnds DEF IssueTicket
<1>3. row \in TicketRows /\ row.session = s /\ row.user = session[s].user
  BY <1>1 DEF TicketRows
<1>4. /\ ticket' = [ticket EXCEPT ![k] = row]
      /\ UNCHANGED <<account, session, refreshToken, userToken, conn, inflight, lost>>
  BY DEF IssueTicket
<1> HIDE DEF row
<1>5. SocketsTypeOK'
  BY <1>3, <1>4 DEF TypeOK, SocketsTypeOK
<1>6. SocketReferences'
  BY <1>1, <1>3, <1>4 DEF TypeOK, SocketsTypeOK, SocketReferences
<1> QED
  BY <1>2, <1>4, <1>5, <1>6 DEF SocketEffect

(* A spent ticket is still the ticket of its session.                       *)
LEMMA SpentTicket ==
  ASSUME TypeOK, NEW k \in Tickets, Outstanding(k)
  PROVE  /\ ticket[k] \in TicketRows
         /\ [ticket EXCEPT ![k].spent = TRUE] \in [Tickets -> TicketRows \cup {Nil}]
         /\ \A j \in Tickets : [ticket EXCEPT ![k].spent = TRUE][j] # Nil =>
               /\ ticket[j] # Nil
               /\ [ticket EXCEPT ![k].spent = TRUE][j].session = ticket[j].session
               /\ [ticket EXCEPT ![k].spent = TRUE][j].user = ticket[j].user
<1> DEFINE row == [ticket[k] EXCEPT !.spent = TRUE]
           table == [ticket EXCEPT ![k] = row]
<1>1. ticket[k] \in TicketRows /\ ticket[k] # Nil
  BY DEF Outstanding, TypeOK, SocketsTypeOK
<1>2. row \in TicketRows /\ row.session = ticket[k].session /\ row.user = ticket[k].user
  BY <1>1 DEF TicketRows
<1>3. table = [ticket EXCEPT ![k].spent = TRUE]
  OBVIOUS
<1> HIDE DEF row
<1>4. /\ table \in [Tickets -> TicketRows \cup {Nil}]
      /\ \A j \in Tickets : table[j] = IF j = k THEN row ELSE ticket[j]
  BY <1>2 DEF TypeOK, SocketsTypeOK
<1> HIDE DEF table
<1> QED
  BY <1>1, <1>2, <1>3, <1>4

(* Redeem keeps every row typed and every reference, and the rest as it was. *)
LEMMA RedeemEffect ==
  ASSUME TypeOK, NEW k \in Tickets, NEW c \in Conns, NEW at \in Instances, Redeem(k, c, at)
  PROVE  SocketEffect
<1> DEFINE row == [user |-> ticket[k].user, session |-> ticket[k].session, at |-> at,
                   stage |-> "handshake", late |-> FALSE]
<1>1. Outstanding(k) /\ ticket[k] # Nil /\ ticket[k] \in TicketRows
  BY SpentTicket DEF Redeem, Outstanding
<1>2. row \in ConnStates /\ row.user = ticket[k].user /\ row.session = ticket[k].session
  BY <1>1 DEF ConnStates, TicketRows
<1>3. /\ ticket' = [ticket EXCEPT ![k].spent = TRUE] /\ conn' = [conn EXCEPT ![c] = row]
      /\ UNCHANGED <<accountVars, inflight, lost>>
  BY DEF Redeem
<1> HIDE DEF row
<1>4. SocketsTypeOK'
  BY <1>1, <1>2, <1>3, SpentTicket DEF TypeOK, SocketsTypeOK
<1>5. SocketReferences'
  <2>1. \A j \in Tickets : ticket'[j] # Nil =>
           session'[ticket'[j].session] # Nil /\ session'[ticket'[j].session].user = ticket'[j].user
    BY <1>1, <1>3, SpentTicket DEF TypeOK, SocketReferences, accountVars
  <2>2. \A d \in Conns : conn'[d] # Nil =>
           session'[conn'[d].session] # Nil /\ session'[conn'[d].session].user = conn'[d].user
    BY <1>1, <1>2, <1>3 DEF TypeOK, SocketsTypeOK, SocketReferences, accountVars
  <2> QED
    BY <2>1, <2>2 DEF SocketReferences
<1> QED
  BY <1>3, <1>4, <1>5 DEF SocketEffect, CallStep, accountVars

(* ExpireTicket keeps every row typed and every reference, and the rest as   *)
(* it was.                                                                   *)
LEMMA ExpireTicketEffect ==
  ASSUME TypeOK, NEW k \in Tickets, ExpireTicket(k)
  PROVE  SocketEffect
<1>1. /\ ticket' = [ticket EXCEPT ![k].spent = TRUE] /\ Outstanding(k)
      /\ UNCHANGED <<account, session, refreshToken, userToken, call, conn, inflight, lost>>
  BY DEF ExpireTicket, accountVars
<1>2. SocketsTypeOK'
  BY <1>1, SpentTicket DEF TypeOK, SocketsTypeOK
<1>3. SocketReferences'
  BY <1>1, SpentTicket DEF TypeOK, SocketReferences
<1> QED
  BY <1>1, <1>2, <1>3 DEF SocketEffect, CallStep

(* Closing or forgetting connections keeps whose they are.                  *)
ConnsKept ==
    /\ conn' \in [Conns -> ConnStates \cup {Nil}]
    /\ \A c \in Conns : conn'[c] # Nil =>
          conn[c] # Nil /\ conn'[c].user = conn[c].user /\ conn'[c].session = conn[c].session
             /\ conn'[c].at = conn[c].at

(* A socket that only moves on from stage to stage.                          *)
LEMMA ConnsKeptEffect ==
  ASSUME TypeOK, ConnsKept, UNCHANGED <<account, session, refreshToken, userToken, ticket>>,
         CallStep(SocketCalls), inflight' \in SUBSET [to : Instances, event : Events],
         lost' \in SUBSET [to : Instances, event : Events]
  PROVE  SocketEffect
<1>1. SocketsTypeOK'
  BY DEF TypeOK, SocketsTypeOK, ConnsKept
<1>2. SocketReferences'
  BY DEF TypeOK, SocketReferences, ConnsKept
<1> QED
  BY <1>1, <1>2 DEF SocketEffect

(* A connection that goes.                                                  *)
LEMMA ConnGoes ==
  ASSUME TypeOK, NEW c \in Conns, AcceptFails(c) \/ Disconnect(c) \/ CloseDrained(c)
  PROVE  ConnsKept /\ SocketEffect
<1>1. /\ conn' = [conn EXCEPT ![c] = Nil]
      /\ UNCHANGED <<account, session, refreshToken, userToken, call, ticket, inflight, lost>>
  BY DEF AcceptFails, Disconnect, CloseDrained, accountVars
<1>2. ConnsKept
  BY <1>1 DEF ConnsKept, TypeOK, SocketsTypeOK
<1>3. CallStep(SocketCalls)
  BY <1>1 DEF CallStep
<1> QED
  BY <1>1, <1>2, <1>3, ConnsKeptEffect DEF TypeOK, SocketsTypeOK

(* Register keeps every row typed and every reference, and the rest as it    *)
(* was.                                                                      *)
LEMMA RegisterEffect ==
  ASSUME TypeOK, NEW c \in Conns, Register(c)
  PROVE  /\ ConnsKept /\ SocketEffect
         /\ conn'[c].late = (session[conn[c].session].revoked # Nil)
         /\ \A d \in Conns \ {c} : conn'[d] = conn[d]
<1> DEFINE late == session[conn[c].session].revoked # Nil
           row == [conn[c] EXCEPT !.stage = "open", !.late = late]
<1>1. conn[c] \in ConnStates /\ conn[c] # Nil /\ late \in BOOLEAN
  BY DEF Register, TypeOK, SocketsTypeOK
<1>2. /\ UNCHANGED <<account, session, refreshToken, userToken, call, ticket, inflight, lost>>
      /\ conn' = [conn EXCEPT ![c] = row]
  BY <1>1 DEF Register, accountVars, TypeOK, SocketsTypeOK
<1>3. /\ row \in ConnStates /\ row.user = conn[c].user /\ row.session = conn[c].session
      /\ row.at = conn[c].at /\ row.late = late
  <2> HIDE DEF late
  <2> QED
    BY <1>1 DEF ConnStates
<1> HIDE DEF row, late
<1>4. ConnsKept /\ conn'[c].late = late /\ \A d \in Conns \ {c} : conn'[d] = conn[d]
  BY <1>1, <1>2, <1>3 DEF ConnsKept, TypeOK, SocketsTypeOK
<1>5. CallStep(SocketCalls)
  BY <1>2 DEF CallStep
<1> QED
  BY <1>2, <1>4, <1>5, ConnsKeptEffect DEF TypeOK, SocketsTypeOK, late

(* closeMatching moves the connections an event matches to closing.         *)
LEMMA CloseMatchingConns ==
  ASSUME TypeOK, NEW at \in Instances, NEW event, conn' = CloseMatching(at, event)
  PROVE  /\ ConnsKept
         /\ \A c \in Conns : conn[c] # Nil =>
               /\ conn'[c] # Nil /\ conn'[c].late = conn[c].late
               /\ conn'[c].stage = "open" => conn[c].stage = "open"
               /\ conn'[c].stage = "open" /\ conn[c].at = at => ~Matches(event, conn[c].user, conn[c].session)
<1> DEFINE Hit(c) == /\ conn[c] # Nil /\ conn[c].stage # "handshake" /\ conn[c].at = at
                     /\ Matches(event, conn[c].user, conn[c].session)
           row(c) == [conn[c] EXCEPT !.stage = "closing"]
<1>1. conn' = [c \in Conns |-> IF Hit(c) THEN row(c) ELSE conn[c]]
  BY DEF CloseMatching
<1>2. \A c \in Conns : conn[c] # Nil =>
        /\ conn[c] \in ConnStates /\ row(c) \in ConnStates /\ row(c) # Nil
        /\ row(c).user = conn[c].user /\ row(c).session = conn[c].session
        /\ row(c).at = conn[c].at /\ row(c).late = conn[c].late /\ row(c).stage = "closing"
  <2>1. \A x \in ConnStates : LET r == [x EXCEPT !.stage = "closing"] IN
           /\ r \in ConnStates /\ r.user = x.user /\ r.session = x.session /\ r.at = x.at
           /\ r.late = x.late /\ r.stage = "closing"
    BY DEF ConnStates
  <2>2. \A c \in Conns : conn[c] # Nil => conn[c] \in ConnStates
    BY DEF TypeOK, SocketsTypeOK
  <2> QED
    BY <2>1, <2>2, SocketsAssumption
<1>3. \A c \in Conns : conn[c] # Nil /\ conn[c].stage = "open" /\ conn[c].at = at
                          /\ Matches(event, conn[c].user, conn[c].session) => Hit(c)
  OBVIOUS
<1>4. \A c \in Conns : Hit(c) => conn[c] # Nil
  OBVIOUS
<1> HIDE DEF Hit, row
<1>5. \A c \in Conns : conn'[c] = IF Hit(c) THEN row(c) ELSE conn[c]
  BY <1>1
<1>6. ConnsKept
  <2>1. \A c \in Conns : conn'[c] \in ConnStates \cup {Nil}
    BY <1>2, <1>4, <1>5
  <2> QED
    <3>1. conn' \in [Conns -> ConnStates \cup {Nil}]
      BY <1>1, <2>1
    <3>2. ASSUME NEW c \in Conns, conn'[c] # Nil
          PROVE  /\ conn[c] # Nil /\ conn'[c].user = conn[c].user
                 /\ conn'[c].session = conn[c].session /\ conn'[c].at = conn[c].at
      BY <3>2, <1>2, <1>4, <1>5
    <3> QED
      BY <3>1, <3>2 DEF ConnsKept
<1> QED
  BY <1>2, <1>3, <1>5, <1>6

(* What a request that announces a revocation carries.                       *)
LEMMA AnnounceCall ==
  ASSUME TypeOK, NEW g \in Goroutines, At(g, "announce")
  PROVE  call[g] \in SocketCalls /\ call[g].event \in Events
<1>1. call[g] \in RevokeCalls \cup ResetCalls
  BY CallAt DEF TypeOK, CallTypeOK
<1>2. call[g].event \in Events
  BY <1>1 DEF RevokeCalls, ResetCalls, Events
<1> QED
  BY <1>1, <1>2 DEF SocketCalls, AccountCalls

(* Publish keeps every row typed and every reference, and the rest as it     *)
(* was.                                                                      *)
LEMMA PublishEffect ==
  ASSUME TypeOK, NEW g \in Goroutines, NEW at \in Instances, Publish(g, at)
  PROVE  SocketEffect
<1>1. call[g] \in SocketCalls /\ call[g].event \in Events
  BY AnnounceCall DEF Publish
<1>2. CallStep(SocketCalls)
  BY <1>1, CallEnds DEF Publish
<1>3. ConnsKept
  BY CloseMatchingConns DEF Publish
<1>4. \A reached \in SUBSET Instances : To(reached, call[g].event) \in SUBSET [to : Instances, event : Events]
  BY <1>1 DEF To
<1>5. /\ inflight' \in SUBSET [to : Instances, event : Events]
      /\ lost' \in SUBSET [to : Instances, event : Events]
  <2>1. PICK reached \in SUBSET (Instances \ {at}) :
             /\ inflight' = inflight \cup To(reached, call[g].event)
             /\ lost' = lost \cup To((Instances \ {at}) \ reached, call[g].event)
    BY DEF Publish
  <2>2. reached \in SUBSET Instances /\ (Instances \ {at}) \ reached \in SUBSET Instances
    OBVIOUS
  <2> QED
    BY <1>4, <2>1, <2>2 DEF TypeOK, SocketsTypeOK
<1> QED
  BY <1>2, <1>3, <1>5, ConnsKeptEffect DEF Publish

(* AnnounceFails keeps every row typed and every reference, and the rest as  *)
(* it was.                                                                   *)
LEMMA AnnounceFailsEffect ==
  ASSUME TypeOK, NEW g \in Goroutines, AnnounceFails(g)
  PROVE  SocketEffect
<1>1. call[g] \in SocketCalls /\ call[g].event \in Events
  BY AnnounceCall DEF AnnounceFails
<1>2. CallStep(SocketCalls)
  BY <1>1, CallEnds DEF AnnounceFails
<1>3. ConnsKept
  BY DEF AnnounceFails, ConnsKept, TypeOK, SocketsTypeOK
<1>4. lost' \in SUBSET [to : Instances, event : Events]
  BY <1>1 DEF AnnounceFails, To, TypeOK, SocketsTypeOK
<1> QED
  BY <1>2, <1>3, <1>4, ConnsKeptEffect DEF AnnounceFails, TypeOK, SocketsTypeOK

(* Receive keeps every row typed and every reference, and the rest as it     *)
(* was.                                                                      *)
LEMMA ReceiveEffect ==
  ASSUME TypeOK, NEW m \in inflight, Receive(m)
  PROVE  SocketEffect
<1>1. m.to \in Instances
  BY DEF TypeOK, SocketsTypeOK
<1>2. ConnsKept
  BY <1>1, CloseMatchingConns DEF Receive
<1>3. CallStep(SocketCalls)
  BY DEF Receive, accountVars, CallStep
<1> QED
  BY <1>2, <1>3, ConnsKeptEffect DEF Receive, accountVars, TypeOK, SocketsTypeOK

(* Every step of the sockets is one of the above.                            *)
LEMMA SocketEffects ==
  ASSUME TypeOK,
         \/ SocketRequest \/ \E g \in Goroutines : SocketStep(g)
         \/ \E c \in Conns : ConnStep(c) \/ Disconnect(c)
         \/ \E m \in inflight : Receive(m)
         \/ \E k \in Tickets : ExpireTicket(k)
  PROVE  SocketEffect
  BY AuthenticateEffect, IssueTicketEffect, RedeemEffect, ExpireTicketEffect, ConnGoes, RegisterEffect,
     PublishEffect, AnnounceFailsEffect, ReceiveEffect
     DEF SocketRequest, SocketStep, ConnStep

-----------------------------------------------------------------------------
(* Folding an announcement: the client shows the attachment as ready.       *)
LEMMA AnnounceFold ==
  ASSUME MediaTypeOK, NEW a \in Attachments, Announce(a)
  PROVE  LET rows == replica.t.attachments
             row == [status |-> "ready", storage_key |-> a,
                     deleted_at |-> IF rows[a] = Nil THEN Nil ELSE rows[a].deleted_at]
         IN /\ opSeq' = opSeq + 1
            /\ replica' = IF replica.seq = opSeq
                          THEN [seq |-> opSeq + 1, t |-> [attachments |-> [rows EXCEPT ![a] = row]]]
                          ELSE replica
<1> DEFINE rows == replica.t.attachments
           row == [status |-> "ready", storage_key |-> a,
                   deleted_at |-> IF rows[a] = Nil THEN Nil ELSE rows[a].deleted_at]
           mask == {"status", "storage_key"}
           op == [kind |-> "attachment_add", entity |-> a, seq |-> opSeq + 1, actor |-> Nil,
                  version |-> 0, fields |-> Log!BuildPayload(Row(a, "ready", Nil), mask)]
           old == IF rows[a] = Nil THEN Log!AttachmentRow ELSE rows[a]
<1>1. /\ opSeq \in Nat /\ replica.seq \in Nat
      /\ rows \in [Attachments -> FoldedRows \cup {Nil}]
      /\ replica.t = [attachments |-> rows]
  BY DEF MediaTypeOK
<1>2. opSeq' = opSeq + 1 /\ replica' = Log!Apply(replica, op)
  BY DEF Announce, Record
<1>3. /\ op.fields.status = "ready" /\ op.fields.storage_key = a
      /\ DOMAIN op.fields = mask
  BY DEF Log!BuildPayload, Log!Restrict, Row
<1>4. op.kind = "attachment_add" /\ op.entity = a /\ op.seq = opSeq + 1
  OBVIOUS
<1> HIDE DEF op
<1>5. Log!Entity(op.kind) = "attachments"
  BY <1>4 DEF Log!Entity
<1>6. Log!Known(replica.t, op) /\ Log!Blank(op) = Log!AttachmentRow
  BY <1>4, <1>5 DEF Log!Known, Log!Creating, Log!Blank
<1>7. Log!ApplyTo(old, op) = row
  <2>1. Log!ApplyTo(old, op) = Log!DecodeAll(old, op)
    BY <1>5 DEF Log!ApplyTo, Log!applyAttachment
  <2>2. /\ DOMAIN old = {"status", "storage_key", "deleted_at"}
        /\ old.deleted_at = IF rows[a] = Nil THEN Nil ELSE rows[a].deleted_at
    BY <1>1 DEF Log!AttachmentRow, FoldedRows
  <2> HIDE DEF old
  <2>3. Log!DecodeAll(old, op) = row
    BY <2>2, <1>3 DEF Log!DecodeAll, Log!Decode
  <2> QED
    BY <2>1, <2>3
<1>8. Log!Apply(replica, op) = IF replica.seq = opSeq
                               THEN [seq |-> opSeq + 1, t |-> [replica.t EXCEPT !["attachments"][a] = row]]
                               ELSE replica
  BY <1>1, <1>4, <1>5, <1>6, <1>7 DEF Log!Apply
<1>9. [replica.t EXCEPT !["attachments"][a] = row] = [attachments |-> [rows EXCEPT ![a] = row]]
  BY <1>1
<1> QED
  BY <1>2, <1>8, <1>9

(* Folding a removal: one of an attachment the client has not seen is       *)
(* refused.                                                                 *)
LEMMA RemovalFold ==
  ASSUME MediaTypeOK, NEW a \in Attachments, NEW at,
         Record("attachment_remove", a, Row(a, attachment[a].status, at), {"deleted_at"})
  PROVE  LET rows == replica.t.attachments
             row == [status |-> rows[a].status, storage_key |-> rows[a].storage_key, deleted_at |-> at]
         IN /\ opSeq' = opSeq + 1
            /\ replica' = IF replica.seq = opSeq /\ rows[a] # Nil
                          THEN [seq |-> opSeq + 1, t |-> [attachments |-> [rows EXCEPT ![a] = row]]]
                          ELSE replica
<1> DEFINE rows == replica.t.attachments
           row == [status |-> rows[a].status, storage_key |-> rows[a].storage_key, deleted_at |-> at]
           op == [kind |-> "attachment_remove", entity |-> a, seq |-> opSeq + 1, actor |-> Nil,
                  version |-> 0,
                  fields |-> Log!BuildPayload(Row(a, attachment[a].status, at), {"deleted_at"})]
<1>1. /\ opSeq \in Nat /\ replica.seq \in Nat
      /\ rows \in [Attachments -> FoldedRows \cup {Nil}]
      /\ replica.t = [attachments |-> rows]
  BY DEF MediaTypeOK
<1>2. opSeq' = opSeq + 1 /\ replica' = Log!Apply(replica, op)
  BY DEF Record
<1>3. op.fields.deleted_at = at /\ DOMAIN op.fields = {"deleted_at"}
  BY DEF Log!BuildPayload, Log!Restrict, Row
<1>4. op.kind = "attachment_remove" /\ op.entity = a /\ op.seq = opSeq + 1
  OBVIOUS
<1> HIDE DEF op
<1>5. Log!Entity(op.kind) = "attachments"
  BY <1>4 DEF Log!Entity
<1>6. Log!Known(replica.t, op) <=> rows[a] # Nil
  BY <1>1, <1>4, <1>5 DEF Log!Known, Log!Creating
<1>7. ASSUME rows[a] # Nil PROVE Log!ApplyTo(rows[a], op) = row
  <2> DEFINE old == rows[a]
  <2>1. Log!ApplyTo(old, op) = Log!DecodeAll(old, op)
    BY <1>5 DEF Log!ApplyTo, Log!applyAttachment
  <2>2. /\ DOMAIN old = {"status", "storage_key", "deleted_at"}
        /\ row = [status |-> old.status, storage_key |-> old.storage_key, deleted_at |-> at]
    BY <1>1, <1>7 DEF FoldedRows
  <2> HIDE DEF old, row
  <2>3. Log!DecodeAll(old, op) = row
    BY <2>2, <1>3 DEF Log!DecodeAll, Log!Decode
  <2> QED
    BY <2>1, <2>3 DEF old
<1>9. [replica.t EXCEPT !["attachments"][a] = row] = [attachments |-> [rows EXCEPT ![a] = row]]
  BY <1>1
<1>8. Log!Apply(replica, op) = IF replica.seq = opSeq /\ rows[a] # Nil
                               THEN [seq |-> opSeq + 1, t |-> [replica.t EXCEPT !["attachments"][a] = row]]
                               ELSE replica
  <2>1. CASE replica.seq = opSeq /\ rows[a] # Nil
    BY <2>1, <1>1, <1>4, <1>5, <1>6, <1>7 DEF Log!Apply
  <2>2. CASE ~(replica.seq = opSeq /\ rows[a] # Nil)
    <3>1. op.seq # replica.seq + 1 \/ ~Log!Known(replica.t, op)
      BY <2>2, <1>1, <1>4, <1>6
    <3> HIDE DEF rows
    <3> QED
      BY <2>2, <3>1 DEF Log!Apply
  <2> QED
    BY <2>1, <2>2
<1> QED
  BY <1>2, <1>8, <1>9

(* What a tombstone does to the fold of the log.                             *)
LEMMA RetractFold ==
  ASSUME MediaTypeOK, NEW a \in Attachments, Retract(a)
  PROVE  LET rows == replica.t.attachments
             row == [status |-> rows[a].status, storage_key |-> rows[a].storage_key, deleted_at |-> TRUE]
         IN /\ opSeq' = opSeq + 1
            /\ replica' = IF replica.seq = opSeq /\ rows[a] # Nil
                          THEN [seq |-> opSeq + 1, t |-> [attachments |-> [rows EXCEPT ![a] = row]]]
                          ELSE replica
  BY RemovalFold, Zenon DEF Retract

(* Either keeps the replica's type.                                         *)
LEMMA FoldTyped ==
  ASSUME MediaTypeOK, NEW a \in Attachments, Announce(a) \/ Retract(a)
  PROVE  /\ opSeq' \in Nat
         /\ replica' \in [seq : Nat, t : [attachments : [Attachments -> FoldedRows \cup {Nil}]]]
<1> DEFINE rows == replica.t.attachments
<1>1. /\ opSeq \in Nat /\ opSeq + 1 \in Nat /\ replica.seq \in Nat
      /\ rows \in [Attachments -> FoldedRows \cup {Nil}]
      /\ replica \in [seq : Nat, t : [attachments : [Attachments -> FoldedRows \cup {Nil}]]]
  BY DEF MediaTypeOK
<1>2. \A row \in FoldedRows :
         [seq |-> opSeq + 1, t |-> [attachments |-> [rows EXCEPT ![a] = row]]]
             \in [seq : Nat, t : [attachments : [Attachments -> FoldedRows \cup {Nil}]]]
  BY <1>1
<1>3. CASE Announce(a)
  <2> DEFINE row == [status |-> "ready", storage_key |-> a,
                     deleted_at |-> IF rows[a] = Nil THEN Nil ELSE rows[a].deleted_at]
  <2>1. row \in FoldedRows
    BY <1>1 DEF FoldedRows
  <2>2. /\ opSeq' = opSeq + 1
        /\ replica' = IF replica.seq = opSeq
                      THEN [seq |-> opSeq + 1, t |-> [attachments |-> [rows EXCEPT ![a] = row]]]
                      ELSE replica
    BY <1>3, AnnounceFold
  <2> HIDE DEF row, rows
  <2> QED
    BY <1>1, <1>2, <2>1, <2>2
<1>4. CASE Retract(a)
  <2> DEFINE row == [status |-> rows[a].status, storage_key |-> rows[a].storage_key, deleted_at |-> TRUE]
  <2>1. rows[a] # Nil => row \in FoldedRows
    BY <1>1 DEF FoldedRows
  <2>2. /\ opSeq' = opSeq + 1
        /\ replica' = IF replica.seq = opSeq /\ rows[a] # Nil
                      THEN [seq |-> opSeq + 1, t |-> [attachments |-> [rows EXCEPT ![a] = row]]]
                      ELSE replica
    BY <1>4, RetractFold
  <2> HIDE DEF row, rows
  <2> QED
    BY <1>1, <1>2, <2>1, <2>2
<1> QED
  BY <1>3, <1>4

(* What the actions on files and the cover do.                              *)
MediaMove ==
    \/ UNCHANGED call
    \/ \E g \in Goroutines : \E x \in AllMediaCalls \cup {Nil} :
          /\ call' = [call EXCEPT ![g] = x]
          /\ call[g] \in AllMediaCalls \cup {Nil}
          /\ x # Nil => FoundFiles(x)'

MediaRowsKept ==
    /\ \A a \in Attachments : attachment[a] # Nil => attachment'[a] # Nil
    /\ \A c \in Covers : upload[c] # Nil => upload'[c] # Nil

MediaEffect ==
    /\ UNCHANGED <<account, session, refreshToken, userToken>>
    /\ CallStep(AllMediaCalls)
    /\ MediaTypeOK' /\ MediaReferences'
    /\ RosterTypeOK' /\ RosterReferences' /\ RowsKept

(* The subject of a request by its kind.                                    *)
LEMMA MediaFields ==
  /\ \A x \in AllMediaCalls : x.op = "media"
  /\ \A x \in MediaCalls : x.subject = Nil
  /\ \A x \in FileCalls \cup TombstoneCalls : x.subject \in Attachments
  /\ \A x \in CoverCalls : x.subject \in Covers
  /\ \A x \in DiscardCalls : x.subject \in Attachments \cup Covers
  /\ \A x \in SweepCalls : x.subject \in Attachments \cup {Nil}
  /\ \A x \in SweepCalls \cup TombstoneCalls : x.todo \in SUBSET Attachments
<1>1. \A x \in AllMediaCalls : x.op = "media"
  BY CallSteps DEF AllMediaCalls
<1>2. /\ \A x \in MediaCalls : x.subject = Nil
      /\ \A x \in FileCalls \cup TombstoneCalls : x.subject \in Attachments
      /\ \A x \in CoverCalls : x.subject \in Covers
      /\ \A x \in DiscardCalls : x.subject \in Attachments \cup Covers
      /\ \A x \in SweepCalls : x.subject \in Attachments \cup {Nil}
      /\ \A x \in SweepCalls \cup TombstoneCalls : x.todo \in SUBSET Attachments
  BY DEF MediaCalls, FileCalls, TombstoneCalls, CoverCalls, DiscardCalls, SweepCalls
<1> QED
  BY <1>1, <1>2

(* What a request has found stays while rows stay.                          *)
LEMMA FoundFilesKept ==
  ASSUME MediaRowsKept, NEW x \in Calls, FoundFiles(x)
  PROVE  FoundFiles(x)'
<1>1. x.op = "media" => x \in AllMediaCalls
  BY CallSteps DEF Calls, AccountCalls, AllMediaCalls
<1>2. x \in AllMediaCalls /\ x.pc \in {"sweep", "tombstone"} => x.todo \in SUBSET Attachments
  BY CallSteps, MediaFields DEF AllMediaCalls
<1> QED
  BY <1>1, <1>2 DEF FoundFiles, MediaRowsKept

(* A file step that keeps rows keeps the references of calls and of the      *)
(* cover.                                                                    *)
LEMMA MediaMoves ==
  ASSUME TypeOK, MediaRowsKept, MediaMove,
         cover'.source = "uploaded" => cover'.key \in Covers /\ upload'[cover'.key] # Nil
  PROVE  CallStep(AllMediaCalls) /\ MediaReferences'
<1>1. \A x \in AllMediaCalls : FoundRows(x)'
  BY MediaFields DEF FoundRows
<1>2. CallStep(AllMediaCalls)
  BY <1>1 DEF MediaMove, CallStep
<1>3. \A h \in Goroutines : \A x : x = call[h] /\ x # Nil => FoundFiles(x)'
  <2>1. \A x \in Calls : FoundFiles(x) => FoundFiles(x)'
    BY FoundFilesKept
  <2>2. \A h \in Goroutines : call[h] # Nil => call[h] \in Calls /\ FoundFiles(call[h])
    BY DEF TypeOK, MediaReferences
  <2> QED
    BY <2>1, <2>2
<1>4. SUFFICES \A h \in Goroutines : \A x : x = call'[h] /\ x # Nil => FoundFiles(x)'
  BY <1>2 DEF MediaReferences, FoundFiles
<1>5. CASE UNCHANGED call
  BY <1>3, <1>5
<1>6. CASE \E g \in Goroutines : \E x \in AllMediaCalls \cup {Nil} :
              call' = [call EXCEPT ![g] = x] /\ (x # Nil => FoundFiles(x)')
  <2>1. PICK g \in Goroutines, x \in AllMediaCalls \cup {Nil} :
              call' = [call EXCEPT ![g] = x] /\ (x # Nil => FoundFiles(x)')
    BY <1>6
  <2>2. \A h \in Goroutines : call'[h] = IF h = g THEN x ELSE call[h]
    BY <2>1 DEF TypeOK
  <2> QED
    BY <2>1, <2>2, <1>3
<1> QED
  BY <1>5, <1>6 DEF MediaMove

(* Steps that leave the roster alone.                                       *)
LEMMA MediaOnly ==
  ASSUME TypeOK, UNCHANGED <<account, session, refreshToken, userToken, rosterVars>>,
         MediaTypeOK', MediaRowsKept, MediaMove,
         cover'.source = "uploaded" => cover'.key \in Covers /\ upload'[cover'.key] # Nil
  PROVE  MediaEffect
<1>1. CallStep(AllMediaCalls) /\ MediaReferences'
  BY MediaMoves
<1>2. RosterTypeOK' /\ RosterReferences' /\ RowsKept
  BY DEF TypeOK, RosterTypeOK, RosterReferences, RowsKept, rosterVars
<1> QED
  BY <1>1, <1>2 DEF MediaEffect

(* Steps that only move a goroutine on.                                     *)
LEMMA MediaUnchanged ==
  ASSUME TypeOK, UNCHANGED <<account, session, refreshToken, userToken, rosterVars, mediaVars>>,
         MediaMove
  PROVE  MediaEffect
<1>1. MediaTypeOK' /\ MediaRowsKept
  BY DEF TypeOK, MediaTypeOK, MediaRowsKept, mediaVars
<1>2. cover'.source = "uploaded" => cover'.key \in Covers /\ upload'[cover'.key] # Nil
  BY DEF TypeOK, MediaReferences, mediaVars
<1> QED
  BY <1>1, <1>2, MediaOnly

(* A file's request ends, or goes on with the same file.                    *)
LEMMA MediaEnds ==
  ASSUME NEW g \in Goroutines, call[g] \in AllMediaCalls, Done(g)
  PROVE  MediaMove
  BY DEF MediaMove, Done

(* Enter keeps every row typed and every reference, and the rest as it was.  *)
LEMMA EnterEffect ==
  ASSUME TypeOK, NEW g \in Goroutines, NEW u, NEW cap, NEW pc, NEW subject,
         [op |-> "media", pc |-> pc, subject |-> subject] \in MediaCalls \cup FileCalls \cup CoverCalls,
         subject \in Attachments => attachment[subject] # Nil,
         subject \in Covers => upload[subject] # Nil,
         Enter(g, u, cap, pc, subject)
  PROVE  MediaEffect
<1> DEFINE x == [op |-> "media", pc |-> pc, subject |-> subject]
<1>1. call[g] = Nil /\ call' = [call EXCEPT ![g] = x]
  BY FreeId DEF Enter, Idle
<1>2. x.pc \notin {"sweep", "tombstone"} /\ x.subject = subject /\ x \in AllMediaCalls
  BY CallSteps DEF AllMediaCalls
<1>3. FoundFiles(x)'
  BY <1>2 DEF FoundFiles, Enter, mediaVars
<1>4. MediaMove
  BY <1>1, <1>2, <1>3 DEF MediaMove
<1> QED
  BY <1>4, MediaUnchanged DEF Enter

(* The rows the statements on attachments write.                            *)
LEMMA AttachmentWrites ==
  ASSUME TypeOK, NEW a \in Attachments, attachment[a] # Nil
  PROVE  /\ attachment[a] \in AttachmentRows
         /\ \A status \in {"pending", "ready", "failed"} :
               /\ [attachment[a] EXCEPT !.status = status] \in AttachmentRows
               /\ SetStatus(a, status) = [attachment EXCEPT ![a] = [attachment[a] EXCEPT !.status = status]]
         /\ [attachment[a] EXCEPT !.deleted = TRUE] \in AttachmentRows
         /\ SoftDelete(a) = [attachment EXCEPT ![a] = [attachment[a] EXCEPT !.deleted = TRUE]]
         /\ [attachment[a] EXCEPT !.swept = TRUE] \in AttachmentRows
         /\ [attachment[a] EXCEPT !.stale = TRUE] \in AttachmentRows
<1>1. attachment[a] \in AttachmentRows
  BY DEF TypeOK, MediaTypeOK
<1>2. /\ \A status \in {"pending", "ready", "failed"} :
            [attachment[a] EXCEPT !.status = status] \in AttachmentRows
      /\ [attachment[a] EXCEPT !.deleted = TRUE] \in AttachmentRows
      /\ [attachment[a] EXCEPT !.swept = TRUE] \in AttachmentRows
      /\ [attachment[a] EXCEPT !.stale = TRUE] \in AttachmentRows
  BY <1>1 DEF AttachmentRows
<1>3. /\ \A status \in {"pending", "ready", "failed"} :
            SetStatus(a, status) = [attachment EXCEPT ![a] = [attachment[a] EXCEPT !.status = status]]
      /\ SoftDelete(a) = [attachment EXCEPT ![a] = [attachment[a] EXCEPT !.deleted = TRUE]]
  BY DEF SetStatus, SoftDelete
<1> QED
  BY <1>1, <1>2, <1>3

(* One attachment is written, the others stay.                               *)
LEMMA AttachmentWritten ==
  ASSUME TypeOK, NEW a \in Attachments, NEW row \in AttachmentRows,
         attachment' = [attachment EXCEPT ![a] = row]
  PROVE  /\ attachment' \in [Attachments -> AttachmentRows \cup {Nil}]
         /\ \A b \in Attachments : attachment'[b] = IF b = a THEN row ELSE attachment[b]
         /\ \A b \in Attachments : attachment[b] # Nil => attachment'[b] # Nil
<1>1. /\ attachment' \in [Attachments -> AttachmentRows \cup {Nil}]
      /\ \A b \in Attachments : attachment'[b] = IF b = a THEN row ELSE attachment[b]
  BY DEF TypeOK, MediaTypeOK
<1> QED
  BY <1>1, MediaAssumption

(* A step that writes one attachment, and tells of it or does not.          *)
LEMMA AttachmentOnly ==
  ASSUME TypeOK, UNCHANGED <<account, session, refreshToken, userToken, rosterVars, upload, cover, object>>,
         MediaMove,
         NEW a \in Attachments,
         attachment' = attachment \/ \E row \in AttachmentRows : attachment' = [attachment EXCEPT ![a] = row],
         UNCHANGED <<opSeq, replica>> \/ Announce(a) \/ Retract(a)
  PROVE  MediaEffect
<1>1. /\ attachment' \in [Attachments -> AttachmentRows \cup {Nil}]
      /\ \A b \in Attachments : attachment[b] # Nil => attachment'[b] # Nil
  BY AttachmentWritten DEF TypeOK, MediaTypeOK
<1>2. /\ opSeq' \in Nat
      /\ replica' \in [seq : Nat, t : [attachments : [Attachments -> FoldedRows \cup {Nil}]]]
  BY FoldTyped DEF TypeOK, MediaTypeOK
<1>3. MediaTypeOK' /\ MediaRowsKept
  BY <1>1, <1>2 DEF TypeOK, MediaTypeOK, MediaRowsKept
<1>4. cover'.source = "uploaded" => cover'.key \in Covers /\ upload'[cover'.key] # Nil
  BY DEF TypeOK, MediaReferences
<1> QED
  BY <1>3, <1>4, MediaOnly

(* CreateLink keeps every row typed and every reference, and the rest as it  *)
(* was.                                                                      *)
LEMMA CreateLinkEffect ==
  ASSUME TypeOK, NEW g \in Goroutines, NEW a \in Attachments, CreateLink(g, a)
  PROVE  MediaEffect
<1>1. call[g] \in AllMediaCalls
  BY CallAt DEF CreateLink, TypeOK, CallTypeOK, AllMediaCalls
<1>2. MediaMove
  BY <1>1, MediaEnds DEF CreateLink
<1>3. InsertAttachment("link", "ready") \in AttachmentRows
  BY DEF InsertAttachment, AttachmentRows
<1> QED
  BY <1>2, <1>3, AttachmentOnly DEF CreateLink

(* RequestUpload keeps every row typed and every reference, and the rest as  *)
(* it was.                                                                   *)
LEMMA RequestUploadEffect ==
  ASSUME TypeOK, NEW g \in Goroutines, NEW a \in Attachments, RequestUpload(g, a)
  PROVE  MediaEffect
<1>1. call[g] \in AllMediaCalls
  BY CallAt DEF RequestUpload, TypeOK, CallTypeOK, AllMediaCalls
<1>2. MediaMove
  BY <1>1, MediaEnds DEF RequestUpload
<1>3. InsertAttachment("file", "pending") \in AttachmentRows
  BY DEF InsertAttachment, AttachmentRows
<1> QED
  BY <1>2, <1>3, AttachmentOnly DEF RequestUpload

(* A request about a file has found it.                                     *)
LEMMA FileCall ==
  ASSUME TypeOK, NEW g \in Goroutines,
         At(g, "stat") \/ At(g, "confirm") \/ At(g, "reject") \/ At(g, "remove")
  PROVE  /\ call[g] \in FileCalls /\ call[g] \in AllMediaCalls /\ call[g].subject \in Attachments
         /\ attachment[call[g].subject] # Nil
<1>1. call[g] \in FileCalls
  BY CallAt DEF TypeOK, CallTypeOK
<1>2. call[g] \in AllMediaCalls /\ call[g].op = "media" /\ call[g].subject \in Attachments
  BY <1>1, MediaFields DEF AllMediaCalls
<1> QED
  BY <1>1, <1>2 DEF TypeOK, MediaReferences, FoundFiles, At

(* What a request about an uploaded cover has read.                          *)
LEMMA CoverCall ==
  ASSUME TypeOK, NEW g \in Goroutines,
         At(g, "stat_cover") \/ At(g, "confirm_cover") \/ At(g, "reject_cover")
  PROVE  /\ call[g] \in CoverCalls /\ call[g] \in AllMediaCalls /\ call[g].subject \in Covers
         /\ upload[call[g].subject] # Nil /\ upload[call[g].subject] \in UploadRows
<1>1. call[g] \in CoverCalls
  BY CallAt DEF TypeOK, CallTypeOK
<1>2. call[g] \in AllMediaCalls /\ call[g].op = "media" /\ call[g].subject \in Covers
  BY <1>1, MediaFields DEF AllMediaCalls
<1> QED
  BY <1>1, <1>2 DEF TypeOK, MediaReferences, MediaTypeOK, FoundFiles, At

(* It goes on with the same file.                                           *)
LEMMA MediaGoesOn ==
  ASSUME TypeOK, NEW g \in Goroutines, NEW pc, Goto(g, pc), MediaRowsKept,
         \/ /\ At(g, "stat") \/ At(g, "reject")
            /\ pc \in {"confirm", "reject", "discard"}
         \/ /\ At(g, "stat_cover") \/ At(g, "reject_cover")
            /\ pc \in {"confirm_cover", "reject_cover", "discard"}
         \/ At(g, "search") /\ pc = "apply"
  PROVE  MediaMove /\ call'[g].pc = pc /\ call'[g].subject = call[g].subject
<1> DEFINE x == [call[g] EXCEPT !.pc = pc]
<1>1. /\ call' = [call EXCEPT ![g] = x] /\ call[g] \in AllMediaCalls /\ call[g] # Nil
      /\ call'[g] = x
  BY CallAt DEF TypeOK, CallTypeOK, Goto, AllMediaCalls, At
<1>2. /\ x \in AllMediaCalls /\ x.pc = pc /\ pc \notin {"sweep", "tombstone"}
      /\ x.subject = call[g].subject
  <2>1. CASE (At(g, "stat") \/ At(g, "reject")) /\ pc \in {"confirm", "reject", "discard"}
    <3>1. call[g] \in FileCalls
      BY <2>1, FileCall
    <3> QED
      BY <3>1, <2>1 DEF AllMediaCalls, FileCalls, DiscardCalls
  <2>2. CASE (At(g, "stat_cover") \/ At(g, "reject_cover")) /\ pc \in {"confirm_cover", "reject_cover", "discard"}
    <3>1. call[g] \in CoverCalls
      BY <2>2, CoverCall
    <3> QED
      BY <3>1, <2>2 DEF AllMediaCalls, CoverCalls, DiscardCalls
  <2>3. CASE At(g, "search") /\ pc = "apply"
    <3>1. call[g] \in MediaCalls
      BY <2>3, CallAt DEF TypeOK, CallTypeOK
    <3> QED
      BY <3>1, <2>3 DEF AllMediaCalls, MediaCalls
  <2> QED
    BY <2>1, <2>2, <2>3
<1>3. FoundFiles(call[g]) /\ call[g].op = "media"
  BY <1>1, MediaFields DEF TypeOK, MediaReferences
<1>4. /\ x.subject \in Attachments => attachment'[x.subject] # Nil
      /\ x.subject \in Covers => upload'[x.subject] # Nil
  BY <1>2, <1>3 DEF FoundFiles, MediaRowsKept
<1> HIDE DEF x
<1>5. \A y : y = x => FoundFiles(y)'
  BY <1>2, <1>4 DEF FoundFiles
<1> QED
  BY <1>1, <1>2, <1>5 DEF MediaMove

(* StatUpload keeps every row typed and every reference, and the rest as it  *)
(* was.                                                                      *)
LEMMA StatUploadEffect ==
  ASSUME TypeOK, NEW g \in Goroutines, StatUpload(g)
  PROVE  MediaEffect
<1>1. call[g] \in AllMediaCalls /\ MediaRowsKept
  BY FileCall DEF StatUpload, mediaVars, MediaRowsKept
<1>2. MediaMove
  BY <1>1, MediaEnds, MediaGoesOn DEF StatUpload
<1> QED
  BY <1>2, MediaUnchanged DEF StatUpload

(* ListStalePending keeps every row typed and every reference, and the rest  *)
(* as it was.                                                                *)
LEMMA ListStalePendingEffect ==
  ASSUME TypeOK, NEW g \in Goroutines, ListStalePending(g)
  PROVE  MediaEffect
<1> DEFINE x == [op |-> "media", pc |-> "sweep", subject |-> Nil, todo |-> Stale]
<1>1. call[g] = Nil /\ call' = [call EXCEPT ![g] = x]
  BY FreeId DEF ListStalePending, Idle
<1>2. Stale \in SUBSET Attachments /\ \A a \in Stale : attachment[a] # Nil
  BY DEF Stale, Live
<1>3. /\ x \in AllMediaCalls /\ x.subject = Nil /\ x.todo = Stale
  BY <1>2 DEF AllMediaCalls, SweepCalls
<1> HIDE DEF x
<1>4. UNCHANGED <<attachment, upload>>
  BY DEF ListStalePending, mediaVars
<1>5. (Nil \in Attachments => attachment[Nil] # Nil) /\ (Nil \in Covers => upload[Nil] # Nil)
  BY MediaAssumption
<1>6. \A y : y = x => FoundFiles(y)'
  BY <1>2, <1>3, <1>4, <1>5 DEF FoundFiles
<1>7. MediaMove
  BY <1>1, <1>3, <1>6 DEF MediaMove
<1> QED
  BY <1>7, MediaUnchanged DEF ListStalePending

(* A status or a tombstone is written into a row that is there.             *)
LEMMA StatusWritten ==
  ASSUME TypeOK, NEW a \in Attachments, attachment[a] # Nil,
         NEW status \in {"pending", "ready", "failed"},
         attachment' = attachment \/ attachment' = SetStatus(a, status)
  PROVE  attachment' = attachment \/ \E row \in AttachmentRows : attachment' = [attachment EXCEPT ![a] = row]
<1>1. /\ [attachment[a] EXCEPT !.status = status] \in AttachmentRows
      /\ SetStatus(a, status) = [attachment EXCEPT ![a] = [attachment[a] EXCEPT !.status = status]]
  BY AttachmentWrites
<1> DEFINE row == [attachment[a] EXCEPT !.status = status]
<1> HIDE DEF row
<1> QED
  BY <1>1 DEF row

(* A soft delete that hits a row or none writes one attachment or none.      *)
LEMMA DeletionWritten ==
  ASSUME TypeOK, NEW a \in Attachments, attachment[a] # Nil,
         attachment' = attachment \/ attachment' = SoftDelete(a)
  PROVE  attachment' = attachment \/ \E row \in AttachmentRows : attachment' = [attachment EXCEPT ![a] = row]
<1>1. /\ [attachment[a] EXCEPT !.deleted = TRUE] \in AttachmentRows
      /\ SoftDelete(a) = [attachment EXCEPT ![a] = [attachment[a] EXCEPT !.deleted = TRUE]]
  BY AttachmentWrites
<1> QED
  BY <1>1, Zenon

(* ConfirmUpload keeps every row typed and every reference, and the rest as  *)
(* it was.                                                                   *)
LEMMA ConfirmUploadEffect ==
  ASSUME TypeOK, NEW g \in Goroutines, ConfirmUpload(g)
  PROVE  MediaEffect
<1> DEFINE a == call[g].subject
<1>1. call[g] \in AllMediaCalls /\ a \in Attachments /\ attachment[a] # Nil
  BY FileCall DEF ConfirmUpload
<1>2. MediaMove
  BY <1>1, MediaEnds DEF ConfirmUpload
<1>3. /\ attachment' = attachment \/ attachment' = SetStatus(a, "ready")
      /\ UNCHANGED <<opSeq, replica>> \/ Announce(a)
      /\ UNCHANGED <<account, session, refreshToken, userToken, rosterVars, upload, cover, object>>
  BY DEF ConfirmUpload
<1> HIDE DEF a
<1>4. attachment' = attachment \/ \E row \in AttachmentRows : attachment' = [attachment EXCEPT ![a] = row]
  BY <1>1, <1>3, StatusWritten
<1> QED
  BY <1>1, <1>2, <1>3, <1>4, AttachmentOnly

(* RejectUpload keeps every row typed and every reference, and the rest as   *)
(* it was.                                                                   *)
LEMMA RejectUploadEffect ==
  ASSUME TypeOK, NEW g \in Goroutines, RejectUpload(g)
  PROVE  MediaEffect
<1> DEFINE a == call[g].subject
<1>1. call[g] \in AllMediaCalls /\ a \in Attachments /\ attachment[a] # Nil
  BY FileCall DEF RejectUpload
<1>2. /\ attachment' = attachment \/ attachment' = SetStatus(a, "failed")
      /\ UNCHANGED <<opSeq, replica>>
      /\ UNCHANGED <<account, session, refreshToken, userToken, rosterVars, upload, cover, object>>
  BY DEF RejectUpload
<1>3. attachment' = attachment \/ \E row \in AttachmentRows : attachment' = [attachment EXCEPT ![a] = row]
  <2> HIDE DEF a
  <2> QED
    BY <1>1, <1>2, StatusWritten
<1>4. MediaRowsKept
  <2> HIDE DEF a
  <2> QED
    BY <1>1, <1>2, <1>3, AttachmentWritten DEF MediaRowsKept
<1>5. MediaMove
  BY <1>1, <1>4, MediaEnds, MediaGoesOn DEF RejectUpload
<1> HIDE DEF a
<1> QED
  BY <1>1, <1>2, <1>3, <1>5, AttachmentOnly

(* DeleteAttachment keeps every row typed and every reference, and the rest  *)
(* as it was.                                                                *)
LEMMA DeleteAttachmentEffect ==
  ASSUME TypeOK, NEW g \in Goroutines, DeleteAttachment(g)
  PROVE  MediaEffect
<1> DEFINE a == call[g].subject
<1>1. call[g] \in AllMediaCalls /\ a \in Attachments /\ attachment[a] # Nil
  BY FileCall DEF DeleteAttachment
<1>2. MediaMove
  BY <1>1, MediaEnds DEF DeleteAttachment
<1>3. /\ attachment' = attachment \/ attachment' = SoftDelete(a)
      /\ UNCHANGED <<opSeq, replica>> \/ Retract(a)
      /\ UNCHANGED <<account, session, refreshToken, userToken, rosterVars, upload, cover, object>>
  BY DEF DeleteAttachment
<1> HIDE DEF a
<1>4. attachment' = attachment \/ \E row \in AttachmentRows : attachment' = [attachment EXCEPT ![a] = row]
  BY <1>1, <1>3, DeletionWritten
<1> QED
  BY <1>1, <1>2, <1>3, <1>4, AttachmentOnly

(* A sweep has found what it is still to look at.                           *)
LEMMA SweepCall ==
  ASSUME TypeOK, NEW g \in Goroutines, At(g, "sweep") \/ At(g, "tombstone")
  PROVE  /\ call[g] # Nil /\ call[g] \in AllMediaCalls
         /\ call[g].todo \in SUBSET Attachments
         /\ \A a \in call[g].todo : attachment[a] # Nil
         /\ call[g].subject \in Attachments \cup {Nil}
         /\ call[g].subject \in Attachments => attachment[call[g].subject] # Nil
         /\ At(g, "tombstone") => call[g].subject \in Attachments
<1>1. call[g] \in SweepCalls \cup TombstoneCalls /\ call[g] # Nil
  BY CallAt DEF TypeOK, CallTypeOK, At
<1>2. /\ call[g].op = "media" /\ call[g].todo \in SUBSET Attachments
      /\ call[g].subject \in Attachments \cup {Nil} /\ call[g] \in AllMediaCalls
  BY <1>1, MediaFields DEF AllMediaCalls
<1>3. At(g, "tombstone") => call[g].subject \in Attachments
  BY CallAt, MediaFields DEF TypeOK, CallTypeOK
<1> QED
  BY <1>1, <1>2, <1>3 DEF TypeOK, MediaReferences, FoundFiles, At

(* A step that writes one attachment, and the object under its key or none. *)
LEMMA SweepOnly ==
  ASSUME TypeOK, UNCHANGED <<account, session, refreshToken, userToken, rosterVars, upload, cover, opSeq, replica>>,
         NEW a \in Attachments, NEW row \in AttachmentRows,
         attachment' = [attachment EXCEPT ![a] = row],
         NEW o \in {"good", "bad", Nil}, object' = [object EXCEPT ![a] = o],
         MediaMove
  PROVE  MediaEffect
<1>1. /\ attachment' \in [Attachments -> AttachmentRows \cup {Nil}]
      /\ \A b \in Attachments : attachment[b] # Nil => attachment'[b] # Nil
  BY AttachmentWritten
<1>2. object' \in [Attachments \cup Covers -> {"good", "bad", Nil}]
  BY DEF TypeOK, MediaTypeOK
<1>3. MediaTypeOK' /\ MediaRowsKept
  BY <1>1, <1>2 DEF TypeOK, MediaTypeOK, MediaRowsKept
<1>4. cover'.source = "uploaded" => cover'.key \in Covers /\ upload'[cover'.key] # Nil
  BY DEF TypeOK, MediaReferences
<1> QED
  BY <1>3, <1>4, MediaOnly

(* SweepObject keeps every row typed and every reference, and the rest as it *)
(* was.                                                                      *)
LEMMA SweepObjectEffect ==
  ASSUME TypeOK, NEW g \in Goroutines, SweepObject(g)
  PROVE  MediaEffect
<1>1. /\ call[g] # Nil /\ call[g] \in AllMediaCalls /\ call[g] \in SweepCalls
      /\ call[g].todo \in SUBSET Attachments
      /\ \A a \in call[g].todo : attachment[a] # Nil
      /\ call[g].subject \in Attachments => attachment[call[g].subject] # Nil
  BY SweepCall, CallAt DEF SweepObject, TypeOK, CallTypeOK
<1>2. CASE Done(g) /\ UNCHANGED <<object, attachment>>
  <2>1. MediaMove
    BY <1>1, <1>2, MediaEnds
  <2> QED
    BY <2>1, <1>2, MediaUnchanged DEF SweepObject, mediaVars
<1>3. ASSUME NEW a \in call[g].todo,
             object' = [object EXCEPT ![a] = Nil],
             attachment' = [attachment EXCEPT ![a].swept = TRUE],
             call' = [call EXCEPT ![g].pc = "tombstone", ![g].subject = a, ![g].todo = @ \ {a}]
      PROVE  MediaEffect
  <2> DEFINE x == [op |-> "media", pc |-> "tombstone", subject |-> a, todo |-> call[g].todo \ {a}]
             row == [attachment[a] EXCEPT !.swept = TRUE]
  <2>1. a \in Attachments /\ attachment[a] # Nil
    BY <1>1
  <2>2. row \in AttachmentRows /\ attachment' = [attachment EXCEPT ![a] = row]
    BY <2>1, <1>3, AttachmentWrites
  <2>3. call' = [call EXCEPT ![g] = x]
    <3>1. call \in [Goroutines -> Calls \cup {Nil}]
      BY DEF TypeOK
    <3>2. [[[call[g] EXCEPT !.pc = "tombstone"] EXCEPT !.subject = a] EXCEPT !.todo = call[g].todo \ {a}] = x
      <4> DEFINE y == call[g]
                 z == [[[y EXCEPT !.pc = "tombstone"] EXCEPT !.subject = a] EXCEPT !.todo = y.todo \ {a}]
      <4>1. y \in SweepCalls
        BY <1>1
      <4> HIDE DEF y
      <4>2. /\ DOMAIN z = {"op", "pc", "subject", "todo"}
            /\ z.op = "media" /\ z.pc = "tombstone" /\ z.subject = a /\ z.todo = y.todo \ {a}
        BY <4>1 DEF SweepCalls
      <4>3. z = [k \in DOMAIN z |-> z[k]]
        OBVIOUS
      <4> HIDE DEF z
      <4>4. z = [op |-> "media", pc |-> "tombstone", subject |-> a, todo |-> y.todo \ {a}]
        BY <4>2, <4>3
      <4> QED
        BY <4>4 DEF y, z
    <3>3. call' = [call EXCEPT ![g] =
                     [[[call[g] EXCEPT !.pc = "tombstone"] EXCEPT !.subject = a] EXCEPT !.todo = call[g].todo \ {a}]]
      <4> DEFINE c1 == [call[g] EXCEPT !.pc = "tombstone"]
                 c2 == [c1 EXCEPT !.subject = a]
                 c3 == [c2 EXCEPT !.todo = call[g].todo \ {a}]
      <4>1. c2.todo = call[g].todo
        BY <1>1 DEF SweepCalls
      <4>2. call' = [[[call EXCEPT ![g] = c1] EXCEPT ![g] = c2] EXCEPT ![g] = [c2 EXCEPT !.todo = c2.todo \ {a}]]
        BY <3>1, <1>3
      <4> QED
        BY <4>1, <4>2, <3>1
    <3> QED
      BY <3>2, <3>3
  <2>4. /\ x \in AllMediaCalls /\ x.op = "media" /\ x.pc = "tombstone" /\ x.subject = a
        /\ x.todo \in SUBSET Attachments /\ \A b \in x.todo : attachment[b] # Nil
    BY <1>1, <2>1 DEF AllMediaCalls, TombstoneCalls
  <2> HIDE DEF x, row
  <2>5. /\ UNCHANGED upload
        /\ \A b \in Attachments : attachment[b] # Nil => attachment'[b] # Nil
    BY <2>1, <2>2, AttachmentWritten DEF SweepObject
  <2>6. \A y : y = x => FoundFiles(y)'
    BY <2>1, <2>4, <2>5, MediaAssumption DEF FoundFiles
  <2>7. MediaMove
    BY <1>1, <2>3, <2>4, <2>6 DEF MediaMove
  <2> QED
    BY <1>3, <2>1, <2>2, <2>7, SweepOnly DEF SweepObject
<1>4. ASSUME NEW a \in call[g].todo, call' = [call EXCEPT ![g].todo = @ \ {a}],
             UNCHANGED <<object, attachment>>
      PROVE  MediaEffect
  <2> DEFINE x == [call[g] EXCEPT !.todo = @ \ {a}]
  <2>1. call' = [call EXCEPT ![g] = x]
    BY <1>4 DEF TypeOK
  <2>2. /\ x \in AllMediaCalls /\ x.op = "media" /\ x.subject = call[g].subject
        /\ x.todo \in SUBSET Attachments /\ \A b \in x.todo : attachment[b] # Nil
    BY <1>1 DEF AllMediaCalls, SweepCalls
  <2> HIDE DEF x
  <2>3. call[g].subject \notin Covers
    BY <1>1, MediaFields, MediaAssumption
  <2>4. UNCHANGED <<upload, attachment>>
    BY <1>4 DEF SweepObject
  <2>5. \A y : y = x => FoundFiles(y)'
    BY <1>1, <2>2, <2>3, <2>4 DEF FoundFiles
  <2>6. MediaMove
    BY <1>1, <2>1, <2>2, <2>5 DEF MediaMove
  <2> QED
    BY <2>6, <1>4, MediaUnchanged DEF SweepObject, mediaVars
<1> QED
  BY <1>2, <1>3, <1>4 DEF SweepObject

(* SweepRow keeps every row typed and every reference, and the rest as it    *)
(* was.                                                                      *)
LEMMA SweepRowEffect ==
  ASSUME TypeOK, NEW g \in Goroutines, SweepRow(g)
  PROVE  MediaEffect
<1> DEFINE a == call[g].subject
           x == [call[g] EXCEPT !.pc = "sweep"]
<1>1. /\ call[g] # Nil /\ call[g] \in AllMediaCalls /\ call[g] \in TombstoneCalls
      /\ call[g].todo \in SUBSET Attachments
      /\ \A b \in call[g].todo : attachment[b] # Nil
      /\ a \in Attachments /\ attachment[a] # Nil
  BY SweepCall, CallAt DEF SweepRow, TypeOK, CallTypeOK
<1>2. /\ attachment' = attachment \/ attachment' = SoftDelete(a)
      /\ UNCHANGED <<opSeq, replica>>
      /\ UNCHANGED <<account, session, refreshToken, userToken, rosterVars, upload, cover, object>>
      /\ Done(g) \/ Goto(g, "sweep")
  BY DEF SweepRow
<1>3. /\ x \in AllMediaCalls /\ x.op = "media" /\ x.subject = a
      /\ x.todo = call[g].todo
      /\ Goto(g, "sweep") => call' = [call EXCEPT ![g] = x]
  BY <1>1 DEF AllMediaCalls, TombstoneCalls, SweepCalls, Goto, TypeOK
<1> HIDE DEF a, x
<1>4. attachment' = attachment \/ \E row \in AttachmentRows : attachment' = [attachment EXCEPT ![a] = row]
  BY <1>1, <1>2, DeletionWritten
<1>5. \A b \in Attachments : attachment[b] # Nil => attachment'[b] # Nil
  BY <1>1, <1>4, AttachmentWritten
<1>6. \A y : y = x => FoundFiles(y)'
  BY <1>1, <1>3, <1>5, MediaAssumption DEF FoundFiles
<1>7. MediaMove
  BY <1>1, <1>2, <1>3, <1>6, MediaEnds DEF MediaMove
<1> QED
  BY <1>1, <1>2, <1>4, <1>7, AttachmentOnly

(* A step on a cover's upload: a row is written, and nothing else.          *)
LEMMA UploadWritten ==
  ASSUME TypeOK, NEW c \in Covers, NEW row \in UploadRows, upload' = [upload EXCEPT ![c] = row]
  PROVE  /\ upload' \in [Covers -> UploadRows \cup {Nil}]
         /\ \A d \in Covers : upload'[d] = IF d = c THEN row ELSE upload[d]
         /\ \A d \in Covers : upload[d] # Nil => upload'[d] # Nil
         /\ upload'[c] # Nil
<1>1. /\ upload' \in [Covers -> UploadRows \cup {Nil}]
      /\ \A d \in Covers : upload'[d] = IF d = c THEN row ELSE upload[d]
  BY DEF TypeOK, MediaTypeOK
<1> QED
  BY <1>1, MediaAssumption

(* A step that writes at most one uploaded cover.                            *)
LEMMA UploadOnly ==
  ASSUME TypeOK, UNCHANGED <<account, session, refreshToken, userToken, rosterVars, attachment, cover, object,
                             opSeq, replica>>,
         NEW c \in Covers, upload' = upload \/ \E row \in UploadRows : upload' = [upload EXCEPT ![c] = row],
         MediaMove
  PROVE  MediaEffect
<1>1. /\ upload' \in [Covers -> UploadRows \cup {Nil}]
      /\ \A d \in Covers : upload[d] # Nil => upload'[d] # Nil
  BY UploadWritten DEF TypeOK, MediaTypeOK
<1>2. MediaTypeOK' /\ MediaRowsKept
  BY <1>1 DEF TypeOK, MediaTypeOK, MediaRowsKept
<1>3. cover'.source = "uploaded" => cover'.key \in Covers /\ upload'[cover'.key] # Nil
  BY <1>1 DEF TypeOK, MediaReferences
<1> QED
  BY <1>2, <1>3, MediaOnly

(* RequestCoverUpload keeps every row typed and every reference, and the     *)
(* rest as it was.                                                           *)
LEMMA RequestCoverUploadEffect ==
  ASSUME TypeOK, NEW g \in Goroutines, NEW c \in Covers, RequestCoverUpload(g, c)
  PROVE  MediaEffect
<1>1. call[g] \in AllMediaCalls
  BY CallAt DEF RequestCoverUpload, TypeOK, CallTypeOK, AllMediaCalls
<1>2. MediaMove
  BY <1>1, MediaEnds DEF RequestCoverUpload
<1> DEFINE row == [status |-> "pending", again |-> FALSE]
<1>3. row \in UploadRows /\ upload' = [upload EXCEPT ![c] = row]
  BY DEF RequestCoverUpload, UploadRows
<1> HIDE DEF row
<1> QED
  BY <1>2, <1>3, UploadOnly DEF RequestCoverUpload

(* StatCover keeps every row typed and every reference, and the rest as it   *)
(* was.                                                                      *)
LEMMA StatCoverEffect ==
  ASSUME TypeOK, NEW g \in Goroutines, StatCover(g)
  PROVE  MediaEffect
<1>1. call[g] \in AllMediaCalls /\ MediaRowsKept
  BY CoverCall DEF StatCover, mediaVars, MediaRowsKept
<1>2. MediaMove
  BY <1>1, MediaEnds, MediaGoesOn DEF StatCover
<1> QED
  BY <1>2, MediaUnchanged DEF StatCover

(* The rows the statements on cover uploads write.                          *)
LEMMA UploadWrites ==
  ASSUME TypeOK, NEW c \in Covers, upload[c] # Nil, NEW status \in {"ready", "failed"}
  PROVE  /\ upload[c] \in UploadRows
         /\ [upload[c] EXCEPT !.status = status] \in UploadRows
         /\ [upload EXCEPT ![c].status = status] = [upload EXCEPT ![c] = [upload[c] EXCEPT !.status = status]]
<1>1. upload[c] \in UploadRows
  BY DEF TypeOK, MediaTypeOK
<1>2. [upload[c] EXCEPT !.status = status] \in UploadRows
  BY <1>1 DEF UploadRows
<1> QED
  BY <1>1, <1>2

(* RejectCover keeps every row typed and every reference, and the rest as it *)
(* was.                                                                      *)
LEMMA RejectCoverEffect ==
  ASSUME TypeOK, NEW g \in Goroutines, RejectCover(g)
  PROVE  MediaEffect
<1> DEFINE c == call[g].subject
<1>1. call[g] \in AllMediaCalls /\ c \in Covers /\ upload[c] # Nil
  BY CoverCall DEF RejectCover
<1>2. /\ upload' = upload \/ upload' = [upload EXCEPT ![c].status = "failed"]
      /\ UNCHANGED <<account, session, refreshToken, userToken, rosterVars, attachment, cover, object,
                     opSeq, replica>>
  BY DEF RejectCover
<1>3. upload' = upload \/ \E row \in UploadRows : upload' = [upload EXCEPT ![c] = row]
  <2> DEFINE row == [upload[c] EXCEPT !.status = "failed"]
  <2>1. row \in UploadRows /\ [upload EXCEPT ![c].status = "failed"] = [upload EXCEPT ![c] = row]
    <3> HIDE DEF c
    <3> QED
      BY <1>1, UploadWrites
  <2> HIDE DEF c, row
  <2> QED
    BY <1>2, <2>1
<1>4. MediaRowsKept
  <2> HIDE DEF c
  <2> QED
    BY <1>1, <1>2, <1>3, UploadWritten DEF MediaRowsKept
<1>5. MediaMove
  BY <1>4, MediaGoesOn DEF RejectCover
<1> HIDE DEF c
<1> QED
  BY <1>1, <1>2, <1>3, <1>5, UploadOnly

(* Discard keeps every row typed and every reference, and the rest as it     *)
(* was.                                                                      *)
LEMMA DiscardEffect ==
  ASSUME TypeOK, NEW g \in Goroutines, Discard(g)
  PROVE  MediaEffect
<1>1. call[g] \in AllMediaCalls
  BY CallAt DEF Discard, TypeOK, CallTypeOK, AllMediaCalls
<1>2. MediaMove
  BY <1>1, MediaEnds DEF Discard
<1>3. object' \in [Attachments \cup Covers -> {"good", "bad", Nil}]
  BY DEF TypeOK, MediaTypeOK, Discard
<1>4. MediaTypeOK' /\ MediaRowsKept
  BY <1>3 DEF TypeOK, MediaTypeOK, MediaRowsKept, Discard
<1>5. cover'.source = "uploaded" => cover'.key \in Covers /\ upload'[cover'.key] # Nil
  BY DEF TypeOK, MediaReferences, Discard
<1> QED
  BY <1>2, <1>4, <1>5, MediaOnly DEF Discard

(* AutoAssign keeps every row typed and every reference, and the rest as it  *)
(* was.                                                                      *)
LEMMA AutoAssignEffect ==
  ASSUME TypeOK, NEW g \in Goroutines, AutoAssign(g)
  PROVE  MediaEffect
<1>1. call[g] \in AllMediaCalls /\ MediaRowsKept
  BY CallAt DEF AutoAssign, TypeOK, CallTypeOK, AllMediaCalls, mediaVars, MediaRowsKept
<1>2. MediaMove
  BY <1>1, MediaEnds, MediaGoesOn DEF AutoAssign
<1> QED
  BY <1>2, MediaUnchanged DEF AutoAssign

(* The trip counts a version.                                               *)
LEMMA TripWrites ==
  ASSUME TypeOK, trip # Nil, trip' = [trip EXCEPT !.version = @ + 1]
  PROVE  trip' \in TripRows /\ trip' # Nil
<1>1. trip \in TripRows
  BY DEF TypeOK, RosterTypeOK
<1>2. trip' \in TripRows
  BY <1>1 DEF TripRows
<1> QED
  BY <1>2, MembershipAssumption

(* Steps on files and the cover that write the trip.                        *)
LEMMA MediaAndTrip ==
  ASSUME TypeOK, UNCHANGED <<account, session, refreshToken, userToken, member, invite, joined>>,
         trip' = trip \/ trip' \in TripRows,
         MediaTypeOK', MediaRowsKept, MediaMove,
         cover'.source = "uploaded" => cover'.key \in Covers /\ upload'[cover'.key] # Nil
  PROVE  MediaEffect
<1>1. CallStep(AllMediaCalls) /\ MediaReferences'
  BY MediaMoves
<1>2. RosterTypeOK' /\ RosterReferences' /\ RowsKept
  BY MembershipAssumption DEF TypeOK, RosterTypeOK, RosterReferences, RowsKept
<1> QED
  BY <1>1, <1>2 DEF MediaEffect

(* The trip's handler goes on with its cover.                               *)
LEMMA ChooseCoverMove ==
  ASSUME NEW g \in Goroutines, call[g] = Nil, ChooseCover(g)
  PROVE  MediaMove
<1>1. PICK pc \in {"search", "apply"} :
          call' = [call EXCEPT ![g] = [op |-> "media", pc |-> pc, subject |-> Nil]]
  BY DEF ChooseCover
<1> DEFINE x == [op |-> "media", pc |-> pc, subject |-> Nil]
<1>2. x \in AllMediaCalls /\ x.subject = Nil /\ x.pc \notin {"sweep", "tombstone"}
  BY DEF AllMediaCalls, MediaCalls
<1>3. call' = [call EXCEPT ![g] = x]
  BY <1>1
<1> HIDE DEF x
<1>4. \A y : y = x => FoundFiles(y)'
  BY <1>2, MediaAssumption DEF FoundFiles
<1> QED
  BY <1>2, <1>3, <1>4 DEF MediaMove

(* ConfirmCover keeps every row typed and every reference, and the rest as   *)
(* it was.                                                                   *)
LEMMA ConfirmCoverEffect ==
  ASSUME TypeOK, NEW g \in Goroutines, ConfirmCover(g)
  PROVE  MediaEffect
<1> DEFINE c == call[g].subject
<1>1. call[g] \in AllMediaCalls /\ call[g] \in CoverCalls /\ c \in Covers /\ upload[c] # Nil
  BY CoverCall DEF ConfirmCover
<1>2. CASE Done(g) /\ UNCHANGED <<upload, cover, trip>>
  <2>1. MediaMove
    BY <1>1, <1>2, MediaEnds
  <2> QED
    BY <2>1, <1>2, MediaUnchanged DEF ConfirmCover, rosterVars, mediaVars
<1>3. CASE /\ TripLocked
           /\ upload' = [upload EXCEPT ![c].status = "ready"]
           /\ SetCover("uploaded", c, Assigning)
           /\ IF cover.source = "uploaded"
              THEN call' = [call EXCEPT ![g].pc = "discard", ![g].subject = cover.key]
              ELSE Done(g)
  <2>1. trip' \in TripRows
    BY <1>3, TripWrites DEF SetCover, TripLocked
  <2> DEFINE row == [upload[c] EXCEPT !.status = "ready"]
  <2>2. row \in UploadRows /\ upload' = [upload EXCEPT ![c] = row]
    <3> HIDE DEF c
    <3> QED
      BY <1>1, <1>3, UploadWrites
  <2>3. /\ upload' \in [Covers -> UploadRows \cup {Nil}]
        /\ \A d \in Covers : upload[d] # Nil => upload'[d] # Nil
        /\ upload'[c] # Nil
    <3> HIDE DEF c, row
    <3> QED
      BY <1>1, <2>2, UploadWritten
  <2>4. cover' \in CoverColumns /\ cover'.source = "uploaded" /\ cover'.key = c
    BY <1>1, <1>3 DEF SetCover, CoverColumns, Assigning
  <2>5. MediaTypeOK' /\ MediaRowsKept
    BY <2>3, <2>4 DEF TypeOK, MediaTypeOK, MediaRowsKept, ConfirmCover
  <2>6. CASE cover.source = "uploaded"
    <3> DEFINE k == cover.key
               x == [op |-> "media", pc |-> "discard", subject |-> k]
    <3>1. k \in Covers /\ upload[k] # Nil
      BY <2>6 DEF TypeOK, MediaReferences
    <3>2. /\ x \in AllMediaCalls /\ x.subject = k /\ x.pc = "discard"
      BY <3>1 DEF AllMediaCalls, DiscardCalls
    <3>3. call' = [call EXCEPT ![g] = x]
      <4> DEFINE y == call[g]
                 z == [[y EXCEPT !.pc = "discard"] EXCEPT !.subject = k]
      <4>1. y \in CoverCalls
        BY <1>1
      <4>2. call' = [call EXCEPT ![g] = z]
        BY <1>3, <2>6 DEF TypeOK
      <4> HIDE DEF y
      <4>3. /\ DOMAIN z = {"op", "pc", "subject"}
            /\ z.op = "media" /\ z.pc = "discard" /\ z.subject = k
        BY <4>1 DEF CoverCalls
      <4>4. z = [j \in DOMAIN z |-> z[j]]
        OBVIOUS
      <4> HIDE DEF z
      <4>5. z = x
        BY <4>3, <4>4
      <4> QED
        BY <4>2, <4>5
    <3> HIDE DEF x
    <3>4. \A y : y = x => FoundFiles(y)'
      BY <3>1, <3>2, <2>3, MediaAssumption DEF FoundFiles
    <3>5. MediaMove
      BY <1>1, <3>2, <3>3, <3>4 DEF MediaMove
    <3> HIDE DEF c
    <3> QED
      BY <3>5, <1>1, <2>1, <2>3, <2>4, <2>5, MediaAndTrip DEF ConfirmCover
  <2>7. CASE cover.source # "uploaded"
    <3>1. MediaMove
      BY <1>1, <1>3, <2>7, MediaEnds
    <3> HIDE DEF c
    <3> QED
      BY <3>1, <1>1, <2>1, <2>3, <2>4, <2>5, MediaAndTrip DEF ConfirmCover
  <2> QED
    BY <2>6, <2>7
<1> QED
  BY <1>2, <1>3 DEF ConfirmCover

(* ApplyCover keeps every row typed and every reference, and the rest as it  *)
(* was.                                                                      *)
LEMMA ApplyCoverEffect ==
  ASSUME TypeOK, NEW g \in Goroutines, ApplyCover(g)
  PROVE  MediaEffect
<1>1. call[g] \in AllMediaCalls
  BY CallAt DEF ApplyCover, TypeOK, CallTypeOK, AllMediaCalls
<1>2. MediaMove
  BY <1>1, MediaEnds DEF ApplyCover
<1>3. CASE UNCHANGED <<cover, trip>>
  BY <1>2, <1>3, MediaUnchanged DEF ApplyCover, rosterVars, mediaVars
<1>4. CASE TripLocked /\ \E source \in {"suggested", "neutral"} : SetCover(source, Nil, {})
  <2>1. trip' \in TripRows
    BY <1>4, TripWrites DEF SetCover, TripLocked
  <2>2. cover' \in CoverColumns /\ cover'.source # "uploaded"
    BY <1>4 DEF SetCover, CoverColumns
  <2>3. MediaTypeOK' /\ MediaRowsKept
    BY <2>2 DEF TypeOK, MediaTypeOK, MediaRowsKept, ApplyCover
  <2> QED
    BY <1>2, <2>1, <2>2, <2>3, MediaAndTrip DEF ApplyCover
<1> QED
  BY <1>3, <1>4 DEF ApplyCover

(* TripUpdate keeps every row typed and every reference, and the rest as it  *)
(* was.                                                                      *)
LEMMA TripUpdateEffect ==
  ASSUME TypeOK, NEW g \in Goroutines, NEW u \in People, TripUpdate(g, u)
  PROVE  MediaEffect
<1>1. call[g] = Nil
  BY FreeId DEF TripUpdate, Idle
<1>2. MediaMove
  BY <1>1, ChooseCoverMove DEF TripUpdate, MediaMove
<1>3. trip' \in TripRows
  BY TripWrites DEF TripUpdate, TripLocked
<1>4. MediaTypeOK' /\ MediaRowsKept
  BY DEF TypeOK, MediaTypeOK, MediaRowsKept, TripUpdate, mediaVars
<1>5. cover'.source = "uploaded" => cover'.key \in Covers /\ upload'[cover'.key] # Nil
  BY DEF TypeOK, MediaReferences, TripUpdate, mediaVars
<1> QED
  BY <1>2, <1>3, <1>4, <1>5, MediaAndTrip DEF TripUpdate

(* TripCreate keeps every row typed and every reference, and the rest as it  *)
(* was.                                                                      *)
LEMMA TripCreateEffect ==
  ASSUME TypeOK, NEW g \in Goroutines, NEW u \in People, TripCreate(g, u)
  PROVE  MediaEffect
<1>1. call[g] = Nil
  BY FreeId DEF TripCreate, Idle
<1>2. MediaMove
  BY <1>1, ChooseCoverMove DEF TripCreate
<1>3. MediaTypeOK' /\ MediaRowsKept
  BY DEF TypeOK, MediaTypeOK, MediaRowsKept, TripCreate, mediaVars
<1>4. cover'.source = "uploaded" => cover'.key \in Covers /\ upload'[cover'.key] # Nil
  BY DEF TypeOK, MediaReferences, TripCreate, mediaVars
<1>5. CallStep(AllMediaCalls) /\ MediaReferences'
  BY <1>2, <1>3, <1>4, MediaMoves
<1>6. /\ trip' \in TripRows /\ trip' # Nil
      /\ InsertMember("owner") \in MemberRows
  <2>1. InsertTrip \in TripRows
    BY DEF InsertTrip, TripRows
  <2>2. InsertMember("owner") \in MemberRows
    BY DEF InsertMember, MemberRows
  <2> QED
    BY <2>1, <2>2, MembershipAssumption DEF TripCreate
<1>7. member' \in [People -> MemberRows \cup {Nil}]
  BY <1>6 DEF TypeOK, RosterTypeOK, TripCreate
<1>8. RosterTypeOK' /\ RosterReferences' /\ RowsKept
  BY <1>6, <1>7 DEF TypeOK, RosterTypeOK, RosterReferences, RowsKept, TripCreate
<1> QED
  BY <1>3, <1>5, <1>8 DEF MediaEffect, TripCreate

(* PutObject keeps every row typed and every reference, and the rest as it   *)
(* was.                                                                      *)
LEMMA PutObjectEffect ==
  ASSUME TypeOK, NEW k \in Attachments \cup Covers, NEW quality \in {"good", "bad"}, PutObject(k, quality)
  PROVE  MediaEffect
<1>1. object' \in [Attachments \cup Covers -> {"good", "bad", Nil}]
  BY DEF TypeOK, MediaTypeOK, PutObject
<1>2. /\ upload' \in [Covers -> UploadRows \cup {Nil}]
      /\ \A d \in Covers : upload[d] # Nil => upload'[d] # Nil
  <2>1. CASE upload' = upload
    BY <2>1 DEF TypeOK, MediaTypeOK
  <2>2. CASE k \in Covers /\ upload' = [upload EXCEPT ![k].again = TRUE]
    <3> DEFINE row == [upload[k] EXCEPT !.again = TRUE]
    <3>1. upload[k] \in UploadRows
      BY <2>2, MediaAssumption DEF PutObject, Open, TypeOK, MediaTypeOK
    <3>2. row \in UploadRows /\ upload' = [upload EXCEPT ![k] = row]
      BY <2>2, <3>1 DEF UploadRows
    <3> HIDE DEF row
    <3> QED
      BY <2>2, <3>2, UploadWritten
  <2> QED
    BY <2>1, <2>2 DEF PutObject
<1>3. MediaTypeOK' /\ MediaRowsKept
  BY <1>1, <1>2 DEF TypeOK, MediaTypeOK, MediaRowsKept, PutObject
<1>4. cover'.source = "uploaded" => cover'.key \in Covers /\ upload'[cover'.key] # Nil
  BY <1>2 DEF TypeOK, MediaReferences, PutObject
<1>5. MediaMove
  BY DEF MediaMove, PutObject, accountVars
<1> QED
  BY <1>3, <1>4, <1>5, MediaOnly DEF PutObject, accountVars

(* GrowOld keeps every row typed and every reference, and the rest as it     *)
(* was.                                                                      *)
LEMMA GrowOldEffect ==
  ASSUME TypeOK, NEW a \in Attachments, GrowOld(a)
  PROVE  MediaEffect
<1> DEFINE row == [attachment[a] EXCEPT !.stale = TRUE]
<1>1. attachment[a] # Nil
  BY DEF GrowOld, Open
<1>2. row \in AttachmentRows
  BY <1>1, AttachmentWrites
<1>3. attachment' = [attachment EXCEPT ![a] = row]
  BY DEF GrowOld
<1>4. MediaMove
  BY DEF MediaMove, GrowOld, accountVars
<1> HIDE DEF row
<1> QED
  BY <1>2, <1>3, <1>4, AttachmentOnly DEF GrowOld, accountVars

(* Every request about files that begins is one of the above.                *)
LEMMA EnterEffects ==
  ASSUME TypeOK, NEW g \in Goroutines, NEW u \in People,
         \/ \E pc \in {"link", "reserve"} : Enter(g, u, "upload_attachments", pc, Nil)
         \/ \E a \in Attachments, pc \in {"stat", "remove"} :
               attachment[a] # Nil /\ Enter(g, u, "upload_attachments", pc, a)
         \/ Enter(g, u, "edit_trip", "reserve_cover", Nil)
         \/ \E c \in Covers : upload[c] # Nil /\ Enter(g, u, "edit_trip", "stat_cover", c)
  PROVE  MediaEffect
<1>1. ASSUME NEW cap, NEW pc \in {"link", "reserve", "reserve_cover"}, Enter(g, u, cap, pc, Nil)
      PROVE  MediaEffect
  <2>1. [op |-> "media", pc |-> pc, subject |-> Nil] \in MediaCalls \cup FileCalls \cup CoverCalls
    BY DEF MediaCalls
  <2> QED
    BY <1>1, <2>1, MediaAssumption, EnterEffect
<1>2. ASSUME NEW cap, NEW pc \in {"stat", "remove"}, NEW a \in Attachments, attachment[a] # Nil,
             Enter(g, u, cap, pc, a)
      PROVE  MediaEffect
  <2>1. [op |-> "media", pc |-> pc, subject |-> a] \in MediaCalls \cup FileCalls \cup CoverCalls
    BY DEF FileCalls
  <2> QED
    BY <1>2, <2>1, MediaAssumption, EnterEffect
<1>3. ASSUME NEW c \in Covers, upload[c] # Nil, Enter(g, u, "edit_trip", "stat_cover", c)
      PROVE  MediaEffect
  <2>1. [op |-> "media", pc |-> "stat_cover", subject |-> c] \in MediaCalls \cup FileCalls \cup CoverCalls
    BY DEF CoverCalls
  <2> QED
    BY <1>3, <2>1, MediaAssumption, EnterEffect
<1> QED
  BY <1>1, <1>2, <1>3

(* Every step about files is one of the above.                               *)
LEMMA MediaEffects ==
  ASSUME TypeOK,
         \/ MediaRequest \/ MediaTime
         \/ \E g \in Goroutines : MediaStep(g)
         \/ \E g \in Goroutines, u \in People : TripCreate(g, u)
  PROVE  MediaEffect
<1>1. CASE MediaRequest
  BY <1>1, EnterEffects, TripUpdateEffect, ListStalePendingEffect DEF MediaRequest
<1>2. CASE MediaTime
  BY <1>2, GrowOldEffect, PutObjectEffect DEF MediaTime
<1>3. CASE \E g \in Goroutines : MediaStep(g)
  BY <1>3, CreateLinkEffect, RequestUploadEffect, StatUploadEffect, ConfirmUploadEffect,
     RejectUploadEffect, DeleteAttachmentEffect, SweepObjectEffect, SweepRowEffect,
     RequestCoverUploadEffect, StatCoverEffect, RejectCoverEffect, ConfirmCoverEffect, DiscardEffect,
     AutoAssignEffect, ApplyCoverEffect DEF MediaStep
<1>4. CASE \E g \in Goroutines, u \in People : TripCreate(g, u)
  BY <1>4, TripCreateEffect
<1> QED
  BY <1>1, <1>2, <1>3, <1>4
-----------------------------------------------------------------------------
(* The steps of the system by the tables they touch.                        *)
AccountMoves == AccountRequest \/ \E g \in Goroutines : AccountStep(g)

SocketMoves ==
    \/ SocketRequest \/ \E g \in Goroutines : SocketStep(g)
    \/ \E c \in Conns : ConnStep(c) \/ Disconnect(c)
    \/ \E m \in inflight : Receive(m)
    \/ \E k \in Tickets : ExpireTicket(k)

RosterMoves == RosterRequest \/ \E g \in Goroutines : RosterStep(g)

FileMoves ==
    \/ MediaRequest \/ MediaTime
    \/ \E g \in Goroutines : MediaStep(g)
    \/ \E g \in Goroutines, u \in People : TripCreate(g, u)

(* A step is of one of four components and leaves the state of the others.   *)
LEMMA NextCases ==
  ASSUME Next
  PROVE  \/ AccountMoves /\ UNCHANGED <<socketVars, rosterVars, mediaVars>>
         \/ SocketMoves /\ UNCHANGED <<rosterVars, mediaVars>>
         \/ RosterMoves /\ UNCHANGED <<socketVars, mediaVars>>
         \/ FileMoves /\ UNCHANGED socketVars
  BY DEF Next, Request, Serve, Proceed, Hear, Leave, AccountMoves, SocketMoves, RosterMoves, FileMoves

(* Requests of other kinds hold no file.                                    *)
LEMMA FilesUntouched ==
  ASSUME TypeOK, UNCHANGED mediaVars, CallTypeOK',
         CallStep(AccountCalls) \/ CallStep(SocketCalls) \/ CallStep(RosterCalls)
  PROVE  MediaTypeOK' /\ MediaReferences'
<1> DEFINE others == SocketCalls \cup RosterCalls
<1>1. \A x \in others : x.op # "media"
  BY CallSteps DEF SocketCalls, RosterCalls, AccountCalls
<1>2. MediaTypeOK'
  BY DEF TypeOK, MediaTypeOK, mediaVars
<1>3. \A h \in Goroutines : call'[h] = call[h] \/ call'[h] = Nil \/ call'[h] \in others
  BY DEF CallStep, SocketCalls, TypeOK
<1> HIDE DEF others
<1>4. \A h \in Goroutines : call[h] # Nil => FoundFiles(call[h])
  BY DEF TypeOK, MediaReferences
<1>5. UNCHANGED <<attachment, upload, cover>>
  BY DEF mediaVars
<1>6. \A h \in Goroutines : call'[h] # Nil => FoundFiles(call[h])' \/ call'[h].op # "media"
  BY <1>1, <1>3, <1>4, <1>5 DEF FoundFiles
<1>7. \A h \in Goroutines : (call[h] # Nil => FoundFiles(call[h]))'
  BY <1>6 DEF FoundFiles
<1> QED
  BY <1>2, <1>5, <1>7 DEF TypeOK, MediaReferences

(* Tickets and connections keep their session.                              *)
LEMMA SocketsUntouched ==
  ASSUME TypeOK, UNCHANGED socketVars, RowsKept
  PROVE  SocketsTypeOK' /\ SocketReferences'
<1>1. /\ \A k \in Tickets : ticket[k] # Nil => ticket[k].session \in Sessions
      /\ \A c \in Conns : conn[c] # Nil => conn[c].session \in Sessions
  BY DEF TypeOK, SocketsTypeOK, TicketRows, ConnStates
<1>2. SocketsTypeOK'
  BY DEF TypeOK, SocketsTypeOK, socketVars
<1>3. SocketReferences'
  BY <1>1 DEF TypeOK, SocketReferences, socketVars, RowsKept
<1> QED
  BY <1>2, <1>3

(* The database of a fresh installation or of one in use is well formed.    *)
LEMMA InitTyped ==
  ASSUME Init
  PROVE  TypeOK
<1>1. call = [g \in Goroutines |-> Nil]
  BY DEF Init, AccountsInit
<1>2. CallTypeOK /\ CallReferences
  BY <1>1 DEF CallTypeOK, CallReferences
<1>3. AccountsTypeOK /\ AccountReferences
  <2>1. userToken = [k \in UserTokens |-> Nil]
    BY DEF Init, AccountsInit
  <2>2. CASE /\ account = [u \in Users |-> Nil]
             /\ session = [s \in Sessions |-> Nil]
             /\ refreshToken = [t \in RefreshTokens |-> Nil]
    BY <2>1, <2>2 DEF AccountsTypeOK, AccountReferences
  <2>3. ASSUME NEW p \in Passwords, NEW r \in Sessions, NEW q \in RefreshTokens, NEW owner \in Users,
               account = [u \in Users |-> [password |-> p, verified |-> TRUE, version |-> 2]],
               session = [s \in Sessions |->
                            IF s = r THEN [user |-> owner, password |-> p, straddles |-> FALSE,
                                           revoked |-> Nil, expired |-> FALSE]
                            ELSE Nil],
               refreshToken = [t \in RefreshTokens |->
                                 IF t = q THEN [session |-> r, used |-> FALSE, replaced_by |-> Nil,
                                                expired |-> FALSE]
                                 ELSE Nil]
        PROVE  AccountsTypeOK /\ AccountReferences
    <3> DEFINE row == [password |-> p, verified |-> TRUE, version |-> 2]
               s0 == [user |-> owner, password |-> p, straddles |-> FALSE, revoked |-> Nil,
                      expired |-> FALSE]
               t0 == [session |-> r, used |-> FALSE, replaced_by |-> Nil, expired |-> FALSE]
    <3>1. row \in AccountRows
      BY DEF AccountRows
    <3>2. s0 \in SessionRows /\ s0.user = owner
      BY DEF SessionRows
    <3>3. t0 \in RefreshTokenRows /\ t0.session = r /\ ~t0.used /\ t0.replaced_by = Nil
      BY DEF RefreshTokenRows
    <3>4. /\ account = [u \in Users |-> row]
          /\ session = [s \in Sessions |-> IF s = r THEN s0 ELSE Nil]
          /\ refreshToken = [t \in RefreshTokens |-> IF t = q THEN t0 ELSE Nil]
      BY <2>3
    <3> HIDE DEF row, s0, t0
    <3>5. AccountsTypeOK
      BY <2>1, <3>1, <3>2, <3>3, <3>4 DEF AccountsTypeOK
    <3>6. row # Nil /\ s0 # Nil
      BY <3>1, <3>2, AccountsAssumption
    <3>7. AccountReferences
      BY <2>1, <3>2, <3>3, <3>4, <3>6 DEF AccountReferences
    <3> QED
      BY <3>5, <3>7
  <2>4. CASE ~(account = [u \in Users |-> Nil] /\ session = [s \in Sessions |-> Nil]
                  /\ refreshToken = [t \in RefreshTokens |-> Nil])
    <3> DEFINE p == CHOOSE p \in Passwords : TRUE
               r == CHOOSE id \in Sessions : TRUE
               q == CHOOSE id \in RefreshTokens : TRUE
    <3>1. p \in Passwords /\ r \in Sessions /\ q \in RefreshTokens
      BY AccountsAssumption
    <3>2. \E owner \in Users :
             /\ account = [u \in Users |-> [password |-> p, verified |-> TRUE, version |-> 2]]
             /\ session = [s \in Sessions |->
                            IF s = r THEN [user |-> owner, password |-> p, straddles |-> FALSE,
                                           revoked |-> Nil, expired |-> FALSE]
                            ELSE Nil]
             /\ refreshToken = [t \in RefreshTokens |->
                                 IF t = q THEN [session |-> r, used |-> FALSE, replaced_by |-> Nil,
                                                expired |-> FALSE]
                                 ELSE Nil]
      BY <2>4 DEF Init, AccountsInit
    <3> HIDE DEF p, r, q
    <3> QED
      BY <3>1, <3>2, <2>3
  <2> QED
    BY <2>2, <2>4
<1>4. SocketsTypeOK /\ SocketReferences
  BY DEF Init, SocketsInit, SocketsTypeOK, SocketReferences
<1>5. RosterTypeOK /\ RosterReferences
  <2>1. joined \in [Invites -> Seq(People)]
    BY DEF Init, RosterInit
  <2>2. CASE /\ trip = Nil
             /\ member = [u \in People |-> Nil]
             /\ invite = [i \in Invites |-> Nil]
    BY <2>1, <2>2 DEF RosterTypeOK, RosterReferences
  <2>3. ASSUME NEW owner, NEW i,
               trip = InsertTrip,
               member = [u \in People |-> IF u = owner THEN InsertMember("owner") ELSE Nil],
               invite = [j \in Invites |-> IF j = i THEN InsertInvitation(Nil, "editor", Nil) ELSE Nil]
        PROVE  RosterTypeOK /\ RosterReferences
    <3>1. InsertTrip \in TripRows
      BY DEF InsertTrip, TripRows
    <3>2. InsertMember("owner") \in MemberRows
      BY DEF InsertMember, MemberRows
    <3>3. InsertInvitation(Nil, "editor", Nil) \in InviteRows
      BY DEF InsertInvitation, InviteRows, AssignableRoles
    <3>4. trip # Nil
      BY <2>3, <3>1, MembershipAssumption
    <3> QED
      BY <2>1, <2>3, <3>1, <3>2, <3>3, <3>4 DEF RosterTypeOK, RosterReferences
  <2> QED
    BY <2>2, <2>3 DEF Init, RosterInit
<1>6. MediaTypeOK /\ MediaReferences
  <2>1. cover \in CoverColumns /\ cover.source = "neutral"
    BY DEF Init, MediaInit, CoverColumns
  <2>2. replica \in [seq : Nat, t : [attachments : [Attachments -> FoldedRows \cup {Nil}]]]
    BY DEF Init, MediaInit
  <2>3. MediaTypeOK
    BY <2>1, <2>2 DEF Init, MediaInit, MediaTypeOK
  <2> QED
    BY <1>1, <2>1, <2>3 DEF MediaReferences
<1> QED
  BY <1>2, <1>3, <1>4, <1>5, <1>6 DEF TypeOK, CallTypeOK

(* Every step keeps the tables and the calls well formed.                   *)
LEMMA NextTyped ==
  ASSUME TypeOK, [Next]_vars
  PROVE  TypeOK'
<1>1. AccountCalls \subseteq Calls /\ SocketCalls \subseteq Calls /\ RosterCalls \subseteq Calls
      /\ AllMediaCalls \subseteq Calls
  BY DEF Calls, SocketCalls, RosterCalls, AllMediaCalls
<1>2. CallTypeOK /\ CallReferences
  BY DEF TypeOK, CallTypeOK
<1>3. CASE AccountMoves /\ UNCHANGED <<socketVars, rosterVars, mediaVars>>
  <2>1. AccountEffect
    BY <1>3, AccountEffects DEF AccountMoves
  <2>2. CallTypeOK' /\ CallReferences'
    BY <2>1, <1>1, <1>2, CallsKept DEF AccountEffect
  <2>3. MediaTypeOK' /\ MediaReferences'
    BY <1>3, <2>1, <2>2, FilesUntouched DEF AccountEffect
  <2>4. SocketsTypeOK' /\ SocketReferences'
    BY <1>3, <2>1, SocketsUntouched DEF AccountEffect
  <2>5. RosterTypeOK' /\ RosterReferences'
    BY <1>3 DEF TypeOK, RosterTypeOK, RosterReferences, rosterVars
  <2> QED
    BY <2>1, <2>2, <2>3, <2>4, <2>5 DEF TypeOK, AccountEffect, CallTypeOK
<1>4. CASE SocketMoves /\ UNCHANGED <<rosterVars, mediaVars>>
  <2>1. SocketEffect
    BY <1>4, SocketEffects DEF SocketMoves
  <2>2. AccountsTypeOK' /\ AccountReferences' /\ RosterTypeOK' /\ RosterReferences' /\ RowsKept
    BY <1>4, <2>1 DEF TypeOK, SocketEffect, AccountsTypeOK, AccountReferences, RosterTypeOK,
       RosterReferences, RowsKept, rosterVars
  <2>3. CallTypeOK' /\ CallReferences'
    BY <2>1, <2>2, <1>1, <1>2, CallsKept DEF SocketEffect
  <2>4. MediaTypeOK' /\ MediaReferences'
    BY <1>4, <2>1, <2>3, FilesUntouched DEF SocketEffect
  <2> QED
    BY <2>1, <2>2, <2>3, <2>4 DEF TypeOK, SocketEffect, CallTypeOK
<1>5. CASE RosterMoves /\ UNCHANGED <<socketVars, mediaVars>>
  <2>1. RosterEffect
    BY <1>5, RosterEffects DEF RosterMoves
  <2>2. AccountsTypeOK' /\ AccountReferences'
    BY <2>1 DEF TypeOK, RosterEffect, AccountsTypeOK, AccountReferences
  <2>3. CallTypeOK' /\ CallReferences'
    BY <2>1, <1>1, <1>2, CallsKept DEF RosterEffect
  <2>4. MediaTypeOK' /\ MediaReferences'
    BY <1>5, <2>1, <2>3, FilesUntouched DEF RosterEffect
  <2>5. SocketsTypeOK' /\ SocketReferences'
    BY <1>5, <2>1, SocketsUntouched DEF RosterEffect
  <2> QED
    BY <2>1, <2>2, <2>3, <2>4, <2>5 DEF TypeOK, RosterEffect, CallTypeOK
<1>6. CASE FileMoves /\ UNCHANGED socketVars
  <2>1. MediaEffect
    BY <1>6, MediaEffects DEF FileMoves
  <2>2. AccountsTypeOK' /\ AccountReferences'
    BY <2>1 DEF TypeOK, MediaEffect, AccountsTypeOK, AccountReferences
  <2>3. CallTypeOK' /\ CallReferences'
    BY <2>1, <1>1, <1>2, CallsKept DEF MediaEffect
  <2>4. SocketsTypeOK' /\ SocketReferences'
    BY <1>6, <2>1, SocketsUntouched DEF MediaEffect
  <2> QED
    BY <2>1, <2>2, <2>3, <2>4 DEF TypeOK, MediaEffect, CallTypeOK
<1>7. CASE UNCHANGED vars
  <2>1. UNCHANGED <<accountVars, socketVars, rosterVars, mediaVars>>
    BY <1>7 DEF vars
  <2>2. AccountsTypeOK' /\ AccountReferences' /\ RosterTypeOK' /\ RosterReferences' /\ RowsKept
    BY <2>1 DEF TypeOK, accountVars, AccountsTypeOK, AccountReferences, RosterTypeOK,
       RosterReferences, RowsKept, rosterVars
  <2>3. SocketsTypeOK' /\ SocketReferences'
    BY <2>1, <2>2, SocketsUntouched
  <2>4. CallStep(AccountCalls)
    BY <2>1 DEF CallStep, accountVars
  <2>5. CallTypeOK' /\ CallReferences'
    BY <2>2, <2>4, <1>1, <1>2, CallsKept
  <2>6. MediaTypeOK' /\ MediaReferences'
    BY <2>1, <2>4, <2>5, FilesUntouched
  <2> QED
    BY <2>2, <2>3, <2>5, <2>6 DEF TypeOK, CallTypeOK
<1> QED
  BY <1>3, <1>4, <1>5, <1>6, <1>7, NextCases

(***************************************************************************)
(* The tables and the requests under way keep their shape and every        *)
(* reference points at a row (the foreign keys of the migrations), however *)
(* requests on accounts, sockets, members and files interleave.            *)
(***************************************************************************)
THEOREM ServerTyped == Spec => []TypeOK
<1>1. Init => TypeOK
  BY InitTyped
<1>2. TypeOK /\ [Next]_vars => TypeOK'
  BY NextTyped
<1> QED
  BY <1>1, <1>2, PTL DEF Spec
=============================================================================
