----------------------------- MODULE Trip_proofs -----------------------------
(***************************************************************************)
(* What holds of a trip: its invitations and its owner, its files and its  *)
(* cover. Each invariant is preserved by the roster's or the files' own    *)
(* steps, and the steps of the rest of the server leave it alone.          *)
(***************************************************************************)
EXTENDS Server_proofs, FiniteSetTheorems

(* No request comes to a step.                                              *)
NoneArrives(pc) == \A h \in Goroutines : At(h, pc)' => call'[h] = call[h]

(* One goroutine's request becomes x.                                       *)
LEMMA OneMoves ==
  ASSUME TypeOK, NEW g \in Goroutines, NEW x, call' = [call EXCEPT ![g] = x]
  PROVE  \A h \in Goroutines : call'[h] = IF h = g THEN x ELSE call[h]
  BY DEF TypeOK

(* A request that ends, or goes on to another step, does not come to pc.    *)
LEMMA ArrivesElsewhere ==
  ASSUME TypeOK, NEW g \in Goroutines, NEW x, call' = [call EXCEPT ![g] = x],
         NEW pc, x = Nil \/ x.pc # pc
  PROVE  NoneArrives(pc)
<1>1. \A h \in Goroutines : call'[h] = IF h = g THEN x ELSE call[h]
  BY OneMoves
<1> QED
  BY <1>1 DEF NoneArrives, At

(* Nor does a step of requests of another kind arrive there.                 *)
LEMMA OthersArriveElsewhere ==
  ASSUME TypeOK, NEW kinds, CallStep(kinds), NEW pc, \A x \in kinds : x.pc # pc
  PROVE  NoneArrives(pc)
<1>1. CASE UNCHANGED call
  BY <1>1 DEF NoneArrives
<1>2. CASE \E g \in Goroutines : \E x \in kinds \cup {Nil} : call' = [call EXCEPT ![g] = x]
  BY <1>2, ArrivesElsewhere
<1> QED
  BY <1>1, <1>2 DEF CallStep

(* Nor does a request that ends.                                             *)
LEMMA EndingArrives ==
  ASSUME TypeOK, NEW g \in Goroutines, Done(g), NEW pc
  PROVE  NoneArrives(pc)
<1>1. call' = [call EXCEPT ![g] = Nil]
  BY DEF Done
<1> QED
  BY <1>1, ArrivesElsewhere

-----------------------------------------------------------------------------
(* Invitations and the owner.                                               *)

(* The invitation's promises, and that one not yet written let nobody in.   *)
InvitesCounted ==
    \A i \in Invites :
        /\ invite[i] = Nil => joined[i] = <<>>
        /\ invite[i] # Nil =>
              /\ Len(joined[i]) <= invite[i].uses
              /\ invite[i].max # Nil => invite[i].uses <= invite[i].max
              /\ invite[i].email # Nil => ToSet(joined[i]) \subseteq {invite[i].email}

(* A redemption between the count of its use and its commit.                *)
Redeeming(g, i) == (At(g, "member") \/ At(g, "add")) /\ call[g].invite = i

(* Its row lock: it is alone, and the use it counted is still free; and it  *)
(* is one the invitation is for.                                            *)
RedemptionsLocked ==
    /\ \A g, h \in Goroutines, i \in Invites : Redeeming(g, i) /\ Redeeming(h, i) => g = h
    /\ \A g \in Goroutines, i \in Invites :
          Redeeming(g, i) => invite[i].max = Nil \/ invite[i].uses < invite[i].max
    /\ \A g \in Goroutines : At(g, "count") \/ At(g, "member") \/ At(g, "add")
          => invite[call[g].invite].email \in {Nil, call[g].user}

Owns(u) == member[u] # Nil /\ member[u].role = "owner"

OneOwner == trip # Nil => \E o \in People : \A u \in People : Owns(u) <=> u = o

RosterInv == InvitesCounted /\ RedemptionsLocked /\ OneOwner

NoRedemptionArrives == NoneArrives("count") /\ NoneArrives("member") /\ NoneArrives("add")

(* The inductive invariant is enough.                                        *)
LEMMA RosterInvHonours ==
  ASSUME RosterInv
  PROVE  InvitationsHonoured
<1>1. ASSUME trip # Nil
      PROVE  Cardinality({u \in People : member[u] # Nil /\ member[u].role = "owner"}) = 1
  <2>1. PICK o \in People : \A u \in People : Owns(u) <=> u = o
    BY <1>1 DEF RosterInv, OneOwner
  <2>2. {u \in People : member[u] # Nil /\ member[u].role = "owner"} = {o}
    BY <2>1 DEF Owns
  <2> QED
    BY <2>2, FS_Singleton
<1> QED
  BY <1>1 DEF RosterInv, InvitesCounted, InvitationsHonoured

(* Statements that leave what an invitation is for and what it counts.      *)
InvitesSame ==
    \A i \in Invites :
        /\ invite'[i] = Nil <=> invite[i] = Nil
        /\ invite[i] # Nil => /\ invite'[i].email = invite[i].email /\ invite'[i].max = invite[i].max
                              /\ invite'[i].uses = invite[i].uses

(* The count of an invitation stays right while invitations and joins stay.  *)
LEMMA InvitesKept ==
  ASSUME TypeOK, InvitesCounted, RedemptionsLocked, InvitesSame, UNCHANGED joined
  PROVE  InvitesCounted'
  BY DEF InvitesCounted, InvitesSame

(* Redemptions in progress keep what they have found in the invitation.      *)
LEMMA LocksKept ==
  ASSUME TypeOK, RedemptionsLocked, NoRedemptionArrives,
         \A i \in Invites : invite[i] # Nil => /\ invite'[i].email = invite[i].email
                                               /\ invite'[i].max = invite[i].max
                                               /\ invite'[i].uses = invite[i].uses
  PROVE  RedemptionsLocked'
<1>1. \A h \in Goroutines : (At(h, "count") \/ At(h, "member") \/ At(h, "add"))'
         => call'[h] = call[h] /\ call[h].invite \in Invites /\ invite[call[h].invite] # Nil
  <2>1. \A h \in Goroutines : At(h, "count") \/ At(h, "member") \/ At(h, "add")
           => call[h].invite \in Invites /\ invite[call[h].invite] # Nil
    BY RedeemCall, MembershipAssumption
  <2> QED
    BY <2>1 DEF NoRedemptionArrives, NoneArrives, At
<1>2. \A h \in Goroutines, i \in Invites : Redeeming(h, i)' => Redeeming(h, i) /\ invite[i] # Nil
  BY <1>1 DEF Redeeming, At
<1>3. \A g, h \in Goroutines, i \in Invites : Redeeming(g, i)' /\ Redeeming(h, i)' => g = h
  BY <1>2 DEF RedemptionsLocked
<1>4. \A g \in Goroutines, i \in Invites :
         Redeeming(g, i)' => invite'[i].max = Nil \/ invite'[i].uses < invite'[i].max
  BY <1>2 DEF RedemptionsLocked
<1>5. \A g \in Goroutines : (At(g, "count") \/ At(g, "member") \/ At(g, "add"))'
         => invite'[call'[g].invite].email \in {Nil, call'[g].user}
  BY <1>1 DEF RedemptionsLocked, At
<1> QED
  BY <1>3, <1>4, <1>5 DEF RedemptionsLocked

(* Both together, for a step that starts no redemption.                      *)
LEMMA InvitesUnchanged ==
  ASSUME TypeOK, InvitesCounted, RedemptionsLocked, NoRedemptionArrives, InvitesSame, UNCHANGED joined
  PROVE  InvitesCounted' /\ RedemptionsLocked'
  BY InvitesKept, LocksKept DEF InvitesSame

(* The owner stays while the roster stays.                                   *)
LEMMA OwnersKept ==
  ASSUME OneOwner, UNCHANGED member, trip' # Nil => trip # Nil
  PROVE  OneOwner'
  BY DEF OneOwner, Owns

(* The steps that redeem nothing.                                           *)
LEMMA TripDeleteInv ==
  ASSUME TypeOK, RosterInv, NEW u \in People, TripDelete(u)
  PROVE  RosterInv'
<1>1. NoRedemptionArrives /\ InvitesSame /\ UNCHANGED joined
  BY DEF TripDelete, NoRedemptionArrives, NoneArrives, InvitesSame, accountVars
<1> QED
  BY <1>1, InvitesUnchanged, OwnersKept DEF RosterInv, TripDelete

(* UpdateRole keeps the invariant of the roster.                             *)
LEMMA UpdateRoleInv ==
  ASSUME TypeOK, RosterInv, NEW actor \in People, NEW target \in People, NEW role \in AssignableRoles,
         UpdateRole(actor, target, role)
  PROVE  RosterInv'
<1>1. NoRedemptionArrives /\ InvitesSame /\ UNCHANGED joined
  BY DEF UpdateRole, NoRedemptionArrives, NoneArrives, InvitesSame, accountVars
<1> DEFINE x == [role |-> role, version |-> member[target].version + 1]
<1>2. x.role # "owner" /\ ~Owns(target) /\ member' = [member EXCEPT ![target] = x] /\ trip' = trip
  BY DEF UpdateRole, AssignableRoles, Owns
<1> HIDE DEF x
<1>3. \A u \in People : Owns(u)' <=> Owns(u)
  BY <1>2 DEF Owns, TypeOK, RosterTypeOK
<1> QED
  BY <1>1, <1>2, <1>3, InvitesUnchanged DEF RosterInv, OneOwner

(* RemoveMember keeps the invariant of the roster.                           *)
LEMMA RemoveMemberInv ==
  ASSUME TypeOK, RosterInv, NEW actor \in People, NEW target \in People, RemoveMember(actor, target)
  PROVE  RosterInv'
<1>1. NoRedemptionArrives /\ InvitesSame /\ UNCHANGED joined
  BY DEF RemoveMember, NoRedemptionArrives, NoneArrives, InvitesSame, accountVars
<1>2. ~Owns(target) /\ member' = [member EXCEPT ![target] = Nil] /\ trip' = trip
  BY DEF RemoveMember, Owns
<1>3. \A u \in People : Owns(u)' <=> Owns(u)
  BY <1>2 DEF Owns, TypeOK, RosterTypeOK
<1> QED
  BY <1>1, <1>2, <1>3, InvitesUnchanged DEF RosterInv, OneOwner

(* AskToInvite keeps the invariant of the roster.                            *)
LEMMA AskToInviteInv ==
  ASSUME TypeOK, RosterInv, NEW g \in Goroutines, NEW u \in People, NEW pc \in {"invite", "withdraw"},
         AskToInvite(g, u, pc)
  PROVE  RosterInv'
<1> DEFINE x == [op |-> "invite", pc |-> pc]
<1>1. x.pc = pc /\ call' = [call EXCEPT ![g] = x]
  BY DEF AskToInvite
<1> HIDE DEF x
<1>2. NoRedemptionArrives
  BY <1>1, ArrivesElsewhere DEF NoRedemptionArrives
<1>3. InvitesSame /\ UNCHANGED <<joined, member, trip>>
  BY DEF AskToInvite, InvitesSame, rosterVars
<1> QED
  BY <1>2, <1>3, InvitesUnchanged, OwnersKept DEF RosterInv

(* CreateInvitation keeps the invariant of the roster.                       *)
LEMMA CreateInvitationInv ==
  ASSUME TypeOK, RosterInv, NEW g \in Goroutines, NEW i \in Invites, NEW email \in People \cup {Nil},
         NEW role \in AssignableRoles, NEW max \in {Nil, 1}, CreateInvitation(g, i, email, role, max)
  PROVE  RosterInv'
<1> DEFINE x == InsertInvitation(email, role, max)
<1>1. x.uses = 0 /\ x.max = max /\ x \in InviteRows
  BY DEF InsertInvitation, InviteRows
<1>2. /\ invite[i] = Nil /\ invite' = [invite EXCEPT ![i] = x]
      /\ UNCHANGED <<trip, member, joined>>
  BY FreeId DEF CreateInvitation
<1> HIDE DEF x
<1>3. NoRedemptionArrives
  BY EndingArrives DEF NoRedemptionArrives, CreateInvitation
<1>4. \A j \in Invites : invite'[j] = IF j = i THEN x ELSE invite[j]
  BY <1>2 DEF TypeOK, RosterTypeOK
<1>5. RedemptionsLocked'
  BY <1>2, <1>3, <1>4, LocksKept DEF RosterInv
<1>6. Len(joined[i]) = 0 /\ ToSet(joined[i]) = {}
  BY <1>2 DEF RosterInv, InvitesCounted, ToSet
<1>7. InvitesCounted'
  <2>1. SUFFICES ASSUME NEW j \in Invites
                 PROVE  /\ invite'[j] = Nil => joined[j] = <<>>
                        /\ invite'[j] # Nil =>
                              /\ Len(joined[j]) <= invite'[j].uses
                              /\ invite'[j].max # Nil => invite'[j].uses <= invite'[j].max
                              /\ invite'[j].email # Nil => ToSet(joined[j]) \subseteq {invite'[j].email}
    BY <1>2 DEF InvitesCounted
  <2>2. CASE j = i
    BY <2>2, <1>1, <1>4, <1>6, MembershipAssumption
  <2>3. CASE j # i
    BY <2>3, <1>4 DEF RosterInv, InvitesCounted
  <2> QED
    BY <2>2, <2>3
<1> QED
  BY <1>2, <1>5, <1>7, OwnersKept DEF RosterInv

(* RevokeInvitation keeps the invariant of the roster.                       *)
LEMMA RevokeInvitationInv ==
  ASSUME TypeOK, RosterInv, NEW g \in Goroutines, NEW i \in Invites, RevokeInvitation(g, i)
  PROVE  RosterInv'
<1>1. NoRedemptionArrives
  BY EndingArrives DEF NoRedemptionArrives, RevokeInvitation
<1> DEFINE x == [invite[i] EXCEPT !.revoked = TRUE]
<1>2. /\ invite[i] \in InviteRows /\ invite' = [invite EXCEPT ![i] = x]
      /\ UNCHANGED <<trip, member, joined>>
  BY DEF RevokeInvitation, TypeOK, RosterTypeOK
<1>3. x \in InviteRows /\ x.email = invite[i].email /\ x.max = invite[i].max /\ x.uses = invite[i].uses
  BY <1>2 DEF InviteRows
<1> HIDE DEF x
<1>4. InvitesSame
  BY <1>2, <1>3, MembershipAssumption DEF InvitesSame, TypeOK, RosterTypeOK
<1> QED
  BY <1>1, <1>2, <1>4, InvitesUnchanged, OwnersKept DEF RosterInv

(* ExpireInvite keeps the invariant of the roster.                           *)
LEMMA ExpireInviteInv ==
  ASSUME TypeOK, RosterInv, NEW i \in Invites, ExpireInvite(i)
  PROVE  RosterInv'
<1>1. NoRedemptionArrives
  BY DEF NoRedemptionArrives, NoneArrives, ExpireInvite, accountVars
<1> DEFINE x == [invite[i] EXCEPT !.expired = TRUE]
<1>2. /\ invite[i] \in InviteRows /\ invite' = [invite EXCEPT ![i] = x]
      /\ UNCHANGED <<trip, member, joined>>
  BY DEF ExpireInvite, TypeOK, RosterTypeOK
<1>3. x \in InviteRows /\ x.email = invite[i].email /\ x.max = invite[i].max /\ x.uses = invite[i].uses
  BY <1>2 DEF InviteRows
<1> HIDE DEF x
<1>4. InvitesSame
  BY <1>2, <1>3, MembershipAssumption DEF InvitesSame, TypeOK, RosterTypeOK
<1> QED
  BY <1>1, <1>2, <1>4, InvitesUnchanged, OwnersKept DEF RosterInv

(* RevokeNothing keeps the invariant of the roster.                          *)
LEMMA RevokeNothingInv ==
  ASSUME TypeOK, RosterInv, NEW g \in Goroutines, RevokeNothing(g)
  PROVE  RosterInv'
<1>1. NoRedemptionArrives
  BY EndingArrives DEF NoRedemptionArrives, RevokeNothing
<1>2. InvitesSame /\ UNCHANGED <<joined, member, trip>>
  BY DEF RevokeNothing, InvitesSame, rosterVars
<1> QED
  BY <1>1, <1>2, InvitesUnchanged, OwnersKept DEF RosterInv

(* The invitation is for the one who redeems it.                            *)
LEMMA RedeemInvitationInv ==
  ASSUME TypeOK, RosterInv, NEW g \in Goroutines, NEW u \in People, NEW i \in Invites,
         RedeemInvitation(g, u, i)
  PROVE  RosterInv'
<1> DEFINE x == [op |-> "redeem", pc |-> "count", user |-> u, invite |-> i]
<1>1. x.pc = "count" /\ x.user = u /\ x.invite = i /\ call' = [call EXCEPT ![g] = x]
  BY DEF RedeemInvitation
<1> HIDE DEF x
<1>2. UNCHANGED <<joined, member, trip, invite>> /\ invite[i].email \in {Nil, u}
  BY DEF RedeemInvitation, rosterVars
<1>3. \A h \in Goroutines : call'[h] = IF h = g THEN x ELSE call[h]
  BY <1>1, OneMoves
<1>4. \A h \in Goroutines, j \in Invites : Redeeming(h, j)' => Redeeming(h, j)
  BY <1>1, <1>3 DEF Redeeming, At
<1>5. \A h \in Goroutines : (At(h, "count") \/ At(h, "member") \/ At(h, "add"))'
         => invite'[call'[h].invite].email \in {Nil, call'[h].user}
  BY <1>1, <1>2, <1>3 DEF RosterInv, RedemptionsLocked, At
<1>6. RedemptionsLocked'
  BY <1>2, <1>4, <1>5 DEF RosterInv, RedemptionsLocked
<1>7. InvitesCounted'
  BY <1>2 DEF RosterInv, InvitesCounted
<1> QED
  BY <1>2, <1>6, <1>7, OwnersKept DEF RosterInv

(* A redemption goes on.                                                    *)
LEMMA RedemptionGoesOn ==
  ASSUME TypeOK, NEW g \in Goroutines, At(g, "count") \/ At(g, "member"), NEW pc, Goto(g, pc)
  PROVE  \A h \in Goroutines :
            /\ h # g => call'[h] = call[h]
            /\ h = g => call'[h].pc = pc /\ call'[h].invite = call[h].invite /\ call'[h].user = call[h].user
<1> DEFINE x == [call[g] EXCEPT !.pc = pc]
<1>1. call[g] \in RedeemCalls /\ call' = [call EXCEPT ![g] = x]
  BY RedeemCall DEF Goto
<1>2. x.pc = pc /\ x.invite = call[g].invite /\ x.user = call[g].user
  BY <1>1 DEF RedeemCalls
<1> HIDE DEF x
<1>3. \A h \in Goroutines : call'[h] = IF h = g THEN x ELSE call[h]
  BY <1>1, OneMoves
<1> QED
  BY <1>2, <1>3

(* The row was not locked, and a use was left.                              *)
LEMMA IncrementUseCountInv ==
  ASSUME TypeOK, RosterInv, NEW g \in Goroutines, IncrementUseCount(g)
  PROVE  RosterInv'
<1> DEFINE i == call[g].invite
<1>1. UNCHANGED <<joined, member, trip, invite>> /\ At(g, "count") /\ ~RowLocked(i, g)
  BY DEF IncrementUseCount, rosterVars
<1>2. CASE Done(g)
  <2>1. NoRedemptionArrives
    BY <1>2, EndingArrives DEF NoRedemptionArrives
  <2> QED
    BY <1>1, <2>1, InvitesUnchanged, OwnersKept DEF RosterInv, InvitesSame
<1>3. CASE Goto(g, "member") /\ IsRedeemable(i)
  <2>1. \A h \in Goroutines :
            /\ h # g => call'[h] = call[h]
            /\ h = g => call'[h].pc = "member" /\ call'[h].invite = i /\ call'[h].user = call[g].user
    BY <1>1, <1>3, RedemptionGoesOn
  <2>2. \A h \in Goroutines \ {g} : ~Redeeming(h, i)
    BY <1>1 DEF RowLocked, Redeeming, At
  <2>3. \A h \in Goroutines, j \in Invites : Redeeming(h, j)' => Redeeming(h, j) \/ (h = g /\ j = i)
    BY <2>1 DEF Redeeming, At
  <2>4. \A k, h \in Goroutines, j \in Invites : Redeeming(k, j)' /\ Redeeming(h, j)' => k = h
    <3>1. ~\E j \in Invites : Redeeming(g, j)
      BY <1>1 DEF Redeeming, At
    <3> QED
      BY <2>2, <2>3, <3>1 DEF RosterInv, RedemptionsLocked
  <2>5. \A h \in Goroutines, j \in Invites :
           Redeeming(h, j)' => invite'[j].max = Nil \/ invite'[j].uses < invite'[j].max
    BY <1>1, <1>3, <2>3 DEF RosterInv, RedemptionsLocked, IsRedeemable
  <2>6. \A h \in Goroutines : (At(h, "count") \/ At(h, "member") \/ At(h, "add"))'
           => invite'[call'[h].invite].email \in {Nil, call'[h].user}
    BY <1>1, <2>1 DEF RosterInv, RedemptionsLocked, At
  <2>7. InvitesCounted'
    BY <1>1 DEF RosterInv, InvitesCounted
  <2> QED
    BY <1>1, <2>4, <2>5, <2>6, <2>7, OwnersKept DEF RosterInv, RedemptionsLocked
<1> QED
  BY <1>2, <1>3 DEF IncrementUseCount

(* Committing the count: the lock kept the use free.                        *)
LEMMA UseCommitted ==
  ASSUME TypeOK, RosterInv, NEW g \in Goroutines, At(g, "member") \/ At(g, "add"),
         invite' = CountUse(call[g].invite), Done(g)
  PROVE  /\ RedemptionsLocked'
         /\ \A j \in Invites \ {call[g].invite} : invite'[j] = invite[j]
         /\ LET i == call[g].invite
            IN /\ invite[i] # Nil /\ invite'[i] # Nil /\ invite[i] \in InviteRows
               /\ invite'[i].email = invite[i].email /\ invite'[i].max = invite[i].max
               /\ invite'[i].uses = invite[i].uses + 1
               /\ invite[i].max = Nil \/ invite[i].uses < invite[i].max
<1> DEFINE i == call[g].invite
           x == [invite[i] EXCEPT !.uses = @ + 1]
<1>1. i \in Invites /\ invite[i] \in InviteRows /\ Redeeming(g, i)
  BY RedeemCall DEF Redeeming
<1>2. /\ x.email = invite[i].email /\ x.max = invite[i].max /\ x.uses = invite[i].uses + 1
      /\ x \in InviteRows
  BY <1>1 DEF InviteRows
<1>3. invite' = [invite EXCEPT ![i] = x]
  BY DEF CountUse
<1> HIDE DEF x
<1>4. \A j \in Invites : invite'[j] = IF j = i THEN x ELSE invite[j]
  BY <1>3 DEF TypeOK, RosterTypeOK
<1>5. \A h \in Goroutines : call'[h] = IF h = g THEN Nil ELSE call[h]
  BY DEF Done, TypeOK
<1>6. \A h \in Goroutines, j \in Invites : Redeeming(h, j)' => Redeeming(h, j) /\ h # g /\ j # i
  BY <1>1, <1>5 DEF Redeeming, At, RosterInv, RedemptionsLocked
<1>7. \A h \in Goroutines, j \in Invites :
         Redeeming(h, j)' => invite'[j].max = Nil \/ invite'[j].uses < invite'[j].max
  BY <1>4, <1>6 DEF RosterInv, RedemptionsLocked
<1>8. \A h \in Goroutines : (At(h, "count") \/ At(h, "member") \/ At(h, "add"))'
         => invite'[call'[h].invite].email \in {Nil, call'[h].user}
  <2>1. \A h \in Goroutines : At(h, "count") \/ At(h, "member") \/ At(h, "add") => call[h].invite \in Invites
    BY RedeemCall
  <2> QED
    BY <1>2, <1>4, <1>5, <2>1 DEF RosterInv, RedemptionsLocked, At
<1>9. RedemptionsLocked'
  BY <1>6, <1>7, <1>8 DEF RosterInv, RedemptionsLocked
<1>10. invite[i].max = Nil \/ invite[i].uses < invite[i].max
  BY <1>1 DEF RosterInv, RedemptionsLocked
<1> QED
  BY <1>1, <1>2, <1>4, <1>9, <1>10, MembershipAssumption

(* GetMembership keeps the invariant of the roster.                          *)
LEMMA GetMembershipInv ==
  ASSUME TypeOK, RosterInv, NEW g \in Goroutines, GetMembership(g)
  PROVE  RosterInv'
<1> DEFINE i == call[g].invite
<1>1. UNCHANGED <<joined, member, trip>> /\ At(g, "member")
  BY DEF GetMembership
<1>2. CASE Goto(g, "add") /\ UNCHANGED invite
  <2>1. \A h \in Goroutines :
            /\ h # g => call'[h] = call[h]
            /\ h = g => call'[h].pc = "add" /\ call'[h].invite = i /\ call'[h].user = call[g].user
    BY <1>1, <1>2, RedemptionGoesOn
  <2>2. \A h \in Goroutines, j \in Invites : Redeeming(h, j)' => Redeeming(h, j)
    BY <1>1, <2>1 DEF Redeeming, At
  <2>3. \A h \in Goroutines : (At(h, "count") \/ At(h, "member") \/ At(h, "add"))'
           => invite'[call'[h].invite].email \in {Nil, call'[h].user}
    BY <1>1, <1>2, <2>1 DEF RosterInv, RedemptionsLocked, At
  <2>4. InvitesCounted'
    BY <1>1, <1>2 DEF RosterInv, InvitesCounted
  <2> QED
    BY <1>1, <1>2, <2>2, <2>3, <2>4, OwnersKept DEF RosterInv, RedemptionsLocked
<1>3. CASE Done(g) /\ UNCHANGED invite
  <2>1. NoRedemptionArrives
    BY <1>3, EndingArrives DEF NoRedemptionArrives
  <2> QED
    BY <1>1, <1>3, <2>1, InvitesUnchanged, OwnersKept DEF RosterInv, InvitesSame
<1>4. CASE Done(g) /\ invite' = CountUse(i)
  <2>1. /\ RedemptionsLocked' /\ \A j \in Invites \ {i} : invite'[j] = invite[j]
        /\ invite[i] # Nil /\ invite'[i] # Nil /\ invite[i] \in InviteRows
        /\ invite'[i].email = invite[i].email /\ invite'[i].max = invite[i].max
        /\ invite'[i].uses = invite[i].uses + 1
        /\ invite[i].max = Nil \/ invite[i].uses < invite[i].max
    BY <1>1, <1>4, UseCommitted
  <2>2. /\ invite[i].uses \in Nat /\ invite[i].max \in Nat \cup {Nil} /\ i \in Invites
        /\ Len(joined[i]) \in Nat
    BY <1>1, <2>1, RedeemCall DEF InviteRows, TypeOK, RosterTypeOK
  <2>3. InvitesCounted'
    <3>1. SUFFICES ASSUME NEW j \in Invites
                   PROVE  /\ invite'[j] = Nil => joined[j] = <<>>
                          /\ invite'[j] # Nil =>
                                /\ Len(joined[j]) <= invite'[j].uses
                                /\ invite'[j].max # Nil => invite'[j].uses <= invite'[j].max
                                /\ invite'[j].email # Nil => ToSet(joined[j]) \subseteq {invite'[j].email}
      BY <1>1 DEF InvitesCounted
    <3>2. CASE j = i
      <4>1. Len(joined[i]) <= invite[i].uses
        BY <2>1, <2>2 DEF RosterInv, InvitesCounted
      <4>2. invite[i].email # Nil => ToSet(joined[i]) \subseteq {invite[i].email}
        BY <2>1, <2>2 DEF RosterInv, InvitesCounted
      <4>3. Len(joined[i]) <= invite'[i].uses
        BY <4>1, <2>1, <2>2
      <4>4. invite'[i].max # Nil => invite'[i].uses <= invite'[i].max
        BY <2>1, <2>2
      <4> QED
        BY <3>2, <2>1, <4>2, <4>3, <4>4
    <3>3. CASE j # i
      BY <3>3, <2>1 DEF RosterInv, InvitesCounted
    <3> QED
      BY <3>2, <3>3
  <2> QED
    BY <1>1, <2>1, <2>3, OwnersKept DEF RosterInv
<1> QED
  BY <1>2, <1>3, <1>4 DEF GetMembership

(* One more who joined, and the one the invitation is for.                  *)
LEMMA Joins ==
  ASSUME NEW s \in Seq(People), NEW u \in People
  PROVE  /\ Len(Append(s, u)) = Len(s) + 1
         /\ \A e : e = u /\ ToSet(s) \subseteq {e} => ToSet(Append(s, u)) \subseteq {e}
<1>1. \A k \in DOMAIN Append(s, u) : Append(s, u)[k] = u \/ (k \in DOMAIN s /\ Append(s, u)[k] = s[k])
  OBVIOUS
<1> QED
  BY <1>1 DEF ToSet

(* AddMember keeps the invariant of the roster.                              *)
LEMMA AddMemberInv ==
  ASSUME TypeOK, RosterInv, NEW g \in Goroutines, AddMember(g)
  PROVE  RosterInv'
<1> DEFINE i == call[g].invite
           u == call[g].user
<1>1. /\ At(g, "add") /\ Done(g) /\ trip' = trip
      /\ i \in Invites /\ u \in People /\ invite[i] \in InviteRows
  BY RedeemCall DEF AddMember
<1>2. CASE UNCHANGED <<member, invite, joined>>
  <2>1. NoRedemptionArrives
    BY <1>1, EndingArrives DEF NoRedemptionArrives
  <2> QED
    BY <1>1, <1>2, <2>1, InvitesUnchanged, OwnersKept DEF RosterInv, InvitesSame
<1>3. CASE member[u] = Nil /\ ~trip.deleted
  <2>1. /\ member' = [member EXCEPT ![u] = InsertMember(invite[i].role)]
        /\ invite' = CountUse(i)
        /\ joined' = [joined EXCEPT ![i] = Append(joined[i], u)]
    BY <1>3 DEF AddMember
  <2>2. /\ RedemptionsLocked' /\ \A j \in Invites \ {i} : invite'[j] = invite[j]
        /\ invite[i] # Nil /\ invite'[i] # Nil
        /\ invite'[i].email = invite[i].email /\ invite'[i].max = invite[i].max
        /\ invite'[i].uses = invite[i].uses + 1
        /\ invite[i].max = Nil \/ invite[i].uses < invite[i].max
    BY <1>1, <2>1, UseCommitted
  <2>3. /\ invite[i].uses \in Nat /\ invite[i].max \in Nat \cup {Nil} /\ Len(joined[i]) \in Nat
        /\ joined[i] \in Seq(People) /\ invite[i].role \in AssignableRoles
    BY <1>1 DEF InviteRows, TypeOK, RosterTypeOK
  <2>4. \A j \in Invites : joined'[j] = IF j = i THEN Append(joined[i], u) ELSE joined[j]
    BY <2>1 DEF TypeOK, RosterTypeOK
  <2>5. invite[i].email \in {Nil, u}
    BY <1>1 DEF RosterInv, RedemptionsLocked
  <2>6. /\ Len(joined'[i]) <= invite'[i].uses
        /\ invite'[i].max # Nil => invite'[i].uses <= invite'[i].max
        /\ invite'[i].email # Nil => ToSet(joined'[i]) \subseteq {invite'[i].email}
    <3>1. /\ Len(joined[i]) <= invite[i].uses
          /\ invite[i].email # Nil => ToSet(joined[i]) \subseteq {invite[i].email}
      BY <1>1, <2>2 DEF RosterInv, InvitesCounted
    <3>2. joined'[i] = Append(joined[i], u)
      BY <1>1, <2>4
    <3>3. Len(joined'[i]) <= invite'[i].uses
      BY <3>1, <3>2, <1>1, <2>2, <2>3, Joins
    <3>4. invite'[i].max # Nil => invite'[i].uses <= invite'[i].max
      BY <2>2, <2>3
    <3>5. invite[i].email # Nil => ToSet(Append(joined[i], u)) \subseteq {invite[i].email}
      BY <3>1, <1>1, <2>3, <2>5, Joins
    <3> QED
      BY <3>2, <3>3, <3>4, <3>5, <2>2
  <2>7. InvitesCounted'
    <3>1. SUFFICES ASSUME NEW j \in Invites
                   PROVE  /\ invite'[j] = Nil => joined'[j] = <<>>
                          /\ invite'[j] # Nil =>
                                /\ Len(joined'[j]) <= invite'[j].uses
                                /\ invite'[j].max # Nil => invite'[j].uses <= invite'[j].max
                                /\ invite'[j].email # Nil => ToSet(joined'[j]) \subseteq {invite'[j].email}
      BY DEF InvitesCounted
    <3>2. CASE j = i
      BY <3>2, <2>2, <2>6
    <3>3. CASE j # i
      <4>1. joined'[j] = joined[j] /\ invite'[j] = invite[j]
        BY <3>3, <2>2, <2>4
      <4> QED
        BY <4>1 DEF RosterInv, InvitesCounted
    <3> QED
      BY <3>2, <3>3
  <2>8. OneOwner'
    <3> DEFINE x == InsertMember(invite[i].role)
    <3>1. x.role # "owner" /\ ~Owns(u)
      BY <1>3, <2>3 DEF InsertMember, AssignableRoles, Owns
    <3>2. member' = [member EXCEPT ![u] = x]
      BY <2>1
    <3> HIDE DEF x
    <3>3. \A v \in People : Owns(v)' <=> Owns(v)
      BY <3>1, <3>2, <1>1 DEF Owns, TypeOK, RosterTypeOK
    <3> QED
      BY <1>1, <3>3 DEF RosterInv, OneOwner
  <2> QED
    BY <2>2, <2>7, <2>8 DEF RosterInv
<1> QED
  BY <1>2, <1>3 DEF AddMember

(* Creating the trip makes the one who did its owner.                       *)
LEMMA TripCreateInv ==
  ASSUME TypeOK, RosterInv, NEW g \in Goroutines, NEW u \in People, TripCreate(g, u),
         NoRedemptionArrives
  PROVE  RosterInv'
<1>1. UNCHANGED <<invite, joined>> /\ trip = Nil
  BY DEF TripCreate
<1> DEFINE x == InsertMember("owner")
<1>2. x.role = "owner" /\ x \in MemberRows /\ member' = [member EXCEPT ![u] = x]
  BY DEF TripCreate, InsertMember, MemberRows
<1> HIDE DEF x
<1>3. \A v \in People : member[v] = Nil
  BY <1>1 DEF TypeOK, RosterReferences
<1>4. \A v \in People : member'[v] = IF v = u THEN x ELSE Nil
  BY <1>2, <1>3 DEF TypeOK, RosterTypeOK
<1>5. \A v \in People : Owns(v)' <=> v = u
  BY <1>2, <1>4, MembershipAssumption DEF Owns
<1>6. OneOwner'
  BY <1>5 DEF OneOwner
<1> QED
  BY <1>1, <1>6, InvitesUnchanged DEF RosterInv, InvitesSame

(* The other steps on files leave the roster alone.                         *)
LEMMA FilesKeepRoster ==
  ASSUME TypeOK, MediaRequest \/ MediaTime \/ \E g \in Goroutines : MediaStep(g)
  PROVE  UNCHANGED <<invite, joined, member>> /\ (trip' # Nil => trip # Nil)
<1>1. CASE MediaRequest
  BY <1>1 DEF MediaRequest, Enter, TripUpdate, TripLocked, ListStalePending, rosterVars
<1>2. CASE MediaTime
  BY <1>2 DEF MediaTime, GrowOld, PutObject, rosterVars
<1>3. CASE \E g \in Goroutines : MediaStep(g)
  <2>1. PICK g \in Goroutines : MediaStep(g)
    BY <1>3
  <2>2. CASE ConfirmCover(g)
    BY <2>2 DEF ConfirmCover, TripLocked
  <2>3. CASE ApplyCover(g)
    BY <2>3 DEF ApplyCover, TripLocked
  <2>4. CASE \E a \in Attachments : CreateLink(g, a) \/ RequestUpload(g, a)
    BY <2>4 DEF CreateLink, RequestUpload, rosterVars
  <2>5. CASE StatUpload(g) \/ ConfirmUpload(g) \/ RejectUpload(g) \/ DeleteAttachment(g)
    BY <2>5 DEF StatUpload, ConfirmUpload, RejectUpload, DeleteAttachment, rosterVars
  <2>6. CASE SweepObject(g) \/ SweepRow(g)
    BY <2>6 DEF SweepObject, SweepRow, rosterVars
  <2>7. CASE \E c \in Covers : RequestCoverUpload(g, c)
    BY <2>7 DEF RequestCoverUpload, rosterVars
  <2>8. CASE StatCover(g) \/ RejectCover(g) \/ Discard(g) \/ AutoAssign(g)
    BY <2>8 DEF StatCover, RejectCover, Discard, AutoAssign, rosterVars
  <2> QED
    BY <2>1, <2>2, <2>3, <2>4, <2>5, <2>6, <2>7, <2>8 DEF MediaStep
<1> QED
  BY <1>1, <1>2, <1>3

(* No step at all breaks the invariant of the roster.                        *)
LEMMA NextRoster ==
  ASSUME TypeOK, RosterInv, [Next]_vars
  PROVE  RosterInv'
<1>1. ASSUME NEW kinds, CallStep(kinds), kinds \subseteq SocketCalls \/ kinds \subseteq AllMediaCalls
      PROVE  NoRedemptionArrives
  <2>1. \A x \in kinds : x.pc \notin {"count", "member", "add"}
    BY <1>1, CallSteps DEF SocketCalls, AccountCalls, AllMediaCalls
  <2> QED
    BY <1>1, <2>1, OthersArriveElsewhere DEF NoRedemptionArrives
<1>2. ASSUME UNCHANGED <<invite, joined, member>>, trip' # Nil => trip # Nil, NoRedemptionArrives
      PROVE  RosterInv'
  BY <1>2, InvitesUnchanged, OwnersKept DEF RosterInv, InvitesSame
<1>3. CASE AccountMoves /\ UNCHANGED <<socketVars, rosterVars, mediaVars>>
  BY <1>1, <1>2, <1>3, AccountEffects DEF AccountMoves, AccountEffect, SocketCalls, rosterVars
<1>4. CASE SocketMoves /\ UNCHANGED <<rosterVars, mediaVars>>
  BY <1>1, <1>2, <1>4, SocketEffects DEF SocketMoves, SocketEffect, rosterVars
<1>5. CASE RosterMoves
  BY <1>5, TripDeleteInv, UpdateRoleInv, RemoveMemberInv, AskToInviteInv, RedeemInvitationInv,
     ExpireInviteInv, CreateInvitationInv, RevokeInvitationInv, RevokeNothingInv,
     IncrementUseCountInv, GetMembershipInv, AddMemberInv DEF RosterMoves, RosterRequest, RosterStep
<1>6. CASE FileMoves
  <2>1. MediaEffect
    BY <1>6, MediaEffects DEF FileMoves
  <2>2. NoRedemptionArrives
    BY <1>1, <2>1 DEF MediaEffect
  <2> QED
    BY <1>2, <1>6, <2>2, TripCreateInv, FilesKeepRoster DEF FileMoves
<1>7. CASE UNCHANGED vars
  <2>1. UNCHANGED <<invite, joined, member, trip, call>>
    BY <1>7 DEF vars, rosterVars, accountVars
  <2> QED
    BY <1>2, <2>1 DEF NoRedemptionArrives, NoneArrives
<1> QED
  BY <1>3, <1>4, <1>5, <1>6, <1>7, NextCases

(* Initially there are no invitations and no roster.                         *)
LEMMA InitRoster ==
  ASSUME Init
  PROVE  RosterInv
<1>1. call = [g \in Goroutines |-> Nil] /\ joined = [i \in Invites |-> <<>>]
  BY DEF Init, AccountsInit, RosterInit
<1>2. RedemptionsLocked
  BY <1>1 DEF RedemptionsLocked, Redeeming, At
<1>3. \A i \in Invites : joined[i] = <<>> /\ Len(joined[i]) = 0 /\ ToSet(joined[i]) = {}
  BY <1>1 DEF ToSet
<1>4. CASE trip = Nil
  <2>3. InsertTrip \in TripRows
    BY DEF InsertTrip, TripRows
  <2>1. InsertTrip # Nil
    BY <2>3, MembershipAssumption
  <2>2. invite = [i \in Invites |-> Nil]
    BY <1>4, <2>1 DEF Init, RosterInit
  <2> QED
    BY <1>2, <1>3, <1>4, <2>2 DEF RosterInv, InvitesCounted, OneOwner
<1>5. CASE trip # Nil
  <2>1. /\ trip = InsertTrip \/ trip = Nil
        /\ trip # Nil =>
           \E owner \in Free([u \in People \ Users |-> Nil]), i \in Free([j \in Invites |-> Nil]) :
             /\ member = [u \in People |-> IF u = owner THEN InsertMember("owner") ELSE Nil]
             /\ invite = [j \in Invites |-> IF j = i THEN InsertInvitation(Nil, "editor", Nil) ELSE Nil]
    BY DEF Init, RosterInit
  <2>2. PICK owner \in Free([u \in People \ Users |-> Nil]), i \in Free([j \in Invites |-> Nil]) :
             /\ member = [u \in People |-> IF u = owner THEN InsertMember("owner") ELSE Nil]
             /\ invite = [j \in Invites |-> IF j = i THEN InsertInvitation(Nil, "editor", Nil) ELSE Nil]
    BY <1>5, <2>1
  <2>3. owner \in People
    BY FreeId
  <2> DEFINE x == InsertInvitation(Nil, "editor", Nil)
             y == InsertMember("owner")
  <2>4. /\ x.uses = 0 /\ x.max = Nil /\ x.email = Nil /\ y.role = "owner"
        /\ x \in InviteRows /\ y \in MemberRows
    BY DEF InsertInvitation, InsertMember, InviteRows, MemberRows, AssignableRoles
  <2>5. /\ \A u \in People : member[u] = IF u = owner THEN y ELSE Nil
        /\ \A j \in Invites : invite[j] = IF j = i THEN x ELSE Nil
    BY <2>2
  <2> HIDE DEF x, y
  <2>6. \A u \in People : Owns(u) <=> u = owner
    BY <2>4, <2>5, MembershipAssumption DEF Owns
  <2>7. InvitesCounted
    BY <1>3, <2>4, <2>5, MembershipAssumption DEF InvitesCounted
  <2> QED
    BY <1>2, <2>3, <2>6, <2>7 DEF RosterInv, OneOwner
<1> QED
  BY <1>4, <1>5

(***************************************************************************)
(* However many redemptions race for an invitation, it admits no more      *)
(* people than its uses and nobody it is not addressed to, because the row *)
(* that IncrementUseCount checked stays locked until the redemption        *)
(* commits (repository/invitation.go); and a trip has exactly one owner    *)
(* throughout (service/membership.go).                                     *)
(***************************************************************************)
THEOREM InvitationsAreHonoured == Spec => []InvitationsHonoured
<1>1. Init => RosterInv
  BY InitRoster
<1>2. TypeOK /\ RosterInv /\ [Next]_vars => RosterInv'
  BY NextRoster
<1>3. RosterInv => InvitationsHonoured
  BY RosterInvHonours
<1> QED
  BY <1>1, <1>2, <1>3, ServerTyped, PTL DEF Spec

-----------------------------------------------------------------------------
(* Files, covers and their objects.                                         *)

(* What a request on an attachment knows of it: there was an object to      *)
(* confirm, unless the sweep took it or the row was decided meanwhile; only *)
(* a refused file is discarded; the row to delete is one the sweep took.    *)
FileFacts(x) ==
    /\ x.pc = "confirm" => \/ object[x.subject] # Nil \/ attachment[x.subject].swept
                           \/ attachment[x.subject].status # "pending"
    /\ x.pc = "discard" /\ x.subject \in Attachments => attachment[x.subject].status = "failed"
    /\ x.pc = "tombstone" => attachment[x.subject].swept

Shown(c) == cover.source = "uploaded" /\ cover.key = c

(* What a request on a cover upload knows of it: the object it looked at is *)
(* there, unless the browser has put another; and what is discarded is not  *)
(* the cover.                                                               *)
CoverFacts(x) ==
    /\ x.pc = "confirm_cover" => \/ upload[x.subject].status # "pending" \/ upload[x.subject].again
                                 \/ object[x.subject] = "good"
    /\ x.pc = "reject_cover" => \/ upload[x.subject].status = "failed" \/ upload[x.subject].again
                                \/ upload[x.subject].status = "pending" /\ object[x.subject] = "bad"
    /\ x.pc = "discard" /\ x.subject \in Covers =>
          \/ upload[x.subject].status = "failed" \/ upload[x.subject].again
          \/ upload[x.subject].status = "ready" /\ ~Shown(x.subject)

RequestsKnow == \A g \in Goroutines : call[g] # Nil => FileFacts(call[g]) /\ CoverFacts(call[g])

CoverReady == cover.source = "uploaded" => upload[cover.key].status = "ready"

FilesInv == RequestsKnow /\ CoverReady /\ ObjectsKept

(* How rows and objects of attachments change in a step.                    *)
FileRowsMove ==
    \A a \in Attachments :
        /\ attachment[a] = Nil /\ attachment'[a] # Nil
              => attachment'[a].kind = "link" \/ attachment'[a].status # "ready"
        /\ attachment[a] # Nil =>
              /\ attachment'[a] # Nil
              /\ attachment'[a].kind = attachment[a].kind
              /\ attachment[a].swept => attachment'[a].swept
              /\ attachment[a].deleted => attachment'[a].deleted
              /\ attachment[a].status # "pending" => attachment'[a].status = attachment[a].status
              /\ attachment[a].status = "pending" /\ attachment'[a].status = "ready"
                    => object[a] # Nil \/ attachment[a].swept
              /\ object[a] # Nil =>
                    object'[a] # Nil \/ attachment'[a].swept \/ attachment[a].status = "failed"

(* How rows and objects of cover uploads change in a step.                  *)
CoverRowsMove ==
    /\ \A c \in Covers : upload[c] # Nil =>
          /\ upload'[c] # Nil
          /\ upload[c].again => upload'[c].again
          /\ upload[c].status # "pending" => upload'[c].status = upload[c].status
          /\ upload[c].status = "pending" /\ upload'[c].status = "ready"
                => upload[c].again \/ object[c] = "good"
          /\ object[c] # Nil => \/ object'[c] = object[c] \/ upload'[c].again
                                \/ upload[c].status # "pending" /\ ~Shown(c)
    /\ cover'.source = "uploaded" =>
          \/ Shown(cover'.key)
          \/ /\ cover'.key \in Covers /\ upload[cover'.key] # Nil
             /\ upload[cover'.key].status = "pending" /\ upload'[cover'.key].status = "ready"

(* A request stays, ends, or comes to a step at which it knows enough.      *)
ArrivesKnowing ==
    \A h \in Goroutines : \A x : x = call'[h] => x = call[h] \/ x = Nil \/ (FileFacts(x)' /\ CoverFacts(x)')

(* Steps at which nothing needs to be known.                                *)
QuietSteps ==
    {"link", "reserve", "reserve_cover", "search", "apply", "stat", "remove", "reject", "stat_cover",
     "sweep"}

(* What a request knows about an attachment stays true while rows only move  *)
(* forward.                                                                  *)
LEMMA FileFactsKept ==
  ASSUME TypeOK, TypeOK', FileRowsMove, NEW x \in Calls, FoundFiles(x), FileFacts(x)
  PROVE  FileFacts(x)'
<1>1. x.pc \in {"confirm", "tombstone"} => x.subject \in Attachments /\ attachment[x.subject] # Nil
  <2>1. x.pc \in {"confirm", "tombstone"} => x \in FileCalls \cup TombstoneCalls /\ x \in AllMediaCalls
    BY CallSteps DEF Calls, AccountCalls, AllMediaCalls
  <2> QED
    BY <2>1, MediaFields DEF FoundFiles
<1>2. x.pc = "discard" /\ x.subject \in Attachments => attachment[x.subject] # Nil
  <2>1. x.pc = "discard" => x \in AllMediaCalls
    BY CallSteps DEF Calls, AccountCalls, AllMediaCalls
  <2> QED
    BY <2>1, MediaFields DEF FoundFiles
<1>3. x.pc = "confirm" => FileFacts(x)'
  <2> DEFINE a == x.subject
  <2>1. SUFFICES ASSUME x.pc = "confirm", a \in Attachments, attachment[a] # Nil,
                        object[a] # Nil \/ attachment[a].swept \/ attachment[a].status # "pending"
                 PROVE  object'[a] # Nil \/ attachment'[a].swept \/ attachment'[a].status # "pending"
    BY <1>1 DEF FileFacts
  <2> QED
    BY <2>1 DEF FileRowsMove
<1>4. x.pc = "discard" => FileFacts(x)'
  BY <1>2 DEF FileFacts, FileRowsMove
<1>5. x.pc = "tombstone" => FileFacts(x)'
  BY <1>1 DEF FileFacts, FileRowsMove
<1> QED
  BY <1>3, <1>4, <1>5 DEF FileFacts

(* What a request knows about an uploaded cover stays true likewise.         *)
LEMMA CoverFactsKept ==
  ASSUME TypeOK, TypeOK', CoverRowsMove, NEW x \in Calls, FoundFiles(x), CoverFacts(x)
  PROVE  CoverFacts(x)'
<1> DEFINE c == x.subject
<1>1. x.pc \in {"confirm_cover", "reject_cover"} => c \in Covers /\ upload[c] # Nil
  <2>1. x.pc \in {"confirm_cover", "reject_cover"} => x \in CoverCalls /\ x \in AllMediaCalls
    BY CallSteps DEF Calls, AccountCalls, AllMediaCalls
  <2> QED
    BY <2>1, MediaFields DEF FoundFiles
<1>2. x.pc = "discard" /\ c \in Covers => upload[c] # Nil
  <2>1. x.pc = "discard" => x \in AllMediaCalls
    BY CallSteps DEF Calls, AccountCalls, AllMediaCalls
  <2> QED
    BY <2>1, MediaFields DEF FoundFiles
<1>3. ASSUME c \in Covers, upload[c] # Nil
      PROVE  upload'[c].status \in {"pending", "ready", "failed"}
  <2>1. upload'[c] \in UploadRows
    BY <1>3 DEF CoverRowsMove, TypeOK, MediaTypeOK
  <2> QED
    BY <2>1 DEF UploadRows
<1>4. ASSUME c \in Covers, upload[c] # Nil,
             upload[c].status # "pending" \/ upload[c].again \/ object[c] = "good"
      PROVE  upload'[c].status # "pending" \/ upload'[c].again \/ object'[c] = "good"
  BY <1>4, MediaAssumption DEF CoverRowsMove
<1>5. ASSUME c \in Covers, upload[c] # Nil,
             \/ upload[c].status = "failed" \/ upload[c].again
             \/ upload[c].status = "pending" /\ object[c] = "bad"
      PROVE  \/ upload'[c].status = "failed" \/ upload'[c].again
             \/ upload'[c].status = "pending" /\ object'[c] = "bad"
  BY <1>3, <1>5, MediaAssumption DEF CoverRowsMove
<1>6. ASSUME c \in Covers, upload[c] # Nil,
             \/ upload[c].status = "failed" \/ upload[c].again
             \/ upload[c].status = "ready" /\ ~Shown(c)
      PROVE  \/ upload'[c].status = "failed" \/ upload'[c].again
             \/ upload'[c].status = "ready" /\ ~Shown(c)'
  <2>1. upload[c].status = "ready" /\ ~Shown(c) => ~Shown(c)'
    BY <1>6 DEF CoverRowsMove, Shown
  <2> QED
    BY <1>6, <2>1 DEF CoverRowsMove
<1>7. x.pc = "confirm_cover" => CoverFacts(x)'
  BY <1>1, <1>4 DEF CoverFacts
<1>8. x.pc = "reject_cover" => CoverFacts(x)'
  BY <1>1, <1>5 DEF CoverFacts
<1>9. x.pc = "discard" => CoverFacts(x)'
  BY <1>2, <1>6 DEF CoverFacts
<1> QED
  BY <1>7, <1>8, <1>9 DEF CoverFacts

(* A request at a quiet step knows all it needs to.                         *)
LEMMA QuietKnows ==
  ASSUME NEW x, x.pc \in QuietSteps
  PROVE  FileFacts(x) /\ CoverFacts(x) /\ FileFacts(x)' /\ CoverFacts(x)'
  BY DEF QuietSteps, FileFacts, CoverFacts

(* What the invariant needs of a step.                                      *)
LEMMA FilesInvKept ==
  ASSUME TypeOK, TypeOK', FilesInv, FileRowsMove, CoverRowsMove, ArrivesKnowing
  PROVE  FilesInv'
<1>1. RequestsKnow'
  <2>1. \A h \in Goroutines : call[h] # Nil => call[h] \in Calls /\ FoundFiles(call[h])
    BY DEF TypeOK, MediaReferences
  <2>2. \A x \in Calls : FoundFiles(x) /\ FileFacts(x) /\ CoverFacts(x) => FileFacts(x)' /\ CoverFacts(x)'
    BY FileFactsKept, CoverFactsKept
  <2>3. \A h \in Goroutines : \A x : x = call[h] /\ x # Nil => FileFacts(x)' /\ CoverFacts(x)'
    BY <2>1, <2>2 DEF FilesInv, RequestsKnow
  <2>4. \A h \in Goroutines : \A x : x = call'[h] /\ x # Nil => FileFacts(x)' /\ CoverFacts(x)'
    BY <2>3 DEF ArrivesKnowing
  <2>5. \A h \in Goroutines : call'[h] # Nil => FileFacts(call[h])' /\ CoverFacts(call[h])'
    BY <2>4 DEF FileFacts, CoverFacts, Shown
  <2> QED
    BY <2>5 DEF RequestsKnow
<1>2. CoverReady'
  <2>1. SUFFICES ASSUME cover'.source = "uploaded" PROVE upload'[cover'.key].status = "ready"
    BY DEF CoverReady
  <2>2. CASE Shown(cover'.key)
    BY <2>1, <2>2 DEF FilesInv, CoverReady, CoverRowsMove, Shown, TypeOK, MediaReferences
  <2> QED
    BY <2>1, <2>2 DEF CoverRowsMove
<1>3. \A a \in Attachments :
         (Live(a) /\ attachment[a].kind = "file" /\ attachment[a].status = "ready")'
             => object'[a] # Nil \/ attachment'[a].swept
  <2>1. SUFFICES ASSUME NEW a \in Attachments, attachment'[a] # Nil, ~attachment'[a].deleted,
                        attachment'[a].kind = "file", attachment'[a].status = "ready"
                 PROVE  object'[a] # Nil \/ attachment'[a].swept
    BY DEF Live
  <2>2. attachment[a] # Nil
    BY <2>1 DEF FileRowsMove
  <2>3. /\ attachment[a].swept => attachment'[a].swept
        /\ attachment[a].kind = "file" /\ ~attachment[a].deleted
        /\ attachment[a].status = "pending" => object[a] # Nil \/ attachment[a].swept
        /\ attachment[a].status # "pending" => attachment[a].status = "ready"
        /\ object[a] # Nil => object'[a] # Nil \/ attachment'[a].swept \/ attachment[a].status = "failed"
    BY <2>1, <2>2 DEF FileRowsMove
  <2>4. attachment[a].status = "ready" => object[a] # Nil \/ attachment[a].swept
    BY <2>2, <2>3 DEF FilesInv, ObjectsKept, Live
  <2> QED
    BY <2>3, <2>4
<1>4. cover'.source = "uploaded" => object'[cover'.key] # Nil \/ upload'[cover'.key].again
  <2> DEFINE c == cover'.key
  <2>1. SUFFICES ASSUME cover'.source = "uploaded" PROVE object'[c] # Nil \/ upload'[c].again
    OBVIOUS
  <2>2. /\ c \in Covers /\ upload[c] # Nil
        /\ object[c] # Nil \/ upload[c].again
        /\ Shown(c) \/ upload[c].status = "pending"
    BY <2>1, MediaAssumption
       DEF CoverRowsMove, FilesInv, ObjectsKept, Shown, TypeOK, MediaReferences
  <2> HIDE DEF c
  <2> QED
    BY <2>2 DEF CoverRowsMove
<1> QED
  BY <1>1, <1>2, <1>3, <1>4 DEF FilesInv, ObjectsKept

-----------------------------------------------------------------------------
(* Requests on files move, one at a time.                                   *)
FilesMove == FileRowsMove /\ CoverRowsMove /\ ArrivesKnowing

CallBecomes(g, pc, subject) ==
    \E x : call' = [call EXCEPT ![g] = x] /\ x.pc = pc /\ x.subject = subject

(* A file request that goes on keeps its subject.                            *)
LEMMA GoesOnTo ==
  ASSUME TypeOK, NEW g \in Goroutines, call[g] \in AllMediaCalls, NEW pc, Goto(g, pc)
  PROVE  CallBecomes(g, pc, call[g].subject)
<1> DEFINE x == [call[g] EXCEPT !.pc = pc]
<1>1. call' = [call EXCEPT ![g] = x]
  BY DEF Goto, TypeOK
<1>2. {"pc", "subject"} \subseteq DOMAIN call[g]
  BY DEF AllMediaCalls, MediaCalls, FileCalls, CoverCalls, DiscardCalls, SweepCalls, TombstoneCalls
<1>3. x.pc = pc /\ x.subject = call[g].subject
  BY <1>2
<1> HIDE DEF x
<1> QED
  BY <1>1, <1>3 DEF CallBecomes

(* A request arrives at a step knowing what that step relies on.             *)
LEMMA KnowingArrives ==
  ASSUME TypeOK, NEW g \in Goroutines, NEW pc, NEW s, CallBecomes(g, pc, s),
         \A x : x.pc = pc /\ x.subject = s => FileFacts(x)' /\ CoverFacts(x)'
  PROVE  ArrivesKnowing
<1>1. PICK x : call' = [call EXCEPT ![g] = x] /\ x.pc = pc /\ x.subject = s
  BY DEF CallBecomes
<1>2. \A h \in Goroutines : call'[h] = IF h = g THEN x ELSE call[h]
  BY <1>1, OneMoves
<1> QED
  BY <1>1, <1>2 DEF ArrivesKnowing

(* A step that relies on nothing.                                            *)
LEMMA QuietArrives ==
  ASSUME TypeOK, NEW g \in Goroutines, NEW pc \in QuietSteps, NEW s, CallBecomes(g, pc, s)
  PROVE  ArrivesKnowing
  BY KnowingArrives, QuietKnows

(* A request that ends relies on nothing.                                    *)
LEMMA EndArrives ==
  ASSUME TypeOK, NEW g \in Goroutines, Done(g)
  PROVE  ArrivesKnowing
<1>1. \A h \in Goroutines : call'[h] = IF h = g THEN Nil ELSE call[h]
  BY OneMoves DEF Done
<1> QED
  BY <1>1 DEF ArrivesKnowing

(* Attachments that are not written move forward trivially.                  *)
LEMMA FilesStay ==
  ASSUME UNCHANGED attachment, \A a \in Attachments : object'[a] = object[a]
  PROVE  FileRowsMove
  BY DEF FileRowsMove

(* So do uploaded covers.                                                    *)
LEMMA CoversStay ==
  ASSUME UNCHANGED <<upload, cover>>, \A c \in Covers : object'[c] = object[c]
  PROVE  CoverRowsMove
  BY DEF CoverRowsMove, Shown

(* So does everything about files.                                           *)
LEMMA MediaStays ==
  ASSUME UNCHANGED mediaVars
  PROVE  FileRowsMove /\ CoverRowsMove
  BY FilesStay, CoversStay DEF mediaVars

(* A row is written while its object stays.                                 *)
LEMMA FileWritten ==
  ASSUME TypeOK, NEW a \in Attachments, attachment[a] # Nil, NEW row \in AttachmentRows,
         attachment' = [attachment EXCEPT ![a] = row], UNCHANGED object,
         row.kind = attachment[a].kind, attachment[a].swept => row.swept, attachment[a].deleted => row.deleted,
         attachment[a].status # "pending" => row.status = attachment[a].status,
         row.status = "ready" /\ attachment[a].status = "pending" => object[a] # Nil \/ attachment[a].swept
  PROVE  FileRowsMove
<1>1. \A b \in Attachments : attachment'[b] = IF b = a THEN row ELSE attachment[b]
  BY AttachmentWritten
<1>2. row # Nil
  BY MediaAssumption
<1> QED
  BY <1>1, <1>2 DEF FileRowsMove

(* Enter moves the rows of files only forward, and its request arrives       *)
(* knowing what it needs.                                                    *)
LEMMA EnterMoves ==
  ASSUME TypeOK, NEW g \in Goroutines, NEW u, NEW cap, NEW s,
         NEW pc \in {"link", "reserve", "reserve_cover", "stat", "remove", "stat_cover"},
         Enter(g, u, cap, pc, s)
  PROVE  FilesMove
<1> DEFINE x == [op |-> "media", pc |-> pc, subject |-> s]
<1>1. x.pc = pc /\ x.subject = s /\ call' = [call EXCEPT ![g] = x] /\ pc \in QuietSteps
  BY DEF Enter, QuietSteps
<1> HIDE DEF x
<1>2. CallBecomes(g, pc, s)
  BY <1>1 DEF CallBecomes
<1> QED
  BY <1>1, <1>2, QuietArrives, MediaStays DEF FilesMove, Enter

(* ChooseCover moves the rows of files only forward, and its request arrives *)
(* knowing what it needs.                                                    *)
LEMMA ChooseCoverMoves ==
  ASSUME TypeOK, NEW g \in Goroutines, ChooseCover(g), UNCHANGED mediaVars
  PROVE  FilesMove
<1>1. PICK pc \in {"search", "apply"} :
          call' = [call EXCEPT ![g] = [op |-> "media", pc |-> pc, subject |-> Nil]]
  BY DEF ChooseCover
<1> DEFINE x == [op |-> "media", pc |-> pc, subject |-> Nil]
<1>2. x.pc = pc /\ x.subject = Nil /\ call' = [call EXCEPT ![g] = x] /\ pc \in QuietSteps
  BY <1>1 DEF QuietSteps
<1> HIDE DEF x
<1>3. CallBecomes(g, pc, Nil)
  BY <1>2 DEF CallBecomes
<1> QED
  BY <1>2, <1>3, QuietArrives, MediaStays DEF FilesMove

(* Trip moves the rows of files only forward, and its request arrives        *)
(* knowing what it needs.                                                    *)
LEMMA TripMoves ==
  ASSUME TypeOK, NEW g \in Goroutines, NEW u \in People, TripCreate(g, u) \/ TripUpdate(g, u)
  PROVE  FilesMove
<1>1. CASE ChooseCover(g)
  BY <1>1, ChooseCoverMoves DEF TripCreate, TripUpdate
<1>2. CASE UNCHANGED call
  BY <1>2, MediaStays DEF TripCreate, TripUpdate, FilesMove, ArrivesKnowing
<1> QED
  BY <1>1, <1>2 DEF TripCreate, TripUpdate

(* ListStalePending moves the rows of files only forward, and its request    *)
(* arrives knowing what it needs.                                            *)
LEMMA ListStalePendingMoves ==
  ASSUME TypeOK, NEW g \in Goroutines, ListStalePending(g)
  PROVE  FilesMove
<1> DEFINE x == [op |-> "media", pc |-> "sweep", subject |-> Nil, todo |-> Stale]
<1>1. x.pc = "sweep" /\ x.subject = Nil /\ call' = [call EXCEPT ![g] = x] /\ "sweep" \in QuietSteps
  BY DEF ListStalePending, QuietSteps
<1> HIDE DEF x
<1>2. CallBecomes(g, "sweep", Nil)
  BY <1>1 DEF CallBecomes
<1> QED
  BY <1>1, <1>2, QuietArrives, MediaStays DEF FilesMove, ListStalePending

(* NewFile moves the rows of files only forward, and its request arrives     *)
(* knowing what it needs.                                                    *)
LEMMA NewFileMoves ==
  ASSUME TypeOK, NEW g \in Goroutines, NEW a \in Attachments, CreateLink(g, a) \/ RequestUpload(g, a)
  PROVE  FilesMove
<1>1. ArrivesKnowing
  BY EndArrives DEF CreateLink, RequestUpload
<1>2. CoverRowsMove
  BY CoversStay DEF CreateLink, RequestUpload
<1>3. attachment[a] = Nil /\ UNCHANGED object
  BY FreeId DEF CreateLink, RequestUpload
<1>4. ASSUME NEW row \in AttachmentRows, attachment' = [attachment EXCEPT ![a] = row],
             row.kind = "link" \/ row.status # "ready"
      PROVE  FileRowsMove
  <2>1. \A b \in Attachments : attachment'[b] = IF b = a THEN row ELSE attachment[b]
    BY <1>4, AttachmentWritten
  <2> QED
    BY <1>3, <1>4, <2>1 DEF FileRowsMove
<1> DEFINE link == InsertAttachment("link", "ready")
           file == InsertAttachment("file", "pending")
<1>5. /\ link \in AttachmentRows /\ link.kind = "link"
      /\ file \in AttachmentRows /\ file.status = "pending"
  BY DEF InsertAttachment, AttachmentRows
<1>6. \/ attachment' = attachment \/ attachment' = [attachment EXCEPT ![a] = link]
      \/ attachment' = [attachment EXCEPT ![a] = file]
  BY DEF CreateLink, RequestUpload
<1> HIDE DEF link, file
<1>7. FileRowsMove
  BY <1>3, <1>4, <1>5, <1>6, FilesStay
<1> QED
  BY <1>1, <1>2, <1>7 DEF FilesMove

(* What Stat found is still there when it goes on.                          *)
LEMMA StatUploadMoves ==
  ASSUME TypeOK, NEW g \in Goroutines, StatUpload(g)
  PROVE  FilesMove
<1> DEFINE a == call[g].subject
<1>1. call[g] \in AllMediaCalls
  BY FileCall DEF StatUpload
<1>2. FileRowsMove /\ CoverRowsMove /\ UNCHANGED object
  BY MediaStays DEF StatUpload, mediaVars
<1>3. CASE Done(g)
  BY <1>2, <1>3, EndArrives DEF FilesMove
<1>4. CASE Goto(g, "reject")
  <2>1. CallBecomes(g, "reject", a) /\ "reject" \in QuietSteps
    BY <1>1, <1>4, GoesOnTo DEF QuietSteps
  <2> QED
    BY <1>2, <2>1, QuietArrives DEF FilesMove
<1>5. CASE Goto(g, "confirm") /\ object[a] # Nil
  <2>1. CallBecomes(g, "confirm", a)
    BY <1>1, <1>5, GoesOnTo
  <2> HIDE DEF a
  <2>2. \A x : x.pc = "confirm" /\ x.subject = a => FileFacts(x)' /\ CoverFacts(x)'
    BY <1>2, <1>5 DEF FileFacts, CoverFacts
  <2> QED
    BY <1>2, <2>1, <2>2, KnowingArrives DEF FilesMove
<1> QED
  BY <1>3, <1>4, <1>5 DEF StatUpload

(* ConfirmUpload moves the rows of files only forward, and its request       *)
(* arrives knowing what it needs.                                            *)
LEMMA ConfirmUploadMoves ==
  ASSUME TypeOK, FilesInv, NEW g \in Goroutines, ConfirmUpload(g)
  PROVE  FilesMove
<1> DEFINE a == call[g].subject
           row == [attachment[a] EXCEPT !.status = "ready"]
<1>1. call[g] # Nil /\ a \in Attachments /\ attachment[a] # Nil /\ call[g].pc = "confirm"
  BY FileCall DEF ConfirmUpload, At
<1>2. ArrivesKnowing /\ CoverRowsMove
  BY EndArrives, CoversStay DEF ConfirmUpload
<1>3. object[a] # Nil \/ attachment[a].swept \/ attachment[a].status # "pending"
  BY <1>1 DEF FilesInv, RequestsKnow, FileFacts
<1>4. CASE UNCHANGED attachment
  BY <1>2, <1>4, FilesStay DEF FilesMove, ConfirmUpload
<1>5. CASE attachment' = SetStatus(a, "ready") /\ attachment[a].status = "pending"
  <2>1. /\ attachment[a] \in AttachmentRows /\ row \in AttachmentRows
        /\ attachment' = [attachment EXCEPT ![a] = row] /\ UNCHANGED object
    BY <1>1, <1>5, AttachmentWrites DEF ConfirmUpload
  <2>2. /\ row.kind = attachment[a].kind /\ row.swept = attachment[a].swept
        /\ row.deleted = attachment[a].deleted
    BY <2>1 DEF AttachmentRows
  <2> HIDE DEF row, a
  <2>3. FileRowsMove
    BY <1>1, <1>3, <1>5, <2>1, <2>2, FileWritten
  <2> QED
    BY <1>2, <2>3 DEF FilesMove
<1> QED
  BY <1>4, <1>5 DEF ConfirmUpload

(* RejectUpload moves the rows of files only forward, and its request        *)
(* arrives knowing what it needs.                                            *)
LEMMA RejectUploadMoves ==
  ASSUME TypeOK, NEW g \in Goroutines, RejectUpload(g)
  PROVE  FilesMove
<1> DEFINE a == call[g].subject
           row == [attachment[a] EXCEPT !.status = "failed"]
<1>1. call[g] \in AllMediaCalls /\ a \in Attachments /\ attachment[a] # Nil
  BY FileCall DEF RejectUpload
<1>2. CoverRowsMove
  BY CoversStay DEF RejectUpload
<1>3. CASE UNCHANGED attachment /\ Done(g)
  BY <1>2, <1>3, FilesStay, EndArrives DEF FilesMove, RejectUpload
<1>4. CASE attachment' = SetStatus(a, "failed") /\ attachment[a].status = "pending" /\ Goto(g, "discard")
  <2>1. /\ attachment[a] \in AttachmentRows /\ row \in AttachmentRows
        /\ attachment' = [attachment EXCEPT ![a] = row] /\ UNCHANGED object
    BY <1>1, <1>4, AttachmentWrites DEF RejectUpload
  <2>2. /\ row.kind = attachment[a].kind /\ row.swept = attachment[a].swept
        /\ row.deleted = attachment[a].deleted /\ row.status = "failed"
    BY <2>1 DEF AttachmentRows
  <2>3. CallBecomes(g, "discard", a)
    BY <1>1, <1>4, GoesOnTo
  <2> HIDE DEF row, a
  <2>4. FileRowsMove
    BY <1>1, <1>4, <2>1, <2>2, FileWritten
  <2>5. attachment'[a] = row
    BY <1>1, <2>1, AttachmentWritten
  <2>6. \A x : x.pc = "discard" /\ x.subject = a => FileFacts(x)' /\ CoverFacts(x)'
    BY <1>1, <2>2, <2>5, MediaAssumption DEF FileFacts, CoverFacts
  <2> QED
    BY <1>2, <2>3, <2>4, <2>6, KnowingArrives DEF FilesMove
<1> QED
  BY <1>3, <1>4 DEF RejectUpload

(* A tombstone, of a member or of the sweep.                                *)
LEMMA DeletionMoves ==
  ASSUME TypeOK, NEW a \in Attachments, attachment[a] # Nil, UNCHANGED object,
         attachment' = attachment \/ attachment' = SoftDelete(a)
  PROVE  FileRowsMove
<1> DEFINE row == [attachment[a] EXCEPT !.deleted = TRUE]
<1>1. CASE attachment' = attachment
  BY <1>1, FilesStay
<1>2. CASE attachment' = SoftDelete(a)
  <2>1. /\ attachment[a] \in AttachmentRows /\ row \in AttachmentRows
        /\ attachment' = [attachment EXCEPT ![a] = row]
    BY <1>2, AttachmentWrites
  <2>2. /\ row.kind = attachment[a].kind /\ row.swept = attachment[a].swept
        /\ row.deleted /\ row.status = attachment[a].status
    BY <2>1 DEF AttachmentRows
  <2> HIDE DEF row
  <2> QED
    BY <2>1, <2>2, FileWritten
<1> QED
  BY <1>1, <1>2

(* DeleteAttachment moves the rows of files only forward, and its request    *)
(* arrives knowing what it needs.                                            *)
LEMMA DeleteAttachmentMoves ==
  ASSUME TypeOK, NEW g \in Goroutines, DeleteAttachment(g)
  PROVE  FilesMove
<1> DEFINE a == call[g].subject
<1>1. a \in Attachments /\ attachment[a] # Nil
  BY FileCall DEF DeleteAttachment
<1>2. ArrivesKnowing /\ CoverRowsMove
  BY EndArrives, CoversStay DEF DeleteAttachment
<1>3. UNCHANGED object /\ (attachment' = attachment \/ attachment' = SoftDelete(a))
  BY DEF DeleteAttachment
<1> HIDE DEF a
<1> QED
  BY <1>1, <1>2, <1>3, DeletionMoves DEF FilesMove

(* SweepRow moves the rows of files only forward, and its request arrives    *)
(* knowing what it needs.                                                    *)
LEMMA SweepRowMoves ==
  ASSUME TypeOK, NEW g \in Goroutines, SweepRow(g)
  PROVE  FilesMove
<1> DEFINE a == call[g].subject
<1>1. a \in Attachments /\ attachment[a] # Nil /\ call[g] \in AllMediaCalls
  BY SweepCall DEF SweepRow
<1>2. CoverRowsMove
  BY CoversStay DEF SweepRow
<1>3. UNCHANGED object /\ (attachment' = attachment \/ attachment' = SoftDelete(a))
  BY DEF SweepRow
<1>4. ArrivesKnowing
  <2>1. CASE Done(g)
    BY <2>1, EndArrives
  <2>2. CASE Goto(g, "sweep")
    <3>1. CallBecomes(g, "sweep", a) /\ "sweep" \in QuietSteps
      BY <1>1, <2>2, GoesOnTo DEF QuietSteps
    <3> QED
      BY <3>1, QuietArrives
  <2> QED
    BY <2>1, <2>2 DEF SweepRow
<1> HIDE DEF a
<1> QED
  BY <1>1, <1>2, <1>3, <1>4, DeletionMoves DEF FilesMove

(* The object goes only together with the mark that the sweep took it.      *)
LEMMA SweepObjectMoves ==
  ASSUME TypeOK, NEW g \in Goroutines, SweepObject(g)
  PROVE  FilesMove
<1>1. /\ call[g] \in SweepCalls /\ call[g].todo \in SUBSET Attachments
      /\ \A a \in call[g].todo : attachment[a] # Nil
      /\ "todo" \in DOMAIN call[g] /\ call[g].pc = "sweep"
  <2>1. call[g] \in SweepCalls
    BY CallAt DEF SweepObject, TypeOK, CallTypeOK
  <2> QED
    BY <2>1, SweepCall DEF SweepObject, SweepCalls
<1>2. CASE Done(g) /\ UNCHANGED <<object, attachment>>
  <2>1. ArrivesKnowing
    BY <1>2, EndArrives
  <2> QED
    BY <1>2, <2>1, FilesStay, CoversStay DEF SweepObject, FilesMove
<1>3. ASSUME NEW a \in call[g].todo,
             object' = [object EXCEPT ![a] = Nil],
             attachment' = [attachment EXCEPT ![a].swept = TRUE],
             call' = [call EXCEPT ![g].pc = "tombstone", ![g].subject = a, ![g].todo = @ \ {a}]
      PROVE  FilesMove
  <2> DEFINE row == [attachment[a] EXCEPT !.swept = TRUE]
  <2>1. a \in Attachments /\ attachment[a] # Nil /\ a \notin Covers
    BY <1>1, MediaAssumption
  <2>2. /\ row \in AttachmentRows /\ attachment[a] \in AttachmentRows
        /\ attachment' = [attachment EXCEPT ![a] = row]
    BY <2>1, <1>3, AttachmentWrites
  <2>3. /\ row.kind = attachment[a].kind /\ row.swept
        /\ row.deleted = attachment[a].deleted /\ row.status = attachment[a].status
    BY <2>2 DEF AttachmentRows
  <2> HIDE DEF row
  <2>4. \A b \in Attachments : attachment'[b] = IF b = a THEN row ELSE attachment[b]
    BY <2>1, <2>2, AttachmentWritten
  <2>5. \A k \in Attachments \cup Covers : object'[k] = IF k = a THEN Nil ELSE object[k]
    BY <1>3 DEF TypeOK, MediaTypeOK
  <2>6. FileRowsMove
    BY <2>1, <2>2, <2>3, <2>4, <2>5, MediaAssumption DEF FileRowsMove
  <2>7. CoverRowsMove
    BY <2>1, <2>5, CoversStay DEF SweepObject
  <2>8. CallBecomes(g, "tombstone", a)
    <3> DEFINE y == call[g]
               z == [[[y EXCEPT !.pc = "tombstone"] EXCEPT !.subject = a] EXCEPT !.todo = @ \ {a}]
    <3>1. call' = [call EXCEPT ![g] = z]
      BY <1>3 DEF TypeOK
    <3>2. y \in SweepCalls
      BY <1>1
    <3> HIDE DEF y
    <3>3. z.pc = "tombstone" /\ z.subject = a
      BY <3>2 DEF SweepCalls
    <3> HIDE DEF z
    <3> QED
      BY <3>1, <3>3 DEF CallBecomes
  <2>9. \A x : x.pc = "tombstone" /\ x.subject = a => FileFacts(x)' /\ CoverFacts(x)'
    BY <2>1, <2>3, <2>4 DEF FileFacts, CoverFacts
  <2> QED
    BY <2>6, <2>7, <2>8, <2>9, KnowingArrives DEF FilesMove
<1>4. ASSUME NEW a \in call[g].todo, call' = [call EXCEPT ![g].todo = @ \ {a}],
             UNCHANGED <<object, attachment>>
      PROVE  FilesMove
  <2> DEFINE x == [call[g] EXCEPT !.todo = @ \ {a}]
  <2>1. call' = [call EXCEPT ![g] = x]
    BY <1>4 DEF TypeOK
  <2>2. x.pc = "sweep" /\ x.subject = call[g].subject
    BY <1>1 DEF SweepCalls
  <2> HIDE DEF x
  <2>3. CallBecomes(g, "sweep", call[g].subject) /\ "sweep" \in QuietSteps
    BY <2>1, <2>2 DEF CallBecomes, QuietSteps
  <2> QED
    BY <1>4, <2>3, QuietArrives, FilesStay, CoversStay DEF SweepObject, FilesMove
<1> QED
  BY <1>2, <1>3, <1>4 DEF SweepObject

(* The row of a cover upload is written while its object stays.             *)
LEMMA CoverWritten ==
  ASSUME TypeOK, NEW c \in Covers, upload[c] # Nil, NEW row \in UploadRows,
         upload' = [upload EXCEPT ![c] = row], UNCHANGED object,
         upload[c].again => row.again,
         upload[c].status # "pending" => row.status = upload[c].status,
         upload[c].status = "pending" /\ row.status = "ready" => upload[c].again \/ object[c] = "good",
         cover' = cover \/ (cover'.source = "uploaded" /\ cover'.key = c /\ upload[c].status = "pending"
                                /\ row.status = "ready")
  PROVE  CoverRowsMove
<1>1. /\ \A d \in Covers : upload'[d] = IF d = c THEN row ELSE upload[d]
      /\ \A d \in Covers : upload[d] # Nil => upload'[d] # Nil
  BY UploadWritten
<1>2. \A d \in Covers : upload[d] # Nil =>
          /\ upload'[d] # Nil
          /\ upload[d].again => upload'[d].again
          /\ upload[d].status # "pending" => upload'[d].status = upload[d].status
          /\ upload[d].status = "pending" /\ upload'[d].status = "ready"
                => upload[d].again \/ object[d] = "good"
          /\ object'[d] = object[d]
  BY <1>1
<1>3. cover'.source = "uploaded" =>
          \/ Shown(cover'.key)
          \/ /\ cover'.key \in Covers /\ upload[cover'.key] # Nil
             /\ upload[cover'.key].status = "pending" /\ upload'[cover'.key].status = "ready"
  BY <1>1 DEF Shown
<1> QED
  BY <1>2, <1>3 DEF CoverRowsMove

(* RequestCoverUpload moves the rows of files only forward, and its request  *)
(* arrives knowing what it needs.                                            *)
LEMMA RequestCoverUploadMoves ==
  ASSUME TypeOK, NEW g \in Goroutines, NEW c \in Covers, RequestCoverUpload(g, c)
  PROVE  FilesMove
<1>1. ArrivesKnowing /\ FileRowsMove
  BY EndArrives, FilesStay DEF RequestCoverUpload
<1> DEFINE row == [status |-> "pending", again |-> FALSE]
<1>2. row \in UploadRows /\ upload' = [upload EXCEPT ![c] = row] /\ upload[c] = Nil
  BY FreeId DEF RequestCoverUpload, UploadRows
<1> HIDE DEF row
<1>3. \A d \in Covers : upload'[d] = IF d = c THEN row ELSE upload[d]
  BY <1>2, UploadWritten
<1>4. UNCHANGED <<cover, object>>
  BY DEF RequestCoverUpload
<1>5. CoverRowsMove
  BY <1>2, <1>3, <1>4 DEF CoverRowsMove, Shown
<1> QED
  BY <1>1, <1>5 DEF FilesMove

(* A cover upload is confirmed when its object was good, refused otherwise. *)
LEMMA StatCoverMoves ==
  ASSUME TypeOK, NEW g \in Goroutines, StatCover(g)
  PROVE  FilesMove
<1> DEFINE c == call[g].subject
<1>1. call[g] \in AllMediaCalls /\ c \in Covers /\ upload[c] \in UploadRows
  BY CoverCall DEF StatCover
<1>2. FileRowsMove /\ CoverRowsMove /\ UNCHANGED <<object, upload, cover, attachment>>
  BY MediaStays DEF StatCover, mediaVars
<1>3. CASE Done(g)
  BY <1>2, <1>3, EndArrives DEF FilesMove
<1>4. CASE Goto(g, "confirm_cover") /\ object[c] = "good"
  <2>1. CallBecomes(g, "confirm_cover", c)
    BY <1>1, <1>4, GoesOnTo
  <2> HIDE DEF c
  <2>2. \A x : x.pc = "confirm_cover" /\ x.subject = c => FileFacts(x)' /\ CoverFacts(x)'
    BY <1>2, <1>4 DEF FileFacts, CoverFacts
  <2> QED
    BY <1>2, <2>1, <2>2, KnowingArrives DEF FilesMove
<1>5. CASE Goto(g, "reject_cover") /\ object[c] = "bad" /\ upload[c].status # "ready"
  <2>1. CallBecomes(g, "reject_cover", c)
    BY <1>1, <1>5, GoesOnTo
  <2>2. upload[c].status \in {"pending", "failed"}
    BY <1>1, <1>5 DEF UploadRows
  <2> HIDE DEF c
  <2>3. \A x : x.pc = "reject_cover" /\ x.subject = c => FileFacts(x)' /\ CoverFacts(x)'
    BY <1>2, <1>5, <2>2 DEF FileFacts, CoverFacts
  <2> QED
    BY <1>2, <2>1, <2>3, KnowingArrives DEF FilesMove
<1>6. object[c] \in {"good", "bad", Nil}
  BY <1>1 DEF TypeOK, MediaTypeOK
<1> QED
  BY <1>3, <1>4, <1>5, <1>6 DEF StatCover

(* A refused cover upload that was pending becomes failed; one that another *)
(* request confirmed has had a second object put.                           *)
LEMMA RejectCoverMoves ==
  ASSUME TypeOK, FilesInv, NEW g \in Goroutines, RejectCover(g)
  PROVE  FilesMove
<1> DEFINE c == call[g].subject
           row == [upload[c] EXCEPT !.status = "failed"]
<1>1. /\ call[g] \in AllMediaCalls /\ c \in Covers /\ upload[c] # Nil /\ upload[c] \in UploadRows
      /\ call[g] # Nil /\ call[g].pc = "reject_cover"
  BY CoverCall DEF RejectCover, At
<1>2. UNCHANGED <<attachment, object, cover>> /\ FileRowsMove
  BY FilesStay DEF RejectCover
<1>3. \/ upload[c].status = "failed" \/ upload[c].again
      \/ upload[c].status = "pending" /\ object[c] = "bad"
  BY <1>1 DEF FilesInv, RequestsKnow, CoverFacts
<1>4. CallBecomes(g, "discard", c)
  BY <1>1, GoesOnTo DEF RejectCover
<1>5. row \in UploadRows /\ row.status = "failed" /\ row.again = upload[c].again
  BY <1>1 DEF UploadRows
<1>6. CASE upload[c].status = "pending"
  <2>1. upload' = [upload EXCEPT ![c] = row]
    BY <1>6 DEF RejectCover
  <2> HIDE DEF row, c
  <2>2. CoverRowsMove
    BY <1>1, <1>2, <1>5, <1>6, <2>1, CoverWritten
  <2>3. upload'[c] = row
    BY <1>1, <1>5, <2>1, UploadWritten
  <2>4. \A x : x.pc = "discard" /\ x.subject = c => FileFacts(x)' /\ CoverFacts(x)'
    BY <1>1, <1>5, <2>3, MediaAssumption DEF FileFacts, CoverFacts
  <2> QED
    BY <1>2, <1>4, <2>2, <2>4, KnowingArrives DEF FilesMove
<1>7. CASE upload[c].status # "pending"
  <2>1. upload' = upload
    BY <1>7 DEF RejectCover
  <2> HIDE DEF row, c
  <2>2. CoverRowsMove
    BY <1>2, <2>1, CoversStay
  <2>3. \A x : x.pc = "discard" /\ x.subject = c => FileFacts(x)' /\ CoverFacts(x)'
    BY <1>1, <1>3, <1>7, <2>1, MediaAssumption DEF FileFacts, CoverFacts
  <2> QED
    BY <1>2, <1>4, <2>2, <2>3, KnowingArrives DEF FilesMove
<1> QED
  BY <1>6, <1>7

(* The upload a confirmation makes the cover has its object, and the one it *)
(* replaces is the cover no longer.                                         *)
LEMMA ConfirmCoverMoves ==
  ASSUME TypeOK, FilesInv, NEW g \in Goroutines, ConfirmCover(g)
  PROVE  FilesMove
<1> DEFINE c == call[g].subject
           row == [upload[c] EXCEPT !.status = "ready"]
<1>1. /\ call[g] \in CoverCalls /\ c \in Covers /\ upload[c] # Nil /\ upload[c] \in UploadRows
      /\ call[g] # Nil /\ call[g].pc = "confirm_cover"
  BY CoverCall DEF ConfirmCover, At
<1>2. UNCHANGED <<attachment, object>> /\ FileRowsMove
  BY FilesStay DEF ConfirmCover
<1>3. upload[c].status # "pending" \/ upload[c].again \/ object[c] = "good"
  BY <1>1 DEF FilesInv, RequestsKnow, CoverFacts
<1>4. CASE Done(g) /\ UNCHANGED <<upload, cover>>
  BY <1>2, <1>4, EndArrives, CoversStay DEF FilesMove
<1>5. CASE TripLocked /\ upload[c].status = "pending"
  <2>1. /\ upload' = [upload EXCEPT ![c] = row]
        /\ cover' = [source |-> "uploaded", key |-> c, overtaken |-> Assigning]
        /\ cover.source = "uploaded" =>
              call' = [call EXCEPT ![g].pc = "discard", ![g].subject = cover.key]
        /\ cover.source # "uploaded" => Done(g)
    BY <1>5 DEF ConfirmCover, SetCover
  <2>2. row \in UploadRows /\ row.status = "ready" /\ row.again = upload[c].again
    BY <1>1 DEF UploadRows
  <2>3. cover'.source = "uploaded" /\ cover'.key = c
    BY <2>1
  <2>4. CoverRowsMove /\ \A d \in Covers : upload'[d] = IF d = c THEN row ELSE upload[d]
    <3> HIDE DEF row, c
    <3> QED
      BY <1>1, <1>2, <1>3, <1>5, <2>1, <2>2, <2>3, CoverWritten, UploadWritten
  <2>5. CASE cover.source # "uploaded"
    BY <1>2, <2>1, <2>4, <2>5, EndArrives DEF FilesMove
  <2>6. CASE cover.source = "uploaded"
    <3> DEFINE k == cover.key
    <3>1. k \in Covers /\ upload[k].status = "ready" /\ k # c
      BY <1>5, <2>6 DEF TypeOK, MediaReferences, FilesInv, CoverReady
    <3>2. CallBecomes(g, "discard", k)
      <4> DEFINE y == call[g]
                 z == [[y EXCEPT !.pc = "discard"] EXCEPT !.subject = k]
      <4>1. y \in CoverCalls
        BY <1>1
      <4>2. call' = [call EXCEPT ![g] = z]
        BY <2>1, <2>6 DEF TypeOK
      <4> HIDE DEF y
      <4>3. z.pc = "discard" /\ z.subject = k
        BY <4>1 DEF CoverCalls
      <4> HIDE DEF z
      <4> QED
        BY <4>2, <4>3 DEF CallBecomes
    <3>3. \A d : d = k => upload'[d].status = "ready" /\ ~Shown(d)'
      BY <2>3, <2>4, <3>1 DEF Shown
    <3>4. \A x : x.pc = "discard" /\ x.subject = k => FileFacts(x)' /\ CoverFacts(x)'
      <4> HIDE DEF k
      <4> QED
        BY <3>1, <3>3, MediaAssumption DEF FileFacts, CoverFacts
    <3> HIDE DEF k
    <3> QED
      BY <1>2, <2>4, <3>2, <3>4, KnowingArrives DEF FilesMove
  <2> QED
    BY <2>5, <2>6
<1> QED
  BY <1>4, <1>5 DEF ConfirmCover

(* What is discarded is a refused file, or an upload that is not the cover. *)
LEMMA DiscardMoves ==
  ASSUME TypeOK, FilesInv, NEW g \in Goroutines, Discard(g)
  PROVE  FilesMove
<1> DEFINE s == call[g].subject
<1>1. /\ call[g] # Nil /\ call[g].pc = "discard" /\ call[g] \in AllMediaCalls
      /\ s \in Attachments \cup Covers
      /\ s \in Attachments => attachment[s] # Nil
      /\ s \in Covers => upload[s] # Nil
  <2>1. call[g] # Nil /\ call[g].pc = "discard" /\ call[g] \in DiscardCalls
    BY CallAt DEF Discard, TypeOK, CallTypeOK, At
  <2>2. call[g] \in AllMediaCalls /\ s \in Attachments \cup Covers /\ call[g].op = "media"
    BY <2>1, MediaFields DEF AllMediaCalls
  <2> QED
    BY <2>1, <2>2 DEF TypeOK, MediaReferences, FoundFiles
<1>2. ArrivesKnowing /\ UNCHANGED <<attachment, upload, cover>>
  BY EndArrives DEF Discard
<1>3. /\ s \in Attachments => attachment[s].status = "failed"
      /\ s \in Covers => \/ upload[s].status = "failed" \/ upload[s].again
                         \/ upload[s].status = "ready" /\ ~Shown(s)
  BY <1>1 DEF FilesInv, RequestsKnow, FileFacts, CoverFacts
<1>4. \A k \in Attachments \cup Covers : object'[k] = object[k] \/ k = s
  BY DEF Discard, TypeOK, MediaTypeOK
<1> HIDE DEF s
<1>5. FileRowsMove
  BY <1>1, <1>2, <1>3, <1>4 DEF FileRowsMove
<1>6. s \in Covers /\ upload[s].status = "failed" => ~Shown(s)
  BY DEF FilesInv, CoverReady, Shown
<1>7. CoverRowsMove
  BY <1>1, <1>2, <1>3, <1>4, <1>6 DEF CoverRowsMove, Shown
<1> QED
  BY <1>2, <1>5, <1>7 DEF FilesMove

(* AutoAssign moves the rows of files only forward, and its request arrives  *)
(* knowing what it needs.                                                    *)
LEMMA AutoAssignMoves ==
  ASSUME TypeOK, NEW g \in Goroutines, AutoAssign(g)
  PROVE  FilesMove
<1>1. call[g] \in AllMediaCalls
  BY CallAt DEF AutoAssign, TypeOK, CallTypeOK, AllMediaCalls
<1>2. CASE Done(g)
  BY <1>2, EndArrives, MediaStays DEF AutoAssign, FilesMove
<1>3. CASE Goto(g, "apply")
  <2>1. CallBecomes(g, "apply", call[g].subject) /\ "apply" \in QuietSteps
    BY <1>1, <1>3, GoesOnTo DEF QuietSteps
  <2> QED
    BY <2>1, QuietArrives, MediaStays DEF AutoAssign, FilesMove
<1> QED
  BY <1>2, <1>3 DEF AutoAssign

(* ApplyCover moves the rows of files only forward, and its request arrives  *)
(* knowing what it needs.                                                    *)
LEMMA ApplyCoverMoves ==
  ASSUME TypeOK, NEW g \in Goroutines, ApplyCover(g)
  PROVE  FilesMove
<1>1. ArrivesKnowing /\ FileRowsMove /\ UNCHANGED <<upload, object>>
  BY EndArrives, FilesStay DEF ApplyCover
<1>2. cover' = cover \/ cover'.source # "uploaded"
  BY DEF ApplyCover, SetCover
<1>3. CoverRowsMove
  BY <1>1, <1>2 DEF CoverRowsMove, Shown
<1> QED
  BY <1>1, <1>3 DEF FilesMove

(* A second object under a cover's key is remembered.                       *)
LEMMA PutObjectMoves ==
  ASSUME TypeOK, NEW k \in Attachments \cup Covers, NEW quality \in {"good", "bad"}, PutObject(k, quality)
  PROVE  FilesMove
<1>1. ArrivesKnowing /\ UNCHANGED <<attachment, cover>>
  BY DEF PutObject, ArrivesKnowing, accountVars
<1>2. \A j \in Attachments \cup Covers : object'[j] = IF j = k THEN quality ELSE object[j]
  BY DEF PutObject, TypeOK, MediaTypeOK
<1>3. quality # Nil
  BY MediaAssumption
<1>4. FileRowsMove
  BY <1>1, <1>2, <1>3 DEF FileRowsMove
<1>5. CoverRowsMove
  <2>1. CASE k \in Covers /\ object[k] # Nil
    <3> DEFINE row == [upload[k] EXCEPT !.again = TRUE]
    <3>1. upload[k] # Nil /\ upload[k] \in UploadRows
      BY <2>1, MediaAssumption DEF PutObject, Open, TypeOK, MediaTypeOK
    <3>2. /\ row \in UploadRows /\ row.again /\ row.status = upload[k].status
          /\ upload' = [upload EXCEPT ![k] = row]
      BY <2>1, <3>1 DEF UploadRows, PutObject
    <3> HIDE DEF row
    <3>3. /\ \A d \in Covers : upload'[d] = IF d = k THEN row ELSE upload[d]
          /\ \A d \in Covers : upload[d] # Nil => upload'[d] # Nil
      BY <2>1, <3>2, UploadWritten
    <3> QED
      BY <1>1, <1>2, <2>1, <3>1, <3>2, <3>3 DEF CoverRowsMove, Shown
  <2>2. CASE ~(k \in Covers /\ object[k] # Nil)
    <3>1. UNCHANGED upload
      BY <2>2 DEF PutObject
    <3> QED
      BY <1>1, <1>2, <2>2, <3>1 DEF CoverRowsMove, Shown
  <2> QED
    BY <2>1, <2>2
<1> QED
  BY <1>1, <1>4, <1>5 DEF FilesMove

(* GrowOld moves the rows of files only forward, and its request arrives     *)
(* knowing what it needs.                                                    *)
LEMMA GrowOldMoves ==
  ASSUME TypeOK, NEW a \in Attachments, GrowOld(a)
  PROVE  FilesMove
<1>1. ArrivesKnowing /\ CoverRowsMove /\ UNCHANGED object
  BY CoversStay DEF GrowOld, ArrivesKnowing, accountVars
<1> DEFINE row == [attachment[a] EXCEPT !.stale = TRUE]
<1>2. attachment[a] # Nil
  BY DEF GrowOld, Open
<1>3. row \in AttachmentRows /\ attachment[a] \in AttachmentRows /\ attachment' = [attachment EXCEPT ![a] = row]
  BY <1>2, AttachmentWrites DEF GrowOld
<1>4. /\ row.kind = attachment[a].kind /\ row.swept = attachment[a].swept
      /\ row.deleted = attachment[a].deleted /\ row.status = attachment[a].status
  BY <1>3 DEF AttachmentRows
<1> HIDE DEF row
<1>5. FileRowsMove
  BY <1>1, <1>2, <1>3, <1>4, FileWritten
<1> QED
  BY <1>1, <1>5 DEF FilesMove

(* Every step about files is one of the above.                               *)
LEMMA AllFilesMove ==
  ASSUME TypeOK, FilesInv, FileMoves
  PROVE  FilesMove
<1>1. CASE MediaRequest
  BY <1>1, EnterMoves, TripMoves, ListStalePendingMoves DEF MediaRequest
<1>2. CASE MediaTime
  BY <1>2, GrowOldMoves, PutObjectMoves DEF MediaTime
<1>3. CASE \E g \in Goroutines : MediaStep(g)
  BY <1>3, NewFileMoves, StatUploadMoves, ConfirmUploadMoves, RejectUploadMoves, DeleteAttachmentMoves,
     SweepObjectMoves, SweepRowMoves, RequestCoverUploadMoves, StatCoverMoves, RejectCoverMoves,
     ConfirmCoverMoves, DiscardMoves, AutoAssignMoves, ApplyCoverMoves DEF MediaStep
<1>4. CASE \E g \in Goroutines, u \in People : TripCreate(g, u)
  BY <1>4, TripMoves
<1> QED
  BY <1>1, <1>2, <1>3, <1>4 DEF FileMoves

(* The rest of the server knows nothing of files.                           *)
LEMMA OthersKnowNothing ==
  ASSUME TypeOK, NEW kinds, CallStep(kinds), kinds \subseteq SocketCalls \cup RosterCalls
  PROVE  ArrivesKnowing
<1>1. \A x \in kinds : FileFacts(x)' /\ CoverFacts(x)'
  <2>1. \A x \in kinds :
           x.pc \notin {"confirm", "discard", "tombstone", "confirm_cover", "reject_cover"}
    BY CallSteps DEF SocketCalls, RosterCalls, AccountCalls
  <2> QED
    BY <2>1 DEF FileFacts, CoverFacts
<1>2. \A h \in Goroutines : call'[h] = call[h] \/ call'[h] = Nil \/ call'[h] \in kinds
  BY DEF CallStep, TypeOK
<1> QED
  BY <1>1, <1>2 DEF ArrivesKnowing

(* No step at all breaks the invariant of the files.                         *)
LEMMA NextFiles ==
  ASSUME TypeOK, FilesInv, [Next]_vars
  PROVE  FilesInv'
<1>1. SUFFICES FilesMove
  BY NextTyped, FilesInvKept DEF FilesMove
<1>2. CASE AccountMoves /\ UNCHANGED <<socketVars, rosterVars, mediaVars>>
  BY <1>2, AccountEffects, OthersKnowNothing, MediaStays
     DEF AccountMoves, AccountEffect, FilesMove, SocketCalls
<1>3. CASE SocketMoves /\ UNCHANGED <<rosterVars, mediaVars>>
  BY <1>3, SocketEffects, OthersKnowNothing, MediaStays DEF SocketMoves, SocketEffect, FilesMove
<1>4. CASE RosterMoves /\ UNCHANGED <<socketVars, mediaVars>>
  BY <1>4, RosterEffects, OthersKnowNothing, MediaStays DEF RosterMoves, RosterEffect, FilesMove
<1>5. CASE FileMoves
  BY <1>5, AllFilesMove
<1>6. CASE UNCHANGED vars
  <2>1. UNCHANGED mediaVars /\ UNCHANGED call
    BY <1>6 DEF vars, accountVars
  <2> QED
    BY <2>1, MediaStays DEF FilesMove, ArrivesKnowing
<1> QED
  BY <1>2, <1>3, <1>4, <1>5, <1>6, NextCases

(* Initially there are no files.                                             *)
LEMMA InitFiles ==
  ASSUME Init
  PROVE  FilesInv
<1>1. /\ call = [g \in Goroutines |-> Nil] /\ attachment = [a \in Attachments |-> Nil]
      /\ cover = [source |-> "neutral", key |-> Nil, overtaken |-> {}]
  BY DEF Init, AccountsInit, MediaInit
<1>2. cover.source # "uploaded" /\ \A a \in Attachments : attachment[a] = Nil
  BY <1>1
<1>3. RequestsKnow
  BY <1>1 DEF RequestsKnow
<1> QED
  BY <1>2, <1>3 DEF FilesInv, CoverReady, ObjectsKept, Live

(***************************************************************************)
(* What members see is in storage although rows and objects share no       *)
(* transaction: confirmations, refusals, discards and sweeps may overtake  *)
(* each other in any order (service/attachment.go, trip_cover.go), and a   *)
(* ready file or the uploaded cover loses its object only to the sweep or  *)
(* to a second upload under the same key.                                  *)
(***************************************************************************)
THEOREM ObjectsAreKept == Spec => []ObjectsKept
<1>1. Init => FilesInv
  BY InitFiles
<1>2. TypeOK /\ FilesInv /\ [Next]_vars => FilesInv'
  BY NextFiles
<1>3. FilesInv => ObjectsKept
  BY DEF FilesInv
<1> QED
  BY <1>1, <1>2, <1>3, ServerTyped, PTL DEF Spec

-----------------------------------------------------------------------------
(* The log of attachments and a client that folds it.                       *)

Rows == replica.t.attachments

Ready(a) == Live(a) /\ attachment[a].status = "ready"

Swept(a) == attachment[a] # Nil /\ attachment[a].swept

ShownRow(a) == Rows[a] # Nil /\ Rows[a].deleted_at = Nil

(* The fold never runs ahead, holds only what was confirmed, and while it   *)
(* was not stopped shows what the database has.                             *)
FoldInv ==
    /\ replica.seq <= opSeq
    /\ \A a \in Attachments : Rows[a] # Nil => attachment[a] # Nil /\ attachment[a].status = "ready"
    /\ replica.seq = opSeq => \A a \in Attachments : (ShownRow(a) <=> Ready(a)) \/ Swept(a)

(* A step that tells nothing makes nothing ready, and deletes nothing that  *)
(* is, unless the sweep took it.                                            *)
Silent ==
    /\ UNCHANGED <<opSeq, replica>>
    /\ \A a \in Attachments : (Ready(a)' <=> Ready(a)) \/ Swept(a)'

(* The inductive invariant is enough.                                        *)
LEMMA FoldMatches ==
  ASSUME FoldInv
  PROVE  AnnouncementsMatch
  BY DEF FoldInv, AnnouncementsMatch, ShownRow, Rows, Ready, Swept

(* A swept attachment stays swept.                                           *)
LEMMA SweptStays ==
  ASSUME FileRowsMove
  PROVE  \A a \in Attachments : Swept(a) => Swept(a)'
  BY DEF FileRowsMove, Swept

(* A step that records nothing and keeps the announced rows keeps the fold   *)
(* right.                                                                    *)
LEMMA FoldSilent ==
  ASSUME FoldInv, FileRowsMove, Silent
  PROVE  FoldInv'
<1>1. Rows' = Rows /\ \A a \in Attachments : ShownRow(a)' <=> ShownRow(a)
  BY DEF Silent, Rows, ShownRow
<1>2. \A a \in Attachments : Rows'[a] # Nil => attachment'[a] # Nil /\ attachment'[a].status = "ready"
  BY <1>1 DEF FoldInv, FileRowsMove
<1>3. replica'.seq = opSeq' => \A a \in Attachments : (ShownRow(a)' <=> Ready(a)') \/ Swept(a)'
  BY <1>1, SweptStays DEF FoldInv, Silent
<1> QED
  BY <1>2, <1>3 DEF FoldInv, Silent

(* So does one that leaves the attachments alone.                            *)
LEMMA RowsUnchanged ==
  ASSUME UNCHANGED <<attachment, opSeq, replica>>
  PROVE  Silent
  BY DEF Silent, Ready, Live

(* One attachment is written and told of, and the client's row of it        *)
(* becomes one that shows it exactly if it is ready.                        *)
LEMMA FoldTold ==
  ASSUME TypeOK, FoldInv, FileRowsMove, NEW a \in Attachments, NEW row \in AttachmentRows,
         attachment' = [attachment EXCEPT ![a] = row], row.status = "ready",
         opSeq' = opSeq + 1,
         NEW n, n # Nil, n.deleted_at = Nil <=> ~row.deleted,
         replica' = IF replica.seq = opSeq
                    THEN [seq |-> opSeq + 1, t |-> [attachments |-> [Rows EXCEPT ![a] = n]]]
                    ELSE replica
  PROVE  FoldInv'
<1>1. \A b \in Attachments : attachment'[b] = IF b = a THEN row ELSE attachment[b]
  BY AttachmentWritten
<1>2. row # Nil
  BY MediaAssumption
<1>3. opSeq \in Nat /\ replica.seq \in Nat /\ Rows \in [Attachments -> FoldedRows \cup {Nil}]
  BY DEF TypeOK, MediaTypeOK, Rows
<1>4. CASE replica.seq = opSeq
  <2>1. replica' = [seq |-> opSeq + 1, t |-> [attachments |-> [Rows EXCEPT ![a] = n]]]
    BY <1>4
  <2>2. replica'.seq = opSeq' /\ Rows' = [Rows EXCEPT ![a] = n]
    BY <2>1 DEF Rows
  <2>3. \A b \in Attachments : Rows'[b] = IF b = a THEN n ELSE Rows[b]
    BY <1>3, <2>2
  <2>4. \A b \in Attachments : Rows'[b] # Nil => attachment'[b] # Nil /\ attachment'[b].status = "ready"
    BY <1>1, <1>2, <2>3 DEF FoldInv
  <2>5. ShownRow(a)' <=> Ready(a)'
    BY <1>1, <1>2, <2>3 DEF ShownRow, Ready, Live
  <2>6. \A b \in Attachments \ {a} : (ShownRow(b)' <=> Ready(b)') \/ Swept(b)'
    BY <1>1, <1>4, <2>3 DEF FoldInv, ShownRow, Ready, Live, Swept
  <2>7. replica'.seq <= opSeq'
    BY <1>3, <2>2
  <2> QED
    BY <2>4, <2>5, <2>6, <2>7 DEF FoldInv
<1>5. CASE replica.seq # opSeq
  <2>1. replica' = replica /\ Rows' = Rows
    BY <1>5 DEF Rows
  <2>2. \A b \in Attachments : Rows'[b] # Nil => attachment'[b] # Nil /\ attachment'[b].status = "ready"
    BY <1>1, <1>2, <2>1 DEF FoldInv
  <2>3. replica'.seq <= opSeq' /\ replica'.seq # opSeq'
    BY <1>3, <1>5, <2>1 DEF FoldInv
  <2> QED
    BY <2>2, <2>3 DEF FoldInv
<1> QED
  BY <1>4, <1>5

(* A removal the client has to refuse stops it.                             *)
LEMMA FoldStopped ==
  ASSUME TypeOK, FoldInv, FileRowsMove, opSeq' = opSeq + 1, UNCHANGED replica
  PROVE  FoldInv'
<1>1. opSeq \in Nat /\ replica.seq \in Nat /\ Rows' = Rows
  BY DEF TypeOK, MediaTypeOK, Rows
<1>2. \A b \in Attachments : Rows'[b] # Nil => attachment'[b] # Nil /\ attachment'[b].status = "ready"
  BY <1>1 DEF FoldInv, FileRowsMove
<1>3. replica'.seq <= opSeq' /\ replica'.seq # opSeq'
  BY <1>1 DEF FoldInv
<1> QED
  BY <1>2, <1>3 DEF FoldInv

(* A row that becomes ready together with its announcement.                  *)
LEMMA AnnouncedFold ==
  ASSUME TypeOK, FoldInv, FileRowsMove, NEW a \in Attachments, NEW row \in AttachmentRows,
         attachment' = [attachment EXCEPT ![a] = row], row.status = "ready", ~row.deleted,
         attachment[a] = Nil \/ attachment[a].status # "ready", Announce(a)
  PROVE  FoldInv'
<1> DEFINE n == [status |-> "ready", storage_key |-> a,
                 deleted_at |-> IF Rows[a] = Nil THEN Nil ELSE Rows[a].deleted_at]
<1>1. Rows[a] = Nil
  BY DEF FoldInv
<1>2. /\ opSeq' = opSeq + 1
      /\ replica' = IF replica.seq = opSeq
                    THEN [seq |-> opSeq + 1, t |-> [attachments |-> [Rows EXCEPT ![a] = n]]]
                    ELSE replica
  BY AnnounceFold DEF TypeOK, Rows
<1>3. n.deleted_at = Nil /\ n \in FoldedRows
  BY <1>1 DEF FoldedRows
<1>4. n # Nil
  BY <1>3, MediaAssumption
<1> HIDE DEF n
<1> QED
  BY <1>2, <1>3, <1>4, FoldTold

(* A row that is tombstoned together with its retraction.                    *)
LEMMA RetractedFold ==
  ASSUME TypeOK, FoldInv, FileRowsMove, NEW a \in Attachments, attachment[a] # Nil, NEW row \in AttachmentRows,
         attachment' = [attachment EXCEPT ![a] = row], row.status = attachment[a].status, row.deleted,
         Retract(a)
  PROVE  FoldInv'
<1> DEFINE n == [status |-> Rows[a].status, storage_key |-> Rows[a].storage_key, deleted_at |-> TRUE]
<1>1. /\ opSeq' = opSeq + 1
      /\ replica' = IF replica.seq = opSeq /\ Rows[a] # Nil
                    THEN [seq |-> opSeq + 1, t |-> [attachments |-> [Rows EXCEPT ![a] = n]]]
                    ELSE replica
  BY RetractFold DEF TypeOK, Rows
<1>2. Rows[a] # Nil => n \in FoldedRows /\ n.deleted_at # Nil
  <2>1. Rows \in [Attachments -> FoldedRows \cup {Nil}]
    BY DEF TypeOK, MediaTypeOK, Rows
  <2>2. n.deleted_at # Nil
    BY MediaAssumption
  <2>3. Rows[a] # Nil => n \in FoldedRows
    BY <2>1 DEF FoldedRows
  <2> QED
    BY <2>2, <2>3
<1> HIDE DEF n
<1>3. CASE Rows[a] = Nil
  <2>1. UNCHANGED replica
    BY <1>1, <1>3
  <2> QED
    BY <1>1, <2>1, FoldStopped
<1>4. CASE Rows[a] # Nil
  <2>1. row.status = "ready"
    BY <1>4 DEF FoldInv
  <2>2. n # Nil /\ (n.deleted_at = Nil <=> ~row.deleted)
    BY <1>2, <1>4, MediaAssumption
  <2>3. replica' = IF replica.seq = opSeq
                   THEN [seq |-> opSeq + 1, t |-> [attachments |-> [Rows EXCEPT ![a] = n]]]
                   ELSE replica
    BY <1>1, <1>4
  <2> QED
    BY <1>1, <2>1, <2>2, <2>3, FoldTold
<1> QED
  BY <1>3, <1>4

(* A row is written and nothing told of it.                                 *)
LEMMA WrittenSilently ==
  ASSUME TypeOK, NEW a \in Attachments, NEW row \in AttachmentRows,
         attachment' = [attachment EXCEPT ![a] = row], UNCHANGED <<opSeq, replica>>,
         row.swept \/ ((~row.deleted /\ row.status = "ready") <=> Ready(a))
  PROVE  Silent
<1>1. \A b \in Attachments : attachment'[b] = IF b = a THEN row ELSE attachment[b]
  BY AttachmentWritten
<1>2. row # Nil
  BY MediaAssumption
<1> QED
  BY <1>1, <1>2 DEF Silent, Ready, Live, Swept

(* NewFile keeps the fold of the log equal to the rows.                      *)
LEMMA NewFileFold ==
  ASSUME TypeOK, FoldInv, FileRowsMove, NEW g \in Goroutines, NEW a \in Attachments,
         CreateLink(g, a) \/ RequestUpload(g, a)
  PROVE  FoldInv'
<1>1. attachment[a] = Nil
  BY FreeId DEF CreateLink, RequestUpload
<1> DEFINE link == InsertAttachment("link", "ready")
           file == InsertAttachment("file", "pending")
<1>2. /\ link \in AttachmentRows /\ link.status = "ready" /\ ~link.deleted
      /\ file \in AttachmentRows /\ file.status = "pending"
  BY DEF InsertAttachment, AttachmentRows
<1>3. \/ UNCHANGED <<attachment, opSeq, replica>>
      \/ attachment' = [attachment EXCEPT ![a] = link] /\ Announce(a)
      \/ attachment' = [attachment EXCEPT ![a] = file] /\ UNCHANGED <<opSeq, replica>>
  BY DEF CreateLink, RequestUpload
<1> HIDE DEF link, file
<1>4. CASE UNCHANGED <<attachment, opSeq, replica>>
  BY <1>4, RowsUnchanged, FoldSilent
<1>5. CASE attachment' = [attachment EXCEPT ![a] = link] /\ Announce(a)
  BY <1>1, <1>2, <1>5, AnnouncedFold
<1>6. CASE attachment' = [attachment EXCEPT ![a] = file] /\ UNCHANGED <<opSeq, replica>>
  <2>1. ~Ready(a) /\ file.status # "ready"
    BY <1>1, <1>2 DEF Ready, Live
  <2>2. Silent
    BY <1>2, <1>6, <2>1, WrittenSilently
  <2> QED
    BY <2>2, FoldSilent
<1> QED
  BY <1>3, <1>4, <1>5, <1>6

(* ConfirmUpload keeps the fold of the log equal to the rows.                *)
LEMMA ConfirmUploadFold ==
  ASSUME TypeOK, FoldInv, FileRowsMove, NEW g \in Goroutines, ConfirmUpload(g)
  PROVE  FoldInv'
<1> DEFINE a == call[g].subject
           row == [attachment[a] EXCEPT !.status = "ready"]
<1>1. a \in Attachments /\ attachment[a] # Nil
  BY FileCall DEF ConfirmUpload
<1>2. CASE UNCHANGED <<attachment, opSeq, replica>>
  BY <1>2, RowsUnchanged, FoldSilent
<1>3. CASE /\ Live(a) /\ attachment[a].status = "pending"
           /\ attachment' = SetStatus(a, "ready") /\ Announce(a)
  <2>1. /\ attachment[a] \in AttachmentRows /\ row \in AttachmentRows
        /\ attachment' = [attachment EXCEPT ![a] = row]
    BY <1>1, <1>3, AttachmentWrites
  <2>2. row.status = "ready" /\ ~row.deleted
    BY <1>3, <2>1 DEF AttachmentRows, Live
  <2> HIDE DEF row, a
  <2> QED
    BY <1>1, <1>3, <2>1, <2>2, AnnouncedFold
<1> QED
  BY <1>2, <1>3 DEF ConfirmUpload

(* RejectUpload keeps the fold of the log equal to the rows.                 *)
LEMMA RejectUploadFold ==
  ASSUME TypeOK, FoldInv, FileRowsMove, NEW g \in Goroutines, RejectUpload(g)
  PROVE  FoldInv'
<1> DEFINE a == call[g].subject
           row == [attachment[a] EXCEPT !.status = "failed"]
<1>1. a \in Attachments /\ attachment[a] # Nil /\ UNCHANGED <<opSeq, replica>>
  BY FileCall DEF RejectUpload
<1>2. CASE UNCHANGED attachment
  BY <1>1, <1>2, RowsUnchanged, FoldSilent
<1>3. CASE attachment[a].status = "pending" /\ attachment' = SetStatus(a, "failed")
  <2>1. /\ attachment[a] \in AttachmentRows /\ row \in AttachmentRows
        /\ attachment' = [attachment EXCEPT ![a] = row]
    BY <1>1, <1>3, AttachmentWrites
  <2>2. row.status = "failed" /\ ~Ready(a)
    BY <1>3, <2>1 DEF AttachmentRows, Ready
  <2> HIDE DEF row, a
  <2>3. Silent
    BY <1>1, <2>1, <2>2, WrittenSilently
  <2> QED
    BY <2>3, FoldSilent
<1> QED
  BY <1>2, <1>3 DEF RejectUpload

(* The row a tombstone leaves.                                              *)
LEMMA DeletedRow ==
  ASSUME TypeOK, NEW a \in Attachments, attachment[a] # Nil, attachment' = SoftDelete(a)
  PROVE  \E row \in AttachmentRows :
            /\ attachment' = [attachment EXCEPT ![a] = row]
            /\ row.deleted /\ row.status = attachment[a].status /\ row.swept = attachment[a].swept
<1> DEFINE row == [attachment[a] EXCEPT !.deleted = TRUE]
<1>1. /\ attachment[a] \in AttachmentRows /\ row \in AttachmentRows
      /\ attachment' = [attachment EXCEPT ![a] = row]
  BY AttachmentWrites
<1>2. row.deleted /\ row.status = attachment[a].status /\ row.swept = attachment[a].swept
  BY <1>1 DEF AttachmentRows
<1> HIDE DEF row
<1> QED
  BY <1>1, <1>2

(* DeleteAttachment keeps the fold of the log equal to the rows.             *)
LEMMA DeleteAttachmentFold ==
  ASSUME TypeOK, FoldInv, FileRowsMove, NEW g \in Goroutines, DeleteAttachment(g)
  PROVE  FoldInv'
<1> DEFINE a == call[g].subject
<1>1. a \in Attachments /\ attachment[a] # Nil
  BY FileCall DEF DeleteAttachment
<1>2. CASE UNCHANGED <<attachment, opSeq, replica>>
  BY <1>2, RowsUnchanged, FoldSilent
<1>3. CASE attachment' = SoftDelete(a) /\ attachment[a].status = "pending" /\ UNCHANGED <<opSeq, replica>>
  <2> HIDE DEF a
  <2>1. PICK row \in AttachmentRows :
            /\ attachment' = [attachment EXCEPT ![a] = row]
            /\ row.deleted /\ row.status = attachment[a].status
    BY <1>1, <1>3, DeletedRow
  <2>2. ~Ready(a)
    BY <1>3 DEF Ready
  <2>3. Silent
    BY <1>1, <1>3, <2>1, <2>2, WrittenSilently
  <2> QED
    BY <2>3, FoldSilent
<1>4. CASE attachment' = SoftDelete(a) /\ Retract(a)
  <2> HIDE DEF a
  <2>1. PICK row \in AttachmentRows :
            /\ attachment' = [attachment EXCEPT ![a] = row]
            /\ row.deleted /\ row.status = attachment[a].status
    BY <1>1, <1>4, DeletedRow
  <2> QED
    BY <1>1, <1>4, <2>1, RetractedFold
<1> QED
  BY <1>2, <1>3, <1>4 DEF DeleteAttachment

(* The sweep tells nobody: its rows are the ones it took.                   *)
LEMMA SweepFold ==
  ASSUME TypeOK, FoldInv, FilesInv, FileRowsMove, NEW g \in Goroutines, SweepObject(g) \/ SweepRow(g)
  PROVE  FoldInv'
<1>1. UNCHANGED <<opSeq, replica>>
  BY DEF SweepObject, SweepRow
<1>2. CASE UNCHANGED attachment
  BY <1>1, <1>2, RowsUnchanged, FoldSilent
<1>3. ASSUME NEW a \in call[g].todo, At(g, "sweep"), attachment' = [attachment EXCEPT ![a].swept = TRUE]
      PROVE  FoldInv'
  <2> DEFINE row == [attachment[a] EXCEPT !.swept = TRUE]
  <2>1. a \in Attachments /\ attachment[a] # Nil
    BY <1>3, SweepCall
  <2>2. /\ row \in AttachmentRows /\ attachment[a] \in AttachmentRows
        /\ attachment' = [attachment EXCEPT ![a] = row]
    BY <2>1, <1>3, AttachmentWrites
  <2>3. row.swept
    BY <2>2 DEF AttachmentRows
  <2> HIDE DEF row
  <2>4. Silent
    BY <1>1, <2>1, <2>2, <2>3, WrittenSilently
  <2> QED
    BY <2>4, FoldSilent
<1>4. ASSUME At(g, "tombstone"), attachment' = SoftDelete(call[g].subject)
      PROVE  FoldInv'
  <2> DEFINE a == call[g].subject
  <2>1. a \in Attachments /\ attachment[a] # Nil
    BY <1>4, SweepCall
  <2>2. attachment[a].swept
    BY <1>4 DEF FilesInv, RequestsKnow, FileFacts, At
  <2> HIDE DEF a
  <2>3. PICK row \in AttachmentRows :
            attachment' = [attachment EXCEPT ![a] = row] /\ row.swept = attachment[a].swept
    BY <1>4, <2>1, DeletedRow DEF a
  <2>4. Silent
    BY <1>1, <2>1, <2>2, <2>3, WrittenSilently
  <2> QED
    BY <2>4, FoldSilent
<1> QED
  BY <1>2, <1>3, <1>4 DEF SweepObject, SweepRow

(* GrowOld keeps the fold of the log equal to the rows.                      *)
LEMMA GrowOldFold ==
  ASSUME TypeOK, FoldInv, FileRowsMove, NEW a \in Attachments, GrowOld(a)
  PROVE  FoldInv'
<1> DEFINE row == [attachment[a] EXCEPT !.stale = TRUE]
<1>1. attachment[a] # Nil /\ UNCHANGED <<opSeq, replica>>
  BY DEF GrowOld, Open
<1>2. row \in AttachmentRows /\ attachment[a] \in AttachmentRows /\ attachment' = [attachment EXCEPT ![a] = row]
  BY <1>1, AttachmentWrites DEF GrowOld
<1>3. row.deleted = attachment[a].deleted /\ row.status = attachment[a].status
  BY <1>2 DEF AttachmentRows
<1> HIDE DEF row
<1>4. Silent
  BY <1>1, <1>2, <1>3, WrittenSilently DEF Ready, Live
<1> QED
  BY <1>4, FoldSilent

(* Every step about files is one of the above.                               *)
LEMMA FilesFold ==
  ASSUME TypeOK, FilesInv, FoldInv, FileMoves
  PROVE  FoldInv'
<1>1. FileRowsMove
  BY AllFilesMove DEF FilesMove
<1>2. ASSUME UNCHANGED <<attachment, opSeq, replica>> PROVE FoldInv'
  BY <1>1, <1>2, RowsUnchanged, FoldSilent
<1>3. CASE MediaRequest
  BY <1>2, <1>3 DEF MediaRequest, Enter, TripUpdate, ListStalePending, mediaVars
<1>4. CASE MediaTime
  BY <1>1, <1>2, <1>4, GrowOldFold DEF MediaTime, PutObject
<1>5. CASE \E g \in Goroutines, u \in People : TripCreate(g, u)
  BY <1>2, <1>5 DEF TripCreate, mediaVars
<1>6. CASE \E g \in Goroutines : MediaStep(g)
  <2>1. PICK g \in Goroutines : MediaStep(g)
    BY <1>6
  <2>2. CASE \/ StatUpload(g) \/ StatCover(g) \/ RejectCover(g) \/ ConfirmCover(g) \/ Discard(g)
             \/ AutoAssign(g) \/ ApplyCover(g) \/ \E c \in Covers : RequestCoverUpload(g, c)
    BY <1>2, <2>2 DEF StatUpload, StatCover, RejectCover, ConfirmCover, Discard, AutoAssign, ApplyCover,
       RequestCoverUpload, mediaVars
  <2> QED
    BY <1>1, <2>1, <2>2, NewFileFold, ConfirmUploadFold, RejectUploadFold, DeleteAttachmentFold, SweepFold
       DEF MediaStep
<1> QED
  BY <1>3, <1>4, <1>5, <1>6 DEF FileMoves

(* No step at all breaks the agreement of the fold with the rows.            *)
LEMMA NextFold ==
  ASSUME TypeOK, FilesInv, FoldInv, [Next]_vars
  PROVE  FoldInv'
<1>1. CASE UNCHANGED mediaVars
  BY <1>1, MediaStays, RowsUnchanged, FoldSilent DEF mediaVars
<1>2. CASE FileMoves
  BY <1>2, FilesFold
<1> QED
  BY <1>1, <1>2, NextCases DEF vars

(* Initially both are empty.                                                 *)
LEMMA InitFold ==
  ASSUME Init
  PROVE  FoldInv
<1>1. /\ attachment = [a \in Attachments |-> Nil] /\ opSeq = 0
      /\ replica = [seq |-> 0, t |-> [attachments |-> [a \in Attachments |-> Nil]]]
  BY DEF Init, MediaInit
<1>2. replica.seq = 0 /\ Rows = [a \in Attachments |-> Nil]
  BY <1>1 DEF Rows
<1> QED
  BY <1>1, <1>2 DEF FoldInv, ShownRow, Ready, Live

(***************************************************************************)
(* A client that folds the log shows the attachments the database has:     *)
(* every confirmation and removal is told exactly once and in order        *)
(* (service/attachment.go), for every interleaving of uploads, removals    *)
(* and sweeps; only a sweep that overtook a confirmation, or a removal the *)
(* client had to refuse, lets the two part.                                *)
(***************************************************************************)
THEOREM AnnouncementsAgree == Spec => []AnnouncementsMatch
<1>1. Init => FilesInv /\ FoldInv
  BY InitFiles, InitFold
<1>2. TypeOK /\ FilesInv /\ FoldInv /\ [Next]_vars => FilesInv' /\ FoldInv'
  BY NextFiles, NextFold
<1>3. FoldInv => AnnouncementsMatch
  BY FoldMatches
<1> QED
  BY <1>1, <1>2, <1>3, ServerTyped, PTL DEF Spec

-----------------------------------------------------------------------------
(* The cover and the requests about to replace it.                          *)

(* Whoever is about to assign a cover while an uploaded one is in place     *)
(* read the trip before it was; and only a trip has a cover.                *)
OvertakenInv ==
    /\ cover.source = "uploaded" => \A g \in Goroutines : At(g, "apply") => g \in cover.overtaken
    /\ trip = Nil => cover.source # "uploaded"

(* A request that goes on elsewhere does not arrive at the confirmation.     *)
LEMMA BecomesElsewhere ==
  ASSUME TypeOK, NEW g \in Goroutines, NEW pc, NEW s, CallBecomes(g, pc, s), pc # "apply"
  PROVE  NoneArrives("apply")
<1>1. PICK x : call' = [call EXCEPT ![g] = x] /\ x.pc = pc
  BY DEF CallBecomes
<1> QED
  BY <1>1, ArrivesElsewhere

(* A request that confirms a cover is not one that looks for a photo.        *)
LEMMA ConfirmingAssignsNone ==
  ASSUME TypeOK, NEW g \in Goroutines, ConfirmCover(g)
  PROVE  NoneArrives("apply")
<1>1. call[g] \in CoverCalls
  BY CoverCall DEF ConfirmCover
<1>2. ASSUME NEW k, call' = [call EXCEPT ![g].pc = "discard", ![g].subject = k]
      PROVE  NoneArrives("apply")
  <2> DEFINE y == call[g]
             z == [[y EXCEPT !.pc = "discard"] EXCEPT !.subject = k]
  <2>1. call' = [call EXCEPT ![g] = z]
    BY <1>2 DEF TypeOK
  <2>2. y \in CoverCalls
    BY <1>1
  <2> HIDE DEF y
  <2>3. z.pc = "discard"
    BY <2>2 DEF CoverCalls
  <2> HIDE DEF z
  <2> QED
    BY <2>1, <2>3, ArrivesElsewhere
<1> QED
  BY <1>2, EndingArrives DEF ConfirmCover

(* Nobody comes to assign a cover while an uploaded one is in place.        *)
LEMMA NoneAssigns ==
  ASSUME TypeOK, OvertakenInv, FileMoves, cover.source = "uploaded"
  PROVE  NoneArrives("apply")
<1>1. CASE MediaRequest
  <2>1. ASSUME NEW g \in Goroutines, NEW u, NEW cap, NEW pc, NEW s, pc # "apply", Enter(g, u, cap, pc, s)
        PROVE  NoneArrives("apply")
    <3> DEFINE x == [op |-> "media", pc |-> pc, subject |-> s]
    <3>1. x.pc = pc /\ call' = [call EXCEPT ![g] = x]
      BY <2>1 DEF Enter
    <3> HIDE DEF x
    <3> QED
      BY <2>1, <3>1, ArrivesElsewhere
  <2>2. ASSUME NEW g \in Goroutines, NEW u \in People, TripUpdate(g, u)
        PROVE  NoneArrives("apply")
    BY <2>2 DEF TripUpdate, NoneArrives
  <2>3. ASSUME NEW g \in Goroutines, ListStalePending(g)
        PROVE  NoneArrives("apply")
    <3> DEFINE x == [op |-> "media", pc |-> "sweep", subject |-> Nil, todo |-> Stale]
    <3>1. x.pc = "sweep" /\ call' = [call EXCEPT ![g] = x]
      BY <2>3 DEF ListStalePending
    <3> HIDE DEF x
    <3> QED
      BY <3>1, ArrivesElsewhere
  <2> QED
    BY <1>1, <2>1, <2>2, <2>3 DEF MediaRequest
<1>2. CASE MediaTime
  BY <1>2 DEF MediaTime, GrowOld, PutObject, NoneArrives, accountVars
<1>3. CASE \E g \in Goroutines, u \in People : TripCreate(g, u)
  BY <1>3 DEF TripCreate, OvertakenInv
<1>4. CASE \E g \in Goroutines : MediaStep(g)
  <2>1. PICK g \in Goroutines : MediaStep(g)
    BY <1>4
  <2>2. CASE Done(g)
    BY <2>2, EndingArrives
  <2>3. ASSUME NEW pc, pc # "apply", Goto(g, pc), call[g] \in AllMediaCalls
        PROVE  NoneArrives("apply")
    BY <2>3, GoesOnTo, BecomesElsewhere
  <2>4. CASE StatUpload(g)
    BY <2>2, <2>3, <2>4, FileCall DEF StatUpload
  <2>5. CASE RejectUpload(g)
    BY <2>2, <2>3, <2>5, FileCall DEF RejectUpload
  <2>6. CASE StatCover(g)
    BY <2>2, <2>3, <2>6, CoverCall DEF StatCover
  <2>7. CASE RejectCover(g)
    BY <2>3, <2>7, CoverCall DEF RejectCover
  <2>8. CASE SweepRow(g)
    BY <2>2, <2>3, <2>8, SweepCall DEF SweepRow
  <2>9. CASE AutoAssign(g)
    BY <2>2, <2>9 DEF AutoAssign
  <2>10. CASE SweepObject(g)
    <3>1. call[g] \in SweepCalls
      BY <2>10, CallAt DEF SweepObject, TypeOK, CallTypeOK
    <3>2. ASSUME NEW a, call' = [call EXCEPT ![g].pc = "tombstone", ![g].subject = a, ![g].todo = @ \ {a}]
          PROVE  NoneArrives("apply")
      <4> DEFINE y == call[g]
                 z == [[[y EXCEPT !.pc = "tombstone"] EXCEPT !.subject = a] EXCEPT !.todo = @ \ {a}]
      <4>1. call' = [call EXCEPT ![g] = z]
        BY <3>2 DEF TypeOK
      <4>2. y \in SweepCalls
        BY <3>1
      <4> HIDE DEF y
      <4>3. z.pc = "tombstone"
        BY <4>2 DEF SweepCalls
      <4> HIDE DEF z
      <4> QED
        BY <4>1, <4>3, ArrivesElsewhere
    <3>3. ASSUME NEW a, call' = [call EXCEPT ![g].todo = @ \ {a}]
          PROVE  NoneArrives("apply")
      <4> DEFINE x == [call[g] EXCEPT !.todo = @ \ {a}]
      <4>1. call' = [call EXCEPT ![g] = x]
        BY <3>3 DEF TypeOK
      <4>2. x.pc = "sweep"
        BY <3>1 DEF SweepCalls
      <4> HIDE DEF x
      <4> QED
        BY <4>1, <4>2, ArrivesElsewhere
    <3> QED
      BY <2>2, <2>10, <3>2, <3>3 DEF SweepObject
  <2>11. CASE ConfirmCover(g)
    BY <2>11, ConfirmingAssignsNone
  <2>12. CASE \/ \E a \in Attachments : CreateLink(g, a) \/ RequestUpload(g, a)
              \/ ConfirmUpload(g) \/ DeleteAttachment(g) \/ Discard(g) \/ ApplyCover(g)
              \/ \E c \in Covers : RequestCoverUpload(g, c)
    BY <2>2, <2>12 DEF CreateLink, RequestUpload, ConfirmUpload, DeleteAttachment, Discard, ApplyCover,
       RequestCoverUpload
  <2> QED
    BY <2>1, <2>4, <2>5, <2>6, <2>7, <2>8, <2>9, <2>10, <2>11, <2>12 DEF MediaStep
<1> QED
  BY <1>1, <1>2, <1>3, <1>4 DEF FileMoves

(* The cover changes in two ways only.                                      *)
LEMMA CoverChanges ==
  ASSUME FileMoves
  PROVE  \/ UNCHANGED cover
         \/ /\ cover'.source = "uploaded" /\ cover'.overtaken = Assigning
            /\ \E g \in Goroutines : ConfirmCover(g)
         \/ \E g \in Goroutines : At(g, "apply") /\ Done(g) /\ cover'.source # "uploaded"
<1>1. CASE MediaRequest \/ MediaTime \/ \E g \in Goroutines, u \in People : TripCreate(g, u)
  BY <1>1 DEF MediaRequest, MediaTime, TripCreate, TripUpdate, Enter, ListStalePending, GrowOld, PutObject,
     mediaVars
<1>2. CASE \E g \in Goroutines : MediaStep(g)
  <2>1. PICK g \in Goroutines : MediaStep(g)
    BY <1>2
  <2>2. CASE ConfirmCover(g)
    BY <2>2 DEF ConfirmCover, SetCover
  <2>3. CASE ApplyCover(g)
    BY <2>3 DEF ApplyCover, SetCover
  <2>4. CASE UNCHANGED cover
    BY <2>4
  <2> QED
    BY <2>1, <2>2, <2>3, <2>4 DEF MediaStep, CreateLink, RequestUpload, StatUpload, ConfirmUpload,
       RejectUpload, DeleteAttachment, SweepObject, SweepRow, RequestCoverUpload, StatCover, RejectCover,
       Discard, AutoAssign, mediaVars
<1> QED
  BY <1>1, <1>2 DEF FileMoves

(* No step at all breaks the invariant of the covers.                        *)
LEMMA NextOvertaken ==
  ASSUME TypeOK, OvertakenInv, [Next]_vars
  PROVE  OvertakenInv'
<1>1. ASSUME UNCHANGED cover, NoneArrives("apply")
      PROVE  cover'.source = "uploaded" => \A g \in Goroutines : At(g, "apply")' => g \in cover'.overtaken
  BY <1>1 DEF OvertakenInv, NoneArrives, At
<1>2. ASSUME NEW kinds, CallStep(kinds), kinds \subseteq SocketCalls \cup RosterCalls
      PROVE  NoneArrives("apply")
  <2>1. \A x \in kinds : x.pc # "apply"
    BY <1>2, CallSteps DEF SocketCalls, RosterCalls, AccountCalls
  <2> QED
    BY <1>2, <2>1, OthersArriveElsewhere
<1>3. CASE AccountMoves /\ UNCHANGED <<socketVars, rosterVars, mediaVars>>
  <2>1. NoneArrives("apply")
    BY <1>2, <1>3, AccountEffects DEF AccountMoves, AccountEffect, SocketCalls
  <2> QED
    BY <1>1, <1>3, <2>1 DEF OvertakenInv, rosterVars, mediaVars
<1>4. CASE SocketMoves /\ UNCHANGED <<rosterVars, mediaVars>>
  <2>1. NoneArrives("apply")
    BY <1>2, <1>4, SocketEffects DEF SocketMoves, SocketEffect
  <2> QED
    BY <1>1, <1>4, <2>1 DEF OvertakenInv, rosterVars, mediaVars
<1>5. CASE RosterMoves /\ UNCHANGED <<socketVars, mediaVars>>
  <2>1. NoneArrives("apply") /\ RowsKept
    BY <1>2, <1>5, RosterEffects DEF RosterMoves, RosterEffect
  <2> QED
    BY <1>1, <1>5, <2>1 DEF OvertakenInv, RowsKept, mediaVars
<1>6. CASE FileMoves
  <2>1. RowsKept
    BY <1>6, MediaEffects DEF FileMoves, MediaEffect
  <2>2. CASE cover'.source # "uploaded"
    BY <2>2 DEF OvertakenInv
  <2>3. CASE UNCHANGED cover /\ cover.source = "uploaded"
    <3>1. NoneArrives("apply")
      BY <1>6, <2>3, NoneAssigns
    <3> QED
      BY <1>1, <2>1, <2>3, <3>1 DEF OvertakenInv, RowsKept
  <2>4. ASSUME NEW g \in Goroutines, ConfirmCover(g) PROVE trip # Nil \/ UNCHANGED cover
    BY <2>4 DEF ConfirmCover, TripLocked
  <2>5. CASE /\ cover'.source = "uploaded" /\ cover'.overtaken = Assigning
             /\ \E g \in Goroutines : ConfirmCover(g)
    <3>1. NoneArrives("apply") /\ trip # Nil
      BY <2>5, <2>4, ConfirmingAssignsNone DEF OvertakenInv
    <3> QED
      BY <2>1, <2>5, <3>1 DEF OvertakenInv, NoneArrives, At, Assigning, RowsKept
  <2> QED
    BY <1>6, <2>2, <2>3, <2>5, CoverChanges
<1>7. CASE UNCHANGED vars
  <2>1. UNCHANGED <<cover, call, trip>>
    BY <1>7 DEF vars, accountVars, rosterVars, mediaVars
  <2> QED
    BY <1>1, <2>1 DEF OvertakenInv, NoneArrives
<1> QED
  BY <1>3, <1>4, <1>5, <1>6, <1>7, NextCases

(* Initially there is no cover.                                              *)
LEMMA InitOvertaken ==
  ASSUME Init
  PROVE  OvertakenInv
<1>1. cover = [source |-> "neutral", key |-> Nil, overtaken |-> {}]
  BY DEF Init, MediaInit
<1>2. cover.source # "uploaded"
  BY <1>1
<1> QED
  BY <1>2 DEF OvertakenInv

(***************************************************************************)
(* An uploaded cover gives way to a suggestion only in a race: the request *)
(* that replaced it was past its read of the cover when the upload was     *)
(* confirmed (service/trip_cover.go, AutoAssign and apply).                *)
(***************************************************************************)
THEOREM OnlyRacesReplaceUploads == Spec => UploadReplacedOnlyByRace
<1>1. Init => OvertakenInv
  BY InitOvertaken
<1>2. TypeOK /\ OvertakenInv /\ [Next]_vars => OvertakenInv'
  BY NextOvertaken
<1>3. TypeOK /\ OvertakenInv /\ [Next]_vars =>
         [(cover.source = "uploaded" /\ cover'.source # "uploaded")
             => \E g \in cover.overtaken : At(g, "apply") /\ call'[g] = Nil]_cover
  <2>1. SUFFICES ASSUME TypeOK, OvertakenInv, [Next]_vars, cover' # cover,
                        cover.source = "uploaded", cover'.source # "uploaded"
                 PROVE  \E g \in cover.overtaken : At(g, "apply") /\ call'[g] = Nil
    OBVIOUS
  <2>2. FileMoves
    BY <2>1, NextCases DEF vars, mediaVars
  <2>3. PICK g \in Goroutines : At(g, "apply") /\ Done(g)
    BY <2>1, <2>2, CoverChanges
  <2>4. call'[g] = Nil
    BY <2>1, <2>3 DEF Done, TypeOK
  <2> QED
    BY <2>1, <2>3, <2>4 DEF OvertakenInv
<1> QED
  BY <1>1, <1>2, <1>3, ServerTyped, PTL DEF Spec, UploadReplacedOnlyByRace
=============================================================================
