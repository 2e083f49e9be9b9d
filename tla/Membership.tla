---------------------------- MODULE Membership ----------------------------
(***************************************************************************)
(* One trip, its members and its invitations (internal/service/trip.go and *)
(* membership.go, repository/membership.go, repository/invitation.go,      *)
(* domain/permission.go). Creating and editing the trip also choose its    *)
(* cover and are in Media.                                                 *)
(*                                                                         *)
(* The owner's checks cannot go stale, because nothing ends or moves       *)
(* ownership: UpdateRole and RemoveMember, which only the owner may call,  *)
(* are one step. An editor can be removed between the check and the write, *)
(* so inviting and withdrawing an invitation are two. A redemption is the  *)
(* read of the invitation and a transaction of three statements.           *)
(***************************************************************************)
EXTENDS Accounts, Sequences, SequencesExt

CONSTANTS
    People,     \* the users who can be members; the accounts of Users are among them
    Invites     \* identifiers, each given out once


VARIABLES
    trip,       \* trips: [version, deleted], or Nil before it is created
    member,     \* the live row of trip_members: [role, version], or Nil
    invite,     \* trip_invitations: [email, role, max, uses, revoked, expired], or Nil
    joined      \* the people who were added through an invitation, in order

rosterVars == <<trip, member, invite, joined>>

AssignableRoles == {"editor", "viewer"}

TripRows == [version : Nat, deleted : BOOLEAN]

MemberRows == [role : {"owner"} \cup AssignableRoles, version : Nat]

InviteRows ==
    [email : People \cup {Nil}, role : AssignableRoles, max : Nat \cup {Nil}, uses : Nat,
     revoked : BOOLEAN, expired : BOOLEAN]

InviteCalls == [op : {"invite"}, pc : {"invite", "withdraw"}]

RedeemCalls ==
    [op : {"redeem"}, pc : {"count", "member", "add"}, user : People, invite : Invites]

ASSUME MembershipAssumption ==
    /\ Users \subseteq People
    /\ Nil \notin Nat
    /\ Nil \notin TripRows \cup MemberRows \cup InviteRows \cup InviteCalls \cup RedeemCalls

(* roleCapabilities, for the capabilities the roster and the media ask for.*)
RoleCapabilities(role) ==
    CASE role = "owner"  -> {"edit_trip", "delete_trip", "invite_members", "manage_members",
                             "upload_attachments"}
      [] role = "editor" -> {"invite_members", "upload_attachments"}
      [] role = "viewer" -> {}

(* authz.require                                                           *)
Require(u, cap) == member[u] # Nil /\ cap \in RoleCapabilities(member[u].role)

-----------------------------------------------------------------------------
(* The rows the statements insert                                          *)

InsertTrip == [version |-> 1, deleted |-> FALSE]

InsertMember(role) == [role |-> role, version |-> 1]

InsertInvitation(email, role, max) ==
    [email |-> email, role |-> role, max |-> max, uses |-> 0, revoked |-> FALSE, expired |-> FALSE]

CountUse(i) == [invite EXCEPT ![i].uses = @ + 1]

(***************************************************************************)
(* No trip yet, or one whose owner has shared a link for editors.          *)
(***************************************************************************)
RosterInit ==
    /\ joined = [i \in Invites |-> <<>>]
    /\ \/ /\ trip = Nil
          /\ member = [u \in People |-> Nil]
          /\ invite = [i \in Invites |-> Nil]
       \/ \E owner \in Free([u \in People \ Users |-> Nil]), i \in Free([j \in Invites |-> Nil]) :
             /\ trip = InsertTrip
             /\ member = [u \in People |-> IF u = owner THEN InsertMember("owner") ELSE Nil]
             /\ invite = [j \in Invites |-> IF j = i THEN InsertInvitation(Nil, "editor", Nil) ELSE Nil]

-----------------------------------------------------------------------------
(* The trip                                                                *)

(* Members and invitations of a deleted trip stay.                         *)
TripDelete(u) ==
    /\ trip # Nil /\ ~trip.deleted
    /\ Require(u, "delete_trip")
    /\ trip' = [version |-> trip.version + 1, deleted |-> TRUE]
    /\ UNCHANGED <<member, invite, joined, accountVars>>

-----------------------------------------------------------------------------
(* Members                                                                 *)

UpdateRole(actor, target, role) ==
    /\ Require(actor, "manage_members")
    /\ member[target] # Nil /\ member[target].role # "owner"
    /\ member' = [member EXCEPT ![target] = [role |-> role, version |-> @.version + 1]]
    /\ UNCHANGED <<trip, invite, joined, accountVars>>

(* The row is deleted; one who joins again gets a new row.                 *)
RemoveMember(actor, target) ==
    /\ Require(actor, "manage_members")
    /\ member[target] # Nil /\ member[target].role # "owner"
    /\ member' = [member EXCEPT ![target] = Nil]
    /\ UNCHANGED <<trip, invite, joined, accountVars>>

-----------------------------------------------------------------------------
(* Invitations                                                             *)

(* CreateInvitation or RevokeInvitation up to the capability check.        *)
AskToInvite(g, u, pc) ==
    /\ Idle(g)
    /\ Require(u, "invite_members")
    /\ call' = [call EXCEPT ![g] = [op |-> "invite", pc |-> pc]]
    /\ UNCHANGED <<account, session, refreshToken, userToken, rosterVars>>

CreateInvitation(g, i, email, role, max) ==
    /\ At(g, "invite")
    /\ i \in Free(invite)
    /\ invite' = [invite EXCEPT ![i] = InsertInvitation(email, role, max)]
    /\ Done(g)
    /\ UNCHANGED <<account, session, refreshToken, userToken, trip, member, joined>>

(* The invitation row a redemption has counted is locked until it commits. *)
RowLocked(i, g) ==
    \E h \in Goroutines \ {g} : call[h] # Nil /\ call[h].pc \in {"member", "add"} /\ call[h].invite = i

RevokeInvitation(g, i) ==
    /\ At(g, "withdraw")
    /\ invite[i] # Nil /\ ~invite[i].revoked
    /\ ~RowLocked(i, g)
    /\ invite' = [invite EXCEPT ![i].revoked = TRUE]
    /\ Done(g)
    /\ UNCHANGED <<account, session, refreshToken, userToken, trip, member, joined>>

(* There was nothing to revoke.                                            *)
RevokeNothing(g) ==
    /\ At(g, "withdraw")
    /\ Done(g)
    /\ UNCHANGED <<account, session, refreshToken, userToken, rosterVars>>

ExpireInvite(i) ==
    /\ invite[i] # Nil /\ ~invite[i].expired
    /\ invite' = [invite EXCEPT ![i].expired = TRUE]
    /\ UNCHANGED <<trip, member, joined, accountVars>>

-----------------------------------------------------------------------------
(* Redemption                                                              *)

(* RedeemInvitation: the invitation is found, and is not for someone else. *)
(* Whether it can still be used is not asked here.                         *)
RedeemInvitation(g, u, i) ==
    /\ Idle(g)
    /\ invite[i] # Nil
    /\ invite[i].email \in {Nil, u}
    /\ call' = [call EXCEPT ![g] = [op |-> "redeem", pc |-> "count", user |-> u, invite |-> i]]
    /\ UNCHANGED <<account, session, refreshToken, userToken, rosterVars>>

IsRedeemable(i) ==
    /\ ~invite[i].revoked /\ ~invite[i].expired
    /\ invite[i].max = Nil \/ invite[i].uses < invite[i].max

(* Mutant: the use is counted without asking whether one is left.          *)
IncrementUseCountUnguarded(g) ==
    /\ At(g, "count")
    /\ ~RowLocked(call[g].invite, g)
    /\ Goto(g, "member")
    /\ UNCHANGED <<account, session, refreshToken, userToken, rosterVars>>

(* The statement that checks the invitation and counts a use; the count is *)
(* visible, and the row free again, when the transaction commits.          *)
IncrementUseCount(g) ==
    /\ At(g, "count")
    /\ ~RowLocked(call[g].invite, g)
    /\ IF IsRedeemable(call[g].invite) THEN Goto(g, "member") ELSE Done(g)
    /\ UNCHANGED <<account, session, refreshToken, userToken, rosterVars>>

(* One who is a member already succeeds and has used up a use; the trip is *)
(* read last, and one that was deleted rolls the transaction back.         *)
GetMembership(g) ==
    LET i == call[g].invite
    IN /\ At(g, "member")
       /\ IF member[call[g].user] = Nil
          THEN Goto(g, "add") /\ UNCHANGED invite
          ELSE /\ Done(g)
               /\ invite' = IF trip.deleted THEN invite ELSE CountUse(i)
       /\ UNCHANGED <<account, session, refreshToken, userToken, trip, member, joined>>

(* The insert, the read of the trip and the commit. Someone who became a   *)
(* member through another invitation meanwhile violates trip_members_uq.   *)
AddMember(g) ==
    LET i == call[g].invite
        u == call[g].user
    IN /\ At(g, "add")
       /\ IF member[u] = Nil /\ ~trip.deleted
          THEN /\ member' = [member EXCEPT ![u] = InsertMember(invite[i].role)]
               /\ invite' = CountUse(i)
               /\ joined' = [joined EXCEPT ![i] = Append(@, u)]
          ELSE UNCHANGED <<member, invite, joined>>
       /\ Done(g)
       /\ UNCHANGED <<account, session, refreshToken, userToken, trip>>

RosterRequest ==
    \/ \E u \in People : TripDelete(u)
    \/ \E actor, target \in People :
          \/ \E role \in AssignableRoles : UpdateRole(actor, target, role)
          \/ RemoveMember(actor, target)
    \/ \E g \in Goroutines, u \in People :
          \/ \E pc \in {"invite", "withdraw"} : AskToInvite(g, u, pc)
          \/ \E i \in Invites : RedeemInvitation(g, u, i)
    \/ \E i \in Invites : ExpireInvite(i)

RosterStep(g) ==
    \/ \E i \in Invites, email \in People \cup {Nil}, role \in AssignableRoles, max \in {Nil, 1} :
          CreateInvitation(g, i, email, role, max)
    \/ \E i \in Invites : RevokeInvitation(g, i)
    \/ RevokeNothing(g)
    \/ IncrementUseCount(g)
    \/ GetMembership(g)
    \/ AddMember(g)

-----------------------------------------------------------------------------
RosterTypeOK ==
    /\ trip \in TripRows \cup {Nil}
    /\ member \in [People -> MemberRows \cup {Nil}]
    /\ invite \in [Invites -> InviteRows \cup {Nil}]
    /\ joined \in [Invites -> Seq(People)]

(***************************************************************************)
(* An invitation lets in no more people than it has uses, and nobody it is *)
(* not addressed to (repository/invitation.go, IncrementUseCount), however *)
(* its redemptions race, fail or repeat; and a trip has one owner          *)
(* throughout (service/membership.go).                                     *)
(***************************************************************************)
InvitationsHonoured ==
    /\ \A i \in Invites :
          invite[i] = Nil \/
             /\ Len(joined[i]) <= invite[i].uses
             /\ (invite[i].max # Nil) => invite[i].uses <= invite[i].max
             /\ (invite[i].email # Nil) => ToSet(joined[i]) \subseteq {invite[i].email}
    /\ (trip # Nil) => Cardinality({u \in People : member[u] # Nil /\ member[u].role = "owner"}) = 1
=============================================================================
