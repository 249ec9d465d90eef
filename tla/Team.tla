--------------------------------- MODULE Team ---------------------------------
(***************************************************************************)
(* Who belongs to a business: sign-up (dashboard-auth.service.ts) and team *)
(* management (settings/team.service.ts).  A person is an e-mail address,  *)
(* which is unique among the users of the dashboard.                       *)
(*                                                                         *)
(* Routes are decided on the claims of an access token, which are those of *)
(* the moment it was signed (jwt-user.strategy.ts): they outlive a change  *)
(* of role and a removal until the token lapses.                           *)
(***************************************************************************)
EXTENDS Integers, FiniteSets

CONSTANTS Person, Business, Invitation,
          TeamCall    \* requests in flight

ASSUME TeamAssumption == Person # {}

VARIABLES
    user,        \* Person -> the User row
    founded,     \* the Employer rows
    invitation,  \* Invitation -> the TeamInvitation row
    claims,      \* Person -> the claims of the access token it holds
    teamCall     \* TeamCall -> what it is doing and what it has seen

teamVars == <<user, founded, invitation, claims, teamCall>>
-----------------------------------------------------------------------------
\* The roles an invitation may carry, and those that sign up by themselves.
Invitable == {"admin", "manager"}

Nowhere == "nowhere"
NoUser == [role |-> "none", of |-> Nowhere]
Resting == [at |-> "idle"]

UserRow == [role : Invitable \union {"none", "owner"}, of : Business \union {Nowhere}]

InvitationRow == [st : {"none", "pending", "expired", "accepted"}, to : Person,
                  of : Business \union {Nowhere}, role : Invitable]

TeamDoing ==
    {Resting}
    \union [at : {"register"}, p : Person, role : Invitable]
    \union [at : {"found"}, p : Person]
    \union [at : {"accept"}, i : Invitation]
    \union [at : {"supersede", "invite"}, p : Person, of : Business]
    \union [at : {"role", "remove"}, p : Person]

TeamTypeOK ==
    /\ user \in [Person -> UserRow]
    /\ founded \subseteq Business
    /\ invitation \in [Invitation -> InvitationRow]
    /\ claims \in [Person -> UserRow]
    /\ teamCall \in [TeamCall -> TeamDoing]

TeamInit ==
    /\ user = [p \in Person |-> NoUser]
    /\ founded = {}
    /\ invitation = [i \in Invitation |->
                       [st |-> "none", to |-> CHOOSE p \in Person : TRUE, of |-> Nowhere,
                        role |-> "manager"]]
    /\ claims = [p \in Person |-> NoUser]
    /\ teamCall = [k \in TeamCall |-> Resting]
-----------------------------------------------------------------------------
TeamBegin(k, what) == teamCall[k] = Resting /\ teamCall' = [teamCall EXCEPT ![k] = what]
TeamReply(k) == teamCall' = [teamCall EXCEPT ![k] = Resting]

Unknown(p) == user[p].role = "none"

\* issueTokens signs what the row says now.
SignedIn(p, row) == claims' = [claims EXCEPT ![p] = row]

(* Sign-up: the address is looked up, the password hashed, the row written. *)

\* register refuses owners, bank staff and workers.
StartRegister(k, p, role) ==
    /\ Unknown(p)
    /\ TeamBegin(k, [at |-> "register", p |-> p, role |-> role])
    /\ UNCHANGED <<user, founded, invitation, claims>>

StartFound(k, p) ==
    /\ Unknown(p)
    /\ TeamBegin(k, [at |-> "found", p |-> p])
    /\ UNCHANGED <<user, founded, invitation, claims>>

\* claimByToken, then the look-up of the address.
ClaimInvitation(k, i) ==
    /\ invitation[i].st = "pending" /\ Unknown(invitation[i].to)
    /\ TeamBegin(k, [at |-> "accept", i |-> i])
    /\ UNCHANGED <<user, founded, invitation, claims>>

CreateUser(p, row) == user' = [user EXCEPT ![p] = row] /\ SignedIn(p, row)

Register(k) ==
    /\ teamCall[k].at = "register" /\ Unknown(teamCall[k].p)
    /\ CreateUser(teamCall[k].p, [role |-> teamCall[k].role, of |-> Nowhere])
    /\ TeamReply(k)
    /\ UNCHANGED <<founded, invitation>>

\* One transaction: the business and its owner.
RegisterBusiness(k, b) ==
    /\ teamCall[k].at = "found" /\ Unknown(teamCall[k].p) /\ b \notin founded
    /\ founded' = founded \union {b}
    /\ CreateUser(teamCall[k].p, [role |-> "owner", of |-> b])
    /\ TeamReply(k)
    /\ UNCHANGED invitation

\* One transaction: the member and the mark on the invitation, which is not read again.
AcceptInvitation(k) ==
    /\ teamCall[k].at = "accept"
    /\ LET i == teamCall[k].i
           p == invitation[i].to IN
       /\ Unknown(p)
       /\ invitation' = [invitation EXCEPT ![i].st = "accepted"]
       /\ CreateUser(p, [role |-> invitation[i].role, of |-> invitation[i].of])
    /\ TeamReply(k)
    /\ UNCHANGED founded

\* The address was taken meanwhile: the column is unique and the write is rolled back.
AddressTaken(k) ==
    /\ \/ teamCall[k].at \in {"register", "found"} /\ ~ Unknown(teamCall[k].p)
       \/ teamCall[k].at = "accept" /\ ~ Unknown(invitation[teamCall[k].i].to)
    /\ TeamReply(k)
    /\ UNCHANGED <<user, founded, invitation, claims>>

\* login and refresh sign the row anew; an access token lapses.
SignIn(p) ==
    /\ ~ Unknown(p)
    /\ SignedIn(p, user[p])
    /\ UNCHANGED <<user, founded, invitation, teamCall>>

ClaimsLapse(p) ==
    /\ SignedIn(p, NoUser)
    /\ UNCHANGED <<user, founded, invitation, teamCall>>
-----------------------------------------------------------------------------
(* Team management, by whoever holds the claims of an owner or an admin. *)
MayManage(q) == claims[q].role \in {"owner", "admin"} /\ claims[q].of # Nowhere

StartInvite(k, q, p) ==
    /\ MayManage(q) /\ Unknown(p)
    /\ TeamBegin(k, [at |-> "supersede", p |-> p, of |-> claims[q].of])
    /\ UNCHANGED <<user, founded, invitation, claims>>

\* A fresh invitation expires the pending ones, in a statement of its own.
Supersede(k) ==
    /\ teamCall[k].at = "supersede"
    /\ invitation' = [i \in Invitation |->
         IF /\ invitation[i].st = "pending"
            /\ invitation[i].to = teamCall[k].p /\ invitation[i].of = teamCall[k].of
         THEN [invitation[i] EXCEPT !.st = "expired"] ELSE invitation[i]]
    /\ teamCall' = [teamCall EXCEPT ![k].at = "invite"]
    /\ UNCHANGED <<user, founded, claims>>

Invite(k, i, role) ==
    /\ teamCall[k].at = "invite" /\ invitation[i].st = "none"
    /\ invitation' = [invitation EXCEPT ![i] =
         [st |-> "pending", to |-> teamCall[k].p, of |-> teamCall[k].of, role |-> role]]
    /\ TeamReply(k)
    /\ UNCHANGED <<user, founded, claims>>

\* revokeInvitation, and the seven days of an invitation.
ExpireInvitation(i) ==
    /\ invitation[i].st = "pending"
    /\ invitation' = [invitation EXCEPT ![i].st = "expired"]
    /\ UNCHANGED <<user, founded, claims, teamCall>>

\* Variant: as if an owner could be removed like anybody else.
ReadAnyMember(k, q, p, what) ==
    /\ MayManage(q) /\ q # p
    /\ user[p].of = claims[q].of
    /\ TeamBegin(k, [at |-> what, p |-> p])
    /\ UNCHANGED <<user, founded, invitation, claims>>

\* The target is read: a member of the business, not oneself, not the owner.
ReadMember(k, q, p, what) ==
    /\ MayManage(q) /\ q # p
    /\ user[p].of = claims[q].of /\ user[p].role # "owner"
    /\ TeamBegin(k, [at |-> what, p |-> p])
    /\ UNCHANGED <<user, founded, invitation, claims>>

UpdateRole(k, role) ==
    /\ teamCall[k].at = "role"
    /\ user' = [user EXCEPT ![teamCall[k].p].role = role]
    /\ TeamReply(k)
    /\ UNCHANGED <<founded, invitation, claims>>

\* Detached, and its refresh tokens revoked (module Sessions); the row stays.
RemoveMember(k) ==
    /\ teamCall[k].at = "remove"
    /\ user' = [user EXCEPT ![teamCall[k].p].of = Nowhere]
    /\ TeamReply(k)
    /\ UNCHANGED <<founded, invitation, claims>>
-----------------------------------------------------------------------------
TeamNext ==
    \/ \E k \in TeamCall :
         \/ \E p \in Person, role \in Invitable : StartRegister(k, p, role)
         \/ \E p \in Person : StartFound(k, p)
         \/ \E i \in Invitation : ClaimInvitation(k, i)
         \/ Register(k) \/ AcceptInvitation(k) \/ AddressTaken(k)
         \/ \E b \in Business : RegisterBusiness(k, b)
         \/ \E q \in Person, p \in Person :
              StartInvite(k, q, p) \/ ReadMember(k, q, p, "role")
              \/ ReadMember(k, q, p, "remove")
         \/ Supersede(k) \/ RemoveMember(k)
         \/ \E i \in Invitation, role \in Invitable : Invite(k, i, role)
         \/ \E role \in Invitable : UpdateRole(k, role)
    \/ \E p \in Person : SignIn(p) \/ ClaimsLapse(p)
    \/ \E i \in Invitation : ExpireInvitation(i)

TeamSpec == TeamInit /\ [][TeamNext]_teamVars
-----------------------------------------------------------------------------
(* A business has one owner at all times, and whoever else belongs to it
   accepted an invitation of it: whatever stale claims somebody acts on, and
   however sign-ups, invitations and removals overlap (dashboard-auth.service.ts:163
   "no orphans", team.service.ts:171 and 204). *)
EveryBusinessOwned ==
    /\ \A b \in founded :
         Cardinality({p \in Person : user[p] = [role |-> "owner", of |-> b]}) = 1
    /\ \A p \in Person :
         user[p].of # Nowhere /\ user[p].role # "owner" =>
           \E i \in Invitation : /\ invitation[i].st = "accepted"
                                 /\ invitation[i].to = p /\ invitation[i].of = user[p].of
=============================================================================
