-------------------------------- MODULE Team --------------------------------
(***************************************************************************)
(* The seats of a workspace: invitations are created and revoked by an     *)
(* owner or administrator (team.service.ts) and accepted by whoever holds  *)
(* the link (auth.service.ts acceptInvitation, accept-invitation-form.tsx).*)
(*                                                                         *)
(* Creating an invitation and accepting one are transactions that count    *)
(* first and write later, at PostgreSQL's READ COMMITTED: what another     *)
(* transaction writes in between is not seen by the count.  Only the row   *)
(* of the invitation that is accepted is locked.  The seat limit is        *)
(* written when the workspace is registered and never again; nobody leaves *)
(* a workspace.                                                            *)
(*                                                                         *)
(* Left out: the account that a new member gets, the check of an existing  *)
(* one's password, and the sign-in that follows, with its second factor    *)
(* and its trusted device, which Accounts models.                          *)
(***************************************************************************)
EXTENDS Naturals, FiniteSets

CONSTANTS
    Invitees,       \* addresses outside the workspace
    Roles, NoRole,
    Seats,        \* ProductEntitlement.seatLimit; the owner has one of them
    InviteBound   \* bound: invitations asked for

ASSUME TeamConstants ==
    /\ IsFiniteSet(Invitees) /\ NoRole \notin Roles
    /\ Seats \in Nat \ {0} /\ InviteBound \in Nat

VARIABLES
    role,        \* the role of each member, NoRole for other people
    invitation,  \* the OrganisationInvitation rows and the requests that make them
    joining,     \* the invitations that a request is accepting
    overtaken    \* requests whose count was out of date when they wrote (history)

teamVars == <<role, invitation, joining, overtaken>>

Invitations == 1 .. InviteBound

\* "asked": its request has counted the seats, the row is not there yet.  `current`: nothing was
\* written since the request that creates or accepts it has counted (history).
NoInvitation == [status |-> "none", email |-> NoRole, role |-> NoRole, expired |-> FALSE, current |-> TRUE]

TeamInit ==
    /\ role = [p \in Invitees |-> NoRole]
    /\ invitation = [i \in Invitations |-> NoInvitation]
    /\ joining = {}
    /\ overtaken = [asked |-> 0, joined |-> 0]

Joined == {p \in Invitees : role[p] # NoRole}
MemberCount == 1 + Cardinality(Joined)

With(status) == {i \in Invitations : invitation[i].status = status}
To(p) == {i \in Invitations : invitation[i].email = p}

-----------------------------------------------------------------------------
\* Mutant of SeatsUsed: invitations take no seat before they are accepted.
SeatsOfMembers(p) == MemberCount

\* Members and pending invitations, expired ones too; the one that will be replaced is left out.
SeatsUsed(p) == MemberCount + Cardinality(With("PENDING") \ To(p))

\* The first half of TeamService.createInvitation.
AskInvitation(i, p, r) ==
    /\ invitation[i].status = "none"
    /\ SeatsUsed(p) < Seats /\ role[p] = NoRole
    /\ invitation' = [invitation EXCEPT ![i] =
           [NoInvitation EXCEPT !.status = "asked", !.email = p, !.role = r]]
    /\ UNCHANGED <<role, joining, overtaken>>

\* Every other request under way has counted before this write.
Outdated(i, change) ==
    [j \in Invitations |->
        IF j = i THEN [invitation[j] EXCEPT !.status = change, !.current = TRUE]
        ELSE IF invitation[j].status = "asked" \/ j \in joining
        THEN [invitation[j] EXCEPT !.current = FALSE]
        ELSE invitation[j]]

\* The second half: the address's pending invitations are revoked - one that is being accepted
\* holds this up - and the new row is inserted.
InsertInvitation(i) ==
    LET replaced == With("PENDING") \cap To(invitation[i].email)
    IN  /\ invitation[i].status = "asked"
        /\ replaced \cap joining = {}
        /\ overtaken' = [overtaken EXCEPT !.asked = @ + IF invitation[i].current THEN 0 ELSE 1]
        /\ invitation' = [j \in Invitations |->
               IF j \in replaced THEN [invitation[j] EXCEPT !.status = "REVOKED"]
               ELSE Outdated(i, "PENDING")[j]]
        /\ UNCHANGED <<role, joining>>

\* Mutant of Revocable: an invitation is revoked while it is being accepted.
RevocableAnyTime(i) == invitation[i].status = "PENDING"

\* The UPDATE waits for an acceptance that holds the row, and then finds it no longer pending.
Revocable(i) == invitation[i].status = "PENDING" /\ i \notin joining

RevokeInvitation(i) ==
    /\ Revocable(i)
    /\ invitation' = [invitation EXCEPT ![i].status = "REVOKED"]
    /\ UNCHANGED <<role, joining, overtaken>>

\* Its time passes; the EXPIRED that a later acceptance writes is undone by the refusal.
Expire(i) ==
    /\ invitation[i].status = "PENDING" /\ ~invitation[i].expired
    /\ invitation' = [invitation EXCEPT ![i].expired = TRUE]
    /\ UNCHANGED <<role, joining, overtaken>>

-----------------------------------------------------------------------------
(* Accepting an invitation.                                                *)

\* The row is locked and the members are counted.
CountMembers(i) ==
    /\ invitation[i].status = "PENDING" /\ ~invitation[i].expired /\ i \notin joining
    /\ MemberCount < Seats
    /\ joining' = joining \cup {i}
    /\ invitation' = [invitation EXCEPT ![i].current = TRUE]
    /\ UNCHANGED <<role, overtaken>>

\* A member who accepts another invitation gets its role.
Join(i) ==
    /\ i \in joining
    /\ role' = [role EXCEPT ![invitation[i].email] = invitation[i].role]
    /\ invitation' = Outdated(i, "ACCEPTED")
    /\ joining' = joining \ {i}
    /\ overtaken' = [overtaken EXCEPT !.joined = @ + IF invitation[i].current THEN 0 ELSE 1]

\* The password of an existing account is wrong, or the request dies: the lock goes with it.
GiveUp(i) ==
    /\ i \in joining
    /\ joining' = joining \ {i}
    /\ UNCHANGED <<role, invitation, overtaken>>

-----------------------------------------------------------------------------
InvitationStep(i) ==
    \/ \E p \in Invitees, r \in Roles : AskInvitation(i, p, r)
    \/ InsertInvitation(i) \/ RevokeInvitation(i) \/ Expire(i)
    \/ CountMembers(i) \/ Join(i) \/ GiveUp(i)

TeamNext == \E i \in Invitations : InvitationStep(i)

TeamSpec == TeamInit /\ [][TeamNext]_teamVars

-----------------------------------------------------------------------------
(* Properties.                                                             *)

\* The seats that members have and invitations promise are never more than the limit, except by
\* one for each invitation that was inserted after another request had changed the count; and of
\* these no more members join than there are seats, except by one for each acceptance that
\* another one overtook (team.service.ts createInvitation, auth.service.ts acceptInvitation).
SeatsAreKept ==
    /\ MemberCount + Cardinality({i \in With("PENDING") : role[invitation[i].email] = NoRole})
          <= Seats + overtaken.asked
    /\ MemberCount <= Seats + overtaken.joined

\* A revoked invitation lets nobody in, an accepted one nobody else, whatever was under way when
\* it was revoked or accepted (the FOR UPDATE of acceptInvitation and the status guard of
\* revokeInvitation).
InvitationsEndOnce ==
    [][\A i \in Invitations :
          invitation[i].status \in {"REVOKED", "ACCEPTED"} => invitation'[i] = invitation[i]]_teamVars

\* The seats are kept, and an invitation that was used or revoked is never used again.
TeamIsInvited == []SeatsAreKept /\ InvitationsEndOnce

=============================================================================
