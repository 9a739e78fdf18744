---------------------------- MODULE Memberships ----------------------------
(***************************************************************************)
(* One organization, its members, its invitations and the sessions pinned   *)
(* to it.  Requests interleave between the statements of their              *)
(* transactions; the advisory lock "organization-owners" serializes the     *)
(* operations that take it, and acceptInvitation does not.  The permission   *)
(* epochs that the same transactions increment are state of Access.         *)
(***************************************************************************)
EXTENDS Integers, FiniteSets

CONSTANTS
    Users, Requests, Invitations, Roles,
    NoRequest, NoUser,
    NoRole            \* a membership or an invitation that does not exist

ASSUME MembershipAssumption ==
    /\ {"owner", "member"} \subseteq Roles /\ NoRole \notin Roles
    /\ NoRequest \notin Requests /\ NoUser \notin Users
    /\ IsFiniteSet(Users)

VARIABLES
    tenancy,       \* TENANCY_MODE of the deployment
    created,       \* the organization exists
    alive,         \* users whose account is not deleted
    member,        \* memberships; a removed one keeps its role
    invitation,
    pinned,        \* users whose session has the organization active
    ownerLock,     \* holder of the advisory lock
    request,
    lapsed         \* history: an acceptance demoted an owner, or an account
                   \* that became an owner while it was being deleted went
tables == <<tenancy, created, alive, member, invitation, pinned>>
vars == <<tables, ownerLock, request, lapsed>>

Membership == [role: Roles \cup {NoRole}, active: BOOLEAN]
Invitation == [user: Users \cup {NoUser}, role: Roles \cup {NoRole},
               open: BOOLEAN]
Request == [step: {"idle", "apply", "join", "pin", "count", "erase"},
            user: Users \cup {NoUser},
            role: Roles \cup {NoRole},
            via: Invitations \cup {NoRequest},
            wasOwner: BOOLEAN]
Idle == [step |-> "idle", user |-> NoUser, role |-> NoRole,
         via |-> NoRequest, wasOwner |-> FALSE]

Init ==
    /\ tenancy \in {"single", "multi"}
    /\ created = FALSE
    /\ alive = Users
    /\ member = [u \in Users |-> [role |-> NoRole, active |-> FALSE]]
    /\ invitation = [i \in Invitations |->
                       [user |-> NoUser, role |-> NoRole, open |-> FALSE]]
    /\ pinned = {}
    /\ ownerLock = NoRequest
    /\ request = [r \in Requests |-> Idle]
    /\ lapsed = FALSE

At(r, step) == request[r].step = step
Start(r, values) == request' = [request EXCEPT ![r] = values]
End(r) == request' = [request EXCEPT ![r] = Idle]
Release(r) == ownerLock' = IF ownerLock = r THEN NoRequest ELSE ownerLock

Owner(u) == member[u].active /\ member[u].role = "owner"
CountActiveOwners == Cardinality({u \in Users : Owner(u)})

-----------------------------------------------------------------------------
CreateOrganization(u) ==
    /\ tenancy = "multi" /\ ~created /\ u \in alive
    /\ created' = TRUE
    /\ member' = [member EXCEPT ![u] = [role |-> "owner", active |-> TRUE]]
    /\ UNCHANGED <<tenancy, alive, invitation, pinned, ownerLock, request, lapsed>>

\* Mutant: the operations that change owners do not exclude each other.
BeginUnlocked(r, u, role) ==
    /\ At(r, "idle") /\ member[u].active
    /\ Owner(u) /\ role # "owner" => CountActiveOwners > 1
    /\ Start(r, [Idle EXCEPT !.step = "apply", !.user = u, !.role = role])
    /\ UNCHANGED <<tables, ownerLock, lapsed>>

\* changeMemberRole (to a role) and removeMember (to NoRole) take the lock,
\* read the target and refuse to lose the last owner.
BeginMemberChange(r, u, role) ==
    /\ At(r, "idle") /\ ownerLock = NoRequest
    /\ member[u].active
    /\ Owner(u) /\ role # "owner" => CountActiveOwners > 1
    /\ ownerLock' = r
    /\ Start(r, [Idle EXCEPT !.step = "apply", !.user = u, !.role = role])
    /\ UNCHANGED <<tables, lapsed>>

ChangeMemberRole(r) ==
    LET u == request[r].user
    IN  /\ At(r, "apply") /\ request[r].role # NoRole
        /\ member[u].active
        /\ member' = [member EXCEPT ![u].role = request[r].role]
        /\ Release(r) /\ End(r)
        /\ UNCHANGED <<tenancy, created, alive, invitation, pinned, lapsed>>

\* The sessions pinned to the organization stop resolving it.
RemoveMember(r) ==
    LET u == request[r].user
    IN  /\ At(r, "apply") /\ request[r].role = NoRole
        /\ member[u].active
        /\ member' = [member EXCEPT ![u].active = FALSE]
        /\ pinned' = pinned \ {u}
        /\ Release(r) /\ End(r)
        /\ UNCHANGED <<tenancy, created, alive, invitation, lapsed>>

\* The target went with its account meanwhile: the transaction is rolled back.
MemberChangeFails(r) ==
    /\ At(r, "apply") /\ ~member[request[r].user].active
    /\ Release(r) /\ End(r)
    /\ UNCHANGED <<tables, lapsed>>

-----------------------------------------------------------------------------
\* The role is one that is assignable in the organization.
CreateInvitation(i, u, role) ==
    /\ created /\ invitation[i].user = NoUser
    /\ invitation' = [invitation EXCEPT
                        ![i] = [user |-> u, role |-> role, open |-> TRUE]]
    /\ UNCHANGED <<tenancy, created, alive, member, pinned, ownerLock, request, lapsed>>

\* revokeInvitation, or expiresAt passes.
CloseInvitation(i) ==
    /\ invitation[i].open
    /\ invitation' = [invitation EXCEPT ![i].open = FALSE]
    /\ UNCHANGED <<tenancy, created, alive, member, pinned, ownerLock, request, lapsed>>

\* The retention job deletes an invitation long after it was accepted, revoked
\* or expired; no request is that old.
PurgeInvitation(i) ==
    /\ invitation[i].user # NoUser /\ ~invitation[i].open
    /\ \A r \in Requests : request[r].via # i
    /\ invitation' = [invitation EXCEPT
                        ![i] = [user |-> NoUser, role |-> NoRole, open |-> FALSE]]
    /\ UNCHANGED <<tenancy, created, alive, member, pinned, ownerLock, request, lapsed>>

\* acceptInvitation finds the invitation open and checks the user's email ...
ReadInvitation(r, i) ==
    /\ At(r, "idle")
    /\ invitation[i].open /\ invitation[i].user \in alive
    /\ Start(r, [Idle EXCEPT !.step = "join", !.user = invitation[i].user,
                             !.role = invitation[i].role, !.via = i])
    /\ UNCHANGED <<tables, ownerLock, lapsed>>

\* ... then upserts the membership and marks the invitation accepted without
\* looking at either again.
AcceptInvitation(r) ==
    LET u == request[r].user
        role == request[r].role
    IN  /\ At(r, "join") /\ u \in alive
        /\ member' = [member EXCEPT ![u] = [role |-> role, active |-> TRUE]]
        /\ invitation' = [invitation EXCEPT ![request[r].via].open = FALSE]
        /\ lapsed' = (lapsed \/ (Owner(u) /\ role # "owner"))
        /\ End(r)
        /\ UNCHANGED <<tenancy, created, alive, pinned, ownerLock>>

-----------------------------------------------------------------------------
\* createSession in single mode: resolveInitialOrganizationId joins the user to
\* the default organization, again when they were removed, in the role they had.
JoinDefaultOrganization(u) ==
    /\ tenancy = "single" /\ u \in alive
    /\ created' = TRUE
    /\ member' = [member EXCEPT
                    ![u].role = IF @ = NoRole THEN "member" ELSE @,
                    ![u].active = TRUE]
    /\ pinned' = pinned \cup {u}
    /\ UNCHANGED <<tenancy, alive, invitation, ownerLock, request, lapsed>>

\* switchOrganization proves active membership before it rewrites the session;
\* in multi mode resolveInitialOrganizationId reads it before a login's session
\* is inserted.
ReadMembership(r, u) ==
    /\ At(r, "idle") /\ u \in alive /\ member[u].active
    /\ Start(r, [Idle EXCEPT !.step = "pin", !.user = u])
    /\ UNCHANGED <<tables, ownerLock, lapsed>>

PinSession(r) ==
    /\ At(r, "pin") /\ request[r].user \in alive
    /\ pinned' = pinned \cup {request[r].user}
    /\ End(r)
    /\ UNCHANGED <<tenancy, created, alive, member, invitation, ownerLock, lapsed>>

-----------------------------------------------------------------------------
\* deleteAccount reads which organizations the account owns without the lock,
BeginDeleteAccount(r, u) ==
    /\ At(r, "idle") /\ u \in alive
    /\ Start(r, [Idle EXCEPT !.user = u, !.wasOwner = Owner(u),
                             !.step = IF Owner(u) THEN "count" ELSE "erase"])
    /\ UNCHANGED <<tables, ownerLock, lapsed>>

\* takes the lock of each and counts the owners,
CountOwners(r) ==
    /\ At(r, "count") /\ ownerLock = NoRequest
    /\ IF CountActiveOwners > 1
       THEN ownerLock' = r /\ request' = [request EXCEPT ![r].step = "erase"]
       ELSE End(r) /\ UNCHANGED ownerLock
    /\ UNCHANGED <<tables, lapsed>>

\* and suspends every membership with the account.
EraseMemberships(r) ==
    LET u == request[r].user
    IN  /\ At(r, "erase") /\ u \in alive
        /\ alive' = alive \ {u}
        /\ member' = [member EXCEPT ![u].active = FALSE]
        /\ pinned' = pinned \ {u}
        /\ lapsed' = (lapsed \/ (Owner(u) /\ ~request[r].wasOwner))
        /\ Release(r) /\ End(r)
        /\ UNCHANGED <<tenancy, created, invitation>>

\* An update of a deleted user throws, and the transaction is rolled back.
AccountGone(r) ==
    /\ request[r].step \in {"join", "pin", "erase"}
    /\ request[r].user \notin alive
    /\ Release(r) /\ End(r)
    /\ UNCHANGED <<tables, lapsed>>

-----------------------------------------------------------------------------
RequestStep(r) ==
    \/ \E u \in Users, role \in Roles \cup {NoRole} : BeginMemberChange(r, u, role)
    \/ ChangeMemberRole(r) \/ RemoveMember(r) \/ MemberChangeFails(r)
    \/ \E i \in Invitations : ReadInvitation(r, i)
    \/ AcceptInvitation(r)
    \/ \E u \in Users :
          ReadMembership(r, u) \/ BeginDeleteAccount(r, u)
    \/ PinSession(r) \/ CountOwners(r) \/ EraseMemberships(r) \/ AccountGone(r)

Next ==
    \/ \E u \in Users : CreateOrganization(u) \/ JoinDefaultOrganization(u)
    \/ \E i \in Invitations, u \in Users, role \in Roles :
          CreateInvitation(i, u, role)
    \/ \E i \in Invitations : CloseInvitation(i) \/ PurgeInvitation(i)
    \/ \E r \in Requests : RequestStep(r)

Spec == Init /\ [][Next]_vars

-----------------------------------------------------------------------------
\* Tables, the lock and the requests keep their types.
TypeOK ==
    /\ tenancy \in {"single", "multi"} /\ created \in BOOLEAN
    /\ alive \subseteq Users
    /\ member \in [Users -> Membership]
    /\ invitation \in [Invitations -> Invitation]
    /\ pinned \subseteq Users
    /\ ownerLock \in Requests \cup {NoRequest}
    /\ request \in [Requests -> Request]
    /\ lapsed \in BOOLEAN

\* "An organization must keep at least one active owner", through concurrent
\* removals, role changes and account deletions.
OwnerKept ==
    created /\ tenancy = "multi" /\ ~lapsed => \E u \in Users : Owner(u)

\* The invariant of the organization: its tables are well formed and it keeps an
\* active owner, whatever removals, role changes and deletions run at once.
MembershipInv == TypeOK /\ OwnerKept

=============================================================================
