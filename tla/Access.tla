------------------------------- MODULE Access -------------------------------
(***************************************************************************)
(* What a request may do: the authenticate middleware, permissionGuard with  *)
(* its decisions cached in Redis under permission epochs, and the role       *)
(* service that changes what a role grants.  One organization and one        *)
(* permission code are followed.  A membership transaction (Memberships has  *)
(* its statements and races) is one step here, with the epoch it increments. *)
(***************************************************************************)
EXTENDS Integers, FiniteSets

CONSTANTS
    Users, Callers,   \* callers are guarded requests in flight
    Roles, OrgRoles,  \* roles, and those that belong to the organization
    NoRole,
    Scopes,           \* scopes of the guards: their decisions share no key
    MaxEpoch, MaxOrgEpoch,  \* bounds on the permission epochs
    MaxEntries        \* bound on the decisions Redis keeps, and on those sent

ASSUME AccessAssumption ==
    /\ OrgRoles \subseteq Roles /\ NoRole \notin Roles
    /\ Scopes \subseteq {"global", "organization", "context"}
    /\ MaxEpoch \in Nat \ {0} /\ MaxOrgEpoch \in Nat /\ MaxEntries \in Nat \ {0}

VARIABLES
    alive,       \* users whose account is active
    member,      \* role of each user's active membership
    pinned,      \* users whose session has the organization active
    userEpoch,   \* users.permission_epoch
    grants,      \* per role: does it have the permission
    userRole,    \* UserRole rows: the global roles of each user
    edit,        \* a running updateRolePermissions of a global role
    orgEpoch,    \* organizations.permission_epoch
    cache,       \* decisions in Redis
    writes,      \* SET commands sent and not yet executed
    caller,
    missed       \* history: users whose grants changed under the same epochs
memberVars == <<alive, member, pinned>>
roleVars == <<grants, userRole, edit>>
epochVars == <<userEpoch, orgEpoch, missed>>
tables == <<memberVars, roleVars, epochVars>>
accessVars == <<tables, cache, writes, caller>>

PermissionCacheKey ==
    [scope: Scopes, user: Users, userEpoch: 0..MaxEpoch,
     org: BOOLEAN, orgEpoch: 0..MaxOrgEpoch]
Decision == [key: PermissionCacheKey, allowed: BOOLEAN]
NoEdit == [role |-> NoRole, holders |-> {}]

\* seen: the values the grant had since the request began (history).
Pending == {"membership", "cache", "global", "organization"}
Caller == [step: Pending \cup {"allowed", "denied"},
           key: PermissionCacheKey, seen: SUBSET BOOLEAN]
NoCaller == [step |-> "idle"]

AccessInit ==
    /\ alive = Users /\ pinned = {}
    /\ member = [u \in Users |-> NoRole]
    /\ userEpoch = [u \in Users |-> 0]
    /\ grants = [role \in Roles |-> TRUE]
    /\ userRole = [u \in Users |-> {}]
    /\ edit = NoEdit
    /\ orgEpoch = 0
    /\ cache = {} /\ writes = {}
    /\ caller = [c \in Callers |-> NoCaller]
    /\ missed = {}

HasGlobalGrant(u) == \E role \in userRole[u] : grants[role]
HasOrganizationGrant(u) == member[u] # NoRole /\ grants[member[u]]

Granted(key) ==
    \/ key.scope # "organization" /\ HasGlobalGrant(key.user)
    \/ key.scope # "global" /\ key.org /\ HasOrganizationGrant(key.user)

Waiting(c) == caller[c].step \in Pending

\* Callers that are under way live through every change of the tables.
Observe ==
    caller' = [c \in Callers |->
                 IF Waiting(c)
                 THEN [caller[c] EXCEPT
                          !.seen = @ \cup {Granted(k)' : k \in {caller[c].key}}]
                 ELSE caller[c]]

-----------------------------------------------------------------------------
(* Roles and memberships.                                                   *)

\* The rows of users that a running edit has updated are locked.
Unlocked(u) == u \in alive \ edit.holders

BumpEpoch(u) ==
    /\ Unlocked(u) /\ userEpoch[u] < MaxEpoch
    /\ userEpoch' = [userEpoch EXCEPT ![u] = @ + 1]
    /\ UNCHANGED <<orgEpoch, missed>>

AssignRole(u, role) ==
    /\ role \notin OrgRoles
    /\ userRole' = [userRole EXCEPT ![u] = @ \cup {role}]
    /\ BumpEpoch(u)
    /\ UNCHANGED <<memberVars, grants, edit>>

\* Mutant: the epoch is left alone.
RevokeRoleQuietly(u, role) ==
    /\ role \in userRole[u]
    /\ userRole' = [userRole EXCEPT ![u] = @ \ {role}]
    /\ UNCHANGED <<memberVars, epochVars, grants, edit>>

RevokeRole(u, role) ==
    /\ role \in userRole[u]
    /\ userRole' = [userRole EXCEPT ![u] = @ \ {role}]
    /\ BumpEpoch(u)
    /\ UNCHANGED <<memberVars, grants, edit>>

\* updateRolePermissions of an organization's role moves the organization's epoch,
UpdateOrgRole(role) ==
    /\ role \in OrgRoles /\ orgEpoch < MaxOrgEpoch
    /\ grants' = [grants EXCEPT ![role] = ~@]
    /\ orgEpoch' = orgEpoch + 1
    /\ UNCHANGED <<memberVars, userRole, edit, userEpoch, missed>>

\* of a global role the epochs of the users who hold it in a UserRole row when
\* that statement runs ...
BumpPermissionEpochForRoleHolders(role) ==
    /\ edit = NoEdit /\ role \notin OrgRoles
    /\ edit' = [role |-> role, holders |-> {u \in alive : role \in userRole[u]}]
    /\ UNCHANGED <<memberVars, epochVars, grants, userRole>>

\* ... and the commit makes both visible.  Members in the role, and users it was
\* assigned to meanwhile, keep their epochs.
CommitGlobalRole ==
    /\ edit # NoEdit
    /\ \A u \in edit.holders : userEpoch[u] < MaxEpoch
    /\ grants' = [grants EXCEPT ![edit.role] = ~@]
    /\ userEpoch' = [u \in Users |->
                       userEpoch[u] + (IF u \in edit.holders THEN 1 ELSE 0)]
    /\ missed' = missed \cup {u \in Users \ edit.holders :
                               edit.role \in userRole[u] \cup {member[u]}}
    /\ edit' = NoEdit
    /\ UNCHANGED <<memberVars, userRole, orgEpoch>>

\* createOrganization, acceptInvitation, changeMemberRole.
SetMembership(u, role) ==
    /\ member' = [member EXCEPT ![u] = role]
    /\ BumpEpoch(u)
    /\ UNCHANGED <<alive, pinned, roleVars>>

RemoveMember(u) ==
    /\ member[u] # NoRole
    /\ member' = [member EXCEPT ![u] = NoRole]
    /\ pinned' = pinned \ {u}
    /\ BumpEpoch(u)
    /\ UNCHANGED <<alive, roleVars>>

\* In single mode a login restores a removed membership under the same epoch.
RejoinDefault(u, role) ==
    /\ u \in alive /\ member[u] = NoRole
    /\ member' = [member EXCEPT ![u] = role]
    /\ pinned' = pinned \cup {u}
    /\ missed' = missed \cup {u}
    /\ UNCHANGED <<alive, roleVars, userEpoch, orgEpoch>>

\* switchOrganization, or a login in multi mode: the membership it has read may
\* have ended since.
PinSession(u) ==
    /\ u \in alive
    /\ pinned' = pinned \cup {u}
    /\ UNCHANGED <<alive, member, roleVars, epochVars>>

\* deleteAccount removes memberships and UserRole rows under the same epoch.
DeleteAccount(u) ==
    /\ Unlocked(u)
    /\ alive' = alive \ {u}
    /\ pinned' = pinned \ {u}
    /\ member' = [member EXCEPT ![u] = NoRole]
    /\ userRole' = [userRole EXCEPT ![u] = {}]
    /\ UNCHANGED <<grants, edit, epochVars>>

-----------------------------------------------------------------------------
(* authenticate and permissionGuard.                                        *)

Move(c, step) == caller' = [caller EXCEPT ![c].step = step]

\* The session, with the user's and the organization's epoch.
Authenticate(c, u, scope) ==
    LET key == [scope |-> scope, user |-> u, userEpoch |-> userEpoch[u],
                org |-> u \in pinned,
                orgEpoch |-> IF u \in pinned THEN orgEpoch ELSE 0]
    IN  /\ caller[c] = NoCaller /\ u \in alive
        /\ scope = "organization" => key.org
        /\ caller' = [caller EXCEPT ![c] =
                        [step |-> IF key.org THEN "membership" ELSE "cache",
                         key |-> key, seen |-> {Granted(key)}]]
        /\ UNCHANGED <<tables, cache, writes>>

\* The membership is checked again on every request.
CheckMembership(c) ==
    /\ caller[c].step = "membership"
    /\ IF member[caller[c].key.user] # NoRole
       THEN Move(c, "cache")
       ELSE caller' = [caller EXCEPT ![c] = NoCaller]
    /\ UNCHANGED <<tables, cache, writes>>

CacheHit(c) ==
    /\ caller[c].step = "cache"
    /\ \E d \in cache : /\ d.key = caller[c].key
                        /\ Move(c, IF d.allowed THEN "allowed" ELSE "denied")
    /\ UNCHANGED <<tables, cache, writes>>

\* No entry, or Redis does not answer.
CacheMiss(c) ==
    /\ caller[c].step = "cache"
    /\ Move(c, IF caller[c].key.scope = "organization"
               THEN "organization" ELSE "global")
    /\ UNCHANGED <<tables, cache, writes>>

\* The decision is sent to Redis without waiting; the command may be lost.
Decide(c, allowed) ==
    /\ Move(c, IF allowed THEN "allowed" ELSE "denied")
    /\ \/ /\ Cardinality(writes) < MaxEntries
          /\ writes' = writes \cup {[key |-> caller[c].key, allowed |-> allowed]}
       \/ UNCHANGED writes
    /\ UNCHANGED <<tables, cache>>

QueryGlobalGrant(c) ==
    LET key == caller[c].key
    IN  /\ caller[c].step = "global"
        /\ IF ~HasGlobalGrant(key.user) /\ key.scope # "global" /\ key.org
           THEN Move(c, "organization")
                /\ UNCHANGED <<tables, cache, writes>>
           ELSE Decide(c, HasGlobalGrant(key.user))

QueryOrganizationGrant(c) ==
    /\ caller[c].step = "organization"
    /\ Decide(c, HasOrganizationGrant(caller[c].key.user))

Respond(c) ==
    /\ caller[c].step \in {"allowed", "denied"}
    /\ caller' = [caller EXCEPT ![c] = NoCaller]
    /\ UNCHANGED <<tables, cache, writes>>

\* Redis executes a SET; an entry ends with its 60 seconds or by eviction.
ExecuteSet(d) ==
    LET others == {f \in cache : f.key # d.key}
    IN  /\ d \in writes /\ Cardinality(others) < MaxEntries
        /\ writes' = writes \ {d}
        /\ cache' = others \cup {d}
        /\ UNCHANGED <<tables, caller>>

ExpireEntry(d) ==
    /\ d \in cache
    /\ cache' = cache \ {d}
    /\ UNCHANGED <<tables, writes, caller>>

-----------------------------------------------------------------------------
TableStep ==
    \/ \E u \in Users, role \in Roles :
          \/ AssignRole(u, role) \/ RevokeRole(u, role)
          \/ SetMembership(u, role) \/ RejoinDefault(u, role)
    \/ \E role \in Roles :
          UpdateOrgRole(role) \/ BumpPermissionEpochForRoleHolders(role)
    \/ CommitGlobalRole
    \/ \E u \in Users : RemoveMember(u) \/ PinSession(u) \/ DeleteAccount(u)

CallerStep(c) ==
    \/ \E u \in Users, scope \in Scopes : Authenticate(c, u, scope)
    \/ CheckMembership(c) \/ CacheHit(c) \/ CacheMiss(c)
    \/ QueryGlobalGrant(c) \/ QueryOrganizationGrant(c) \/ Respond(c)

AccessNext ==
    \/ TableStep /\ Observe /\ UNCHANGED <<cache, writes>>
    \/ \E c \in Callers : CallerStep(c)
    \/ \E d \in writes : ExecuteSet(d)
    \/ \E d \in cache : ExpireEntry(d)

AccessSpec == AccessInit /\ [][AccessNext]_accessVars

-----------------------------------------------------------------------------
\* The tables, Redis and the callers keep their types.
AccessTypeOK ==
    /\ alive \subseteq Users /\ pinned \subseteq alive
    /\ member \in [Users -> Roles \cup {NoRole}]
    /\ userEpoch \in [Users -> 0..MaxEpoch] /\ orgEpoch \in 0..MaxOrgEpoch
    /\ grants \in [Roles -> BOOLEAN]
    /\ userRole \in [Users -> SUBSET (Roles \ OrgRoles)]
    /\ cache \subseteq Decision /\ writes \subseteq Decision
    /\ \A c \in Callers : caller[c] \in Caller \cup {NoCaller}
    /\ missed \subseteq Users

\* No cached decision outlives the change of a role, a membership or a permission
\* set: what a request is allowed was granted at some moment of that request,
\* unless the user's grants changed under the same epochs.
AllowedWasGranted ==
    \A c \in Callers :
        caller[c].step = "allowed" /\ caller[c].key.user \notin missed =>
            TRUE \in caller[c].seen

\* The invariant of the permission guard: types, and no decision that was not
\* granted during the request, through every race of queries, epochs and SETs.
AccessInv == AccessTypeOK /\ AllowedWasGranted

=============================================================================
