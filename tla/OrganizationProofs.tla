------------------------- MODULE OrganizationProofs -------------------------
(***************************************************************************)
(* Theorems about what the people of an organization share: Memberships, for *)
(* any number of users, requests and invitations, and Chat, for any number of *)
(* users, conversations, messages, sockets and service calls.                *)
(*                                                                          *)
(* OwnerKept is not inductive: a request that removes or demotes an owner      *)
(* counted the owners before.  It holds the advisory lock until it writes, and *)
(* meanwhile there is an owner beside its target, whatever the requests do      *)
(* that take no lock (RequestSafe).                                          *)
(*                                                                          *)
(* Nor is DenseSequence, which speaks of cardinalities: the statement that     *)
(* inserts a message adds the number after the last one, and what it keeps is   *)
(* that numbers and ids tell messages apart (NumbersOK).  A pair gets one       *)
(* answer because the rows have one key each (KeysOK).                           *)
(***************************************************************************)
EXTENDS Memberships, Chat, FiniteSetTheorems, FunctionTheorems, TLAPS

-----------------------------------------------------------------------------
(* Members of an organization.                                              *)

\* Requests that will take an owner away.
Risky(q) == \/ q.step = "apply" /\ q.role # "owner"
            \/ q.step = "erase" /\ q.wasOwner

\* What a request knows of itself,
RequestShape(q) ==
    /\ q.step # "idle" => q.user \in Users
    /\ q.step = "join" => q.via \in Invitations

\* and of the organization.
RequestSafe(r) ==
    LET q == request[r]
    IN  /\ q.step = "apply" \/ (q.step = "erase" /\ q.wasOwner) => ownerLock = r
        /\ Risky(q) /\ tenancy = "multi" /\ ~lapsed => \E v \in Users \ {q.user} : Owner(v)
        /\ ~created /\ tenancy = "multi" =>
              q.step \notin {"apply", "join", "count"} /\ ~q.wasOwner

\* Before it is created the organization has nobody.
NobodyYet ==
    ~created /\ tenancy = "multi" => /\ \A u \in Users : ~member[u].active
                                     /\ \A i \in Invitations : ~invitation[i].open

OwnersInv ==
    /\ TypeOK /\ OwnerKept /\ NobodyYet
    /\ \A r \in Requests : RequestShape(request[r]) /\ RequestSafe(r)

-----------------------------------------------------------------------------
(* Owners.                                                                  *)

\* With more than one owner there is one beside any user.
LEMMA AnotherOwner ==
    ASSUME CountActiveOwners > 1, NEW u
    PROVE  \E v \in Users \ {u} : Owner(v)
<1> DEFINE S == {v \in Users : Owner(v)}
<1>1. IsFiniteSet(S) /\ Cardinality(S) \in Nat /\ Cardinality(S) > 1
  <2>1. IsFiniteSet(S)
    BY MembershipAssumption, FS_Subset
  <2> QED
    BY <2>1, FS_CardinalityType DEF CountActiveOwners
<1>2. S \ {u} # {}
  <2>1. SUFFICES ASSUME S \ {u} = {} PROVE FALSE
    OBVIOUS
  <2>2. S = {} \/ S = {u}
    BY <2>1
  <2> QED
    BY <1>1, <2>2, FS_EmptySet, FS_Singleton
<1> QED
  BY <1>2

\* A step after which the owners are still there, or whose loss is recorded.
OwnersStay ==
    /\ tenancy' = tenancy /\ created' = created
    /\ lapsed => lapsed'
    /\ lapsed' \/ \A v \in Users : Owner(v) => Owner(v)'

\* A request that does not move stays safe, while its lock is not taken away.
LEMMA OthersSafe ==
    ASSUME OwnersInv, OwnersStay, NEW q \in Requests, request'[q] = request[q],
           ownerLock = q => ownerLock' = q
    PROVE  RequestShape(request'[q]) /\ RequestSafe(q)'
<1>1. RequestShape(request[q]) /\ RequestSafe(q)
  BY DEF OwnersInv
<1>2. (\E v \in Users \ {request[q].user} : Owner(v)) /\ ~lapsed'
         => \E v \in Users \ {request[q].user} : Owner(v)'
  BY DEF OwnersStay
<1> QED
  BY <1>1, <1>2 DEF RequestSafe, OwnersStay, Risky

\* One request moves.
LEMMA ActorMoves ==
    ASSUME OwnersInv, OwnersStay, NEW r \in Requests, NEW v \in Request,
           request' = [request EXCEPT ![r] = v], RequestShape(v),
           request'[r] = v => RequestSafe(r)',
           \A q \in Requests \ {r} : ownerLock = q => ownerLock' = q
    PROVE  /\ request' \in [Requests -> Request]
           /\ \A q \in Requests : RequestShape(request'[q]) /\ RequestSafe(q)'
<1>1. request \in [Requests -> Request]
  BY DEF OwnersInv, TypeOK
<1>2. /\ request' \in [Requests -> Request] /\ request'[r] = v
      /\ \A q \in Requests \ {r} : request'[q] = request[q]
  BY <1>1
<1>3. ASSUME NEW q \in Requests PROVE RequestShape(request'[q]) /\ RequestSafe(q)'
  <2>1. CASE q = r
    BY <1>2, <2>1
  <2>2. CASE q # r
    BY <1>2, <2>2, OthersSafe
  <2> QED
    BY <2>1, <2>2
<1> QED
  BY <1>2, <1>3

\* A request ends, and lets the lock go if it has it.
LEMMA EndMoves ==
    ASSUME OwnersInv, OwnersStay, NEW r \in Requests, End(r), Release(r) \/ UNCHANGED ownerLock
    PROVE  /\ request' \in [Requests -> Request] /\ ownerLock' \in Requests \cup {NoRequest}
           /\ \A q \in Requests : RequestShape(request'[q]) /\ RequestSafe(q)'
<1>1. Idle \in Request /\ Idle.step = "idle" /\ Idle.wasOwner = FALSE
  BY DEF Idle, Request
<1>2. ownerLock \in Requests \cup {NoRequest} /\ NoRequest \notin Requests
  BY MembershipAssumption DEF OwnersInv, TypeOK
<1>3. /\ ownerLock' \in Requests \cup {NoRequest}
      /\ \A q \in Requests \ {r} : ownerLock = q => ownerLock' = q
  BY <1>2 DEF Release
<1>4. RequestShape(Idle) /\ (request'[r] = Idle => RequestSafe(r)')
  BY <1>1 DEF RequestShape, RequestSafe, Risky
<1> QED
  BY <1>1, <1>3, <1>4, ActorMoves DEF End

\* A request starts or goes on without the lock, to a step that needs none.
LEMMA PlainMoves ==
    ASSUME OwnersInv, OwnersStay, NEW r \in Requests, NEW v \in Request,
           request' = [request EXCEPT ![r] = v], RequestShape(v),
           v.step \in {"join", "pin", "count", "erase"}, v.step = "erase" => ~v.wasOwner,
           ~created /\ tenancy = "multi" => v.step \notin {"join", "count"} /\ ~v.wasOwner,
           UNCHANGED ownerLock
    PROVE  /\ request' \in [Requests -> Request]
           /\ \A q \in Requests : RequestShape(request'[q]) /\ RequestSafe(q)'
<1>1. request'[r] = v => RequestSafe(r)'
  BY DEF RequestSafe, Risky, OwnersStay
<1> QED
  BY <1>1, ActorMoves

-----------------------------------------------------------------------------
(* Steps that leave the tables alone.                                       *)

\* Then it is enough to look at the requests.
LEMMA TablesSame ==
    ASSUME OwnersInv, UNCHANGED <<tables, lapsed>>
    PROVE  /\ OwnersStay
           /\ /\ request' \in [Requests -> Request] /\ ownerLock' \in Requests \cup {NoRequest}
              /\ \A q \in Requests : RequestShape(request'[q]) /\ RequestSafe(q)'
              => OwnersInv'
<1>1. UNCHANGED <<tenancy, created, alive, member, invitation, pinned, lapsed>>
  BY DEF tables
<1>2. OwnersStay /\ OwnerKept' /\ NobodyYet'
  BY <1>1 DEF OwnersStay, OwnersInv, OwnerKept, NobodyYet, Owner
<1> QED
  BY <1>1, <1>2 DEF OwnersInv, TypeOK

\* The target is read under the lock.
LEMMA BeginKeeps ==
    ASSUME OwnersInv, NEW r \in Requests, NEW u \in Users, NEW role \in Roles \cup {NoRole},
           BeginMemberChange(r, u, role)
    PROVE  OwnersInv'
<1> DEFINE v == [Idle EXCEPT !.step = "apply", !.user = u, !.role = role]
<1>1. /\ ownerLock = NoRequest /\ ownerLock' = r /\ member[u].active
      /\ Owner(u) /\ role # "owner" => CountActiveOwners > 1
      /\ request' = [request EXCEPT ![r] = v] /\ UNCHANGED <<tables, lapsed>>
  BY DEF BeginMemberChange, Start
<1>2. /\ v \in Request /\ v.step = "apply" /\ v.user = u /\ v.role = role
      /\ v.wasOwner = FALSE
  BY DEF Idle, Request
<1> HIDE DEF v
<1>3. UNCHANGED <<tenancy, created, member>>
  BY <1>1 DEF tables
<1>4. created \/ tenancy # "multi"
  BY <1>1 DEF OwnersInv, NobodyYet
<1>5. role # "owner" /\ tenancy = "multi" /\ ~lapsed => \E w \in Users \ {u} : Owner(w)
  <2>1. CASE Owner(u)
    BY <1>1, <2>1, AnotherOwner
  <2>2. CASE ~Owner(u)
    BY <1>4, <2>2 DEF OwnersInv, OwnerKept
  <2> QED
    BY <2>1, <2>2
<1>6. (\E w \in Users \ {u} : Owner(w)) => \E w \in Users \ {u} : Owner(w)'
  BY <1>3 DEF Owner
<1>7. request'[r] = v => RequestSafe(r)'
  BY <1>1, <1>2, <1>3, <1>4, <1>5, <1>6 DEF RequestSafe, Risky
<1>8. RequestShape(v)
  BY <1>2 DEF RequestShape
<1>9. \A q \in Requests \ {r} : ownerLock # q
  BY <1>1, MembershipAssumption
<1> QED
  BY <1>1, <1>2, <1>7, <1>8, <1>9, TablesSame, ActorMoves

\* The owners are counted under the lock.
LEMMA CountKeeps ==
    ASSUME OwnersInv, NEW r \in Requests, CountOwners(r)
    PROVE  OwnersInv'
<1>1. /\ request[r].step = "count" /\ ownerLock = NoRequest /\ UNCHANGED <<tables, lapsed>>
      /\ request \in [Requests -> Request] /\ RequestShape(request[r]) /\ RequestSafe(r)
  BY DEF CountOwners, At, OwnersInv, TypeOK
<1>2. CASE /\ CountActiveOwners > 1 /\ ownerLock' = r
           /\ request' = [request EXCEPT ![r].step = "erase"]
  <2> DEFINE v == [request[r] EXCEPT !.step = "erase"]
  <2>1. request' = [request EXCEPT ![r] = v]
    BY <1>1, <1>2
  <2>2. /\ v \in Request /\ v.step = "erase" /\ v.user = request[r].user
        /\ v.wasOwner = request[r].wasOwner /\ v.user \in Users
    BY <1>1 DEF Request, RequestShape
  <2> HIDE DEF v
  <2>3. UNCHANGED <<tenancy, created, member>>
    BY <1>1 DEF tables
  <2>4. \E w \in Users \ {v.user} : Owner(w)
    BY <1>2, AnotherOwner
  <2>5. \E w \in Users \ {v.user} : Owner(w)'
    BY <2>3, <2>4 DEF Owner
  <2>6. created \/ tenancy # "multi"
    BY <1>1 DEF RequestSafe
  <2>7. request'[r] = v => RequestSafe(r)'
    BY <1>2, <2>2, <2>3, <2>5, <2>6 DEF RequestSafe, Risky
  <2>8. RequestShape(v)
    BY <2>2 DEF RequestShape
  <2>9. \A q \in Requests \ {r} : ownerLock # q
    BY <1>1, MembershipAssumption
  <2> QED
    BY <1>1, <1>2, <2>1, <2>2, <2>7, <2>8, <2>9, TablesSame, ActorMoves
<1>3. CASE End(r) /\ UNCHANGED ownerLock
  BY <1>1, <1>3, TablesSame, EndMoves
<1> QED
  BY <1>2, <1>3 DEF CountOwners

\* Requests that read, and requests that find their target gone.
LEMMA ReadsKeep ==
    ASSUME OwnersInv, NEW r \in Requests
    PROVE  /\ \A i \in Invitations : ReadInvitation(r, i) => OwnersInv'
           /\ \A u \in Users : ReadMembership(r, u) => OwnersInv'
           /\ \A u \in Users : BeginDeleteAccount(r, u) => OwnersInv'
           /\ MemberChangeFails(r) => OwnersInv'
           /\ AccountGone(r) => OwnersInv'
<1>1. /\ alive \subseteq Users /\ invitation \in [Invitations -> Invitation] /\ NobodyYet
      /\ ownerLock \in Requests \cup {NoRequest}
  BY DEF OwnersInv, TypeOK
<1>2. ASSUME NEW i \in Invitations, ReadInvitation(r, i) PROVE OwnersInv'
  <2> DEFINE v == [Idle EXCEPT !.step = "join", !.user = invitation[i].user,
                               !.role = invitation[i].role, !.via = i]
  <2>1. /\ invitation[i].open /\ invitation[i].user \in alive
        /\ request' = [request EXCEPT ![r] = v] /\ UNCHANGED <<tables, ownerLock, lapsed>>
    BY <1>2 DEF ReadInvitation, Start
  <2>2. /\ v \in Request /\ v.step = "join" /\ v.user \in Users /\ v.via \in Invitations
        /\ v.wasOwner = FALSE
    BY <1>1, <2>1 DEF Idle, Request, Invitation
  <2> HIDE DEF v
  <2>3. created \/ tenancy # "multi"
    BY <1>1, <2>1 DEF NobodyYet
  <2>4. RequestShape(v)
    BY <2>2 DEF RequestShape
  <2> QED
    BY <1>1, <2>1, <2>2, <2>3, <2>4, TablesSame, PlainMoves
<1>3. ASSUME NEW u \in Users, ReadMembership(r, u) PROVE OwnersInv'
  <2> DEFINE v == [Idle EXCEPT !.step = "pin", !.user = u]
  <2>1. request' = [request EXCEPT ![r] = v] /\ UNCHANGED <<tables, ownerLock, lapsed>>
    BY <1>3 DEF ReadMembership, Start
  <2>2. v \in Request /\ v.step = "pin" /\ v.user = u /\ v.wasOwner = FALSE
    BY DEF Idle, Request
  <2> HIDE DEF v
  <2>3. RequestShape(v)
    BY <2>2 DEF RequestShape
  <2> QED
    BY <1>1, <2>1, <2>2, <2>3, TablesSame, PlainMoves
<1>4. ASSUME NEW u \in Users, BeginDeleteAccount(r, u) PROVE OwnersInv'
  <2> DEFINE o == Owner(u)
             s == IF o THEN "count" ELSE "erase"
             v == [Idle EXCEPT !.user = u, !.wasOwner = o, !.step = s]
  <2>1. request' = [request EXCEPT ![r] = v] /\ UNCHANGED <<tables, ownerLock, lapsed>>
    BY <1>4 DEF BeginDeleteAccount, Start
  <2>2. o \in BOOLEAN /\ s \in {"count", "erase"} /\ (s = "count" <=> o)
    BY DEF Owner, OwnersInv, TypeOK, Membership
  <2>3. o => created \/ tenancy # "multi"
    BY <1>1 DEF NobodyYet, Owner
  <2> HIDE DEF o, s
  <2>4. v \in Request /\ v.step = s /\ v.user = u /\ v.wasOwner = o
    BY <2>2 DEF Idle, Request
  <2> HIDE DEF v
  <2>5. RequestShape(v)
    BY <2>2, <2>4 DEF RequestShape
  <2> QED
    BY <1>1, <2>1, <2>2, <2>3, <2>4, <2>5, TablesSame, PlainMoves
<1>5. ASSUME MemberChangeFails(r) \/ AccountGone(r) PROVE OwnersInv'
  <2>1. Release(r) /\ End(r) /\ UNCHANGED <<tables, lapsed>>
    BY <1>5 DEF MemberChangeFails, AccountGone
  <2> QED
    BY <2>1, TablesSame, EndMoves
<1> QED
  BY <1>2, <1>3, <1>4, <1>5


-----------------------------------------------------------------------------
(* Steps that write.                                                        *)

\* While a request has the lock no other one is about to take an owner away:
\* the tables may lose one.
LEMMA LockedEnd ==
    ASSUME OwnersInv, NEW r \in Requests, ownerLock = r, End(r), Release(r),
           UNCHANGED <<tenancy, created>>
    PROVE  /\ request' \in [Requests -> Request] /\ ownerLock' = NoRequest
           /\ \A q \in Requests : RequestShape(request'[q]) /\ RequestSafe(q)'
<1>1. Idle \in Request /\ Idle.step = "idle" /\ Idle.wasOwner = FALSE
  BY DEF Idle, Request
<1>2. request \in [Requests -> Request] /\ request' = [request EXCEPT ![r] = Idle]
  BY DEF OwnersInv, TypeOK, End
<1>3. /\ request' \in [Requests -> Request] /\ request'[r] = Idle
      /\ \A q \in Requests \ {r} : request'[q] = request[q]
  BY <1>1, <1>2
<1>4. ASSUME NEW q \in Requests PROVE RequestShape(request'[q]) /\ RequestSafe(q)'
  <2>1. CASE q = r
    BY <1>1, <1>3, <2>1 DEF RequestShape, RequestSafe, Risky
  <2>2. CASE q # r
    <3>1. request'[q] = request[q] /\ RequestShape(request[q]) /\ RequestSafe(q) /\ ownerLock # q
      BY <1>3, <2>2 DEF OwnersInv
    <3> QED
      BY <3>1 DEF RequestSafe, Risky
  <2> QED
    BY <2>1, <2>2
<1> QED
  BY <1>3, <1>4 DEF Release

\* Rows of members.
LEMMA MemberFacts ==
    ASSUME OwnersInv, NEW u \in Users, NEW m \in Membership,
           member' = [member EXCEPT ![u] = m]
    PROVE  /\ member' \in [Users -> Membership]
           /\ \A v \in Users \ {u} : Owner(v)' <=> Owner(v)
           /\ Owner(u)' <=> m.active /\ m.role = "owner"
<1>1. member \in [Users -> Membership]
  BY DEF OwnersInv, TypeOK
<1>2. /\ member' \in [Users -> Membership] /\ member'[u] = m
      /\ \A v \in Users \ {u} : member'[v] = member[v]
  BY <1>1
<1> QED
  BY <1>2 DEF Owner

\* Roles are changed and members removed under the lock.
LEMMA ChangesKeep ==
    ASSUME OwnersInv, NEW r \in Requests
    PROVE  /\ ChangeMemberRole(r) => OwnersInv'
           /\ RemoveMember(r) => OwnersInv'
<1> DEFINE u == request[r].user
<1>1. /\ member \in [Users -> Membership] /\ request[r] \in Request
      /\ RequestShape(request[r]) /\ RequestSafe(r) /\ pinned \subseteq Users
  BY DEF OwnersInv, TypeOK
<1>2. ASSUME ChangeMemberRole(r) PROVE OwnersInv'
  <2> DEFINE m == [member[u] EXCEPT !.role = request[r].role]
  <2>1. /\ request[r].step = "apply" /\ member[u].active
        /\ member' = [member EXCEPT ![u].role = request[r].role]
        /\ Release(r) /\ End(r) /\ UNCHANGED <<tenancy, created, alive, invitation, pinned, lapsed>>
    BY <1>2 DEF ChangeMemberRole, At
  <2>2. u \in Users /\ ownerLock = r /\ (created \/ tenancy # "multi")
    BY <1>1, <2>1 DEF RequestShape, RequestSafe
  <2>3. member' = [member EXCEPT ![u] = m] /\ m \in Membership /\ m.active = member[u].active
        /\ m.role = request[r].role
    BY <1>1, <2>1, <2>2 DEF Membership, Request
  <2> HIDE DEF m
  <2>4. member' \in [Users -> Membership] /\ (\A v \in Users \ {u} : Owner(v)' <=> Owner(v))
        /\ (request[r].role = "owner" => \E w \in Users : Owner(w)')
    <3>1. PICK w \in Users : w = u
      BY <2>2
    <3>2. /\ member' \in [Users -> Membership] /\ (\A v \in Users \ {w} : Owner(v)' <=> Owner(v))
          /\ (Owner(w)' <=> m.active /\ m.role = "owner")
      BY <2>3, <3>1, MemberFacts
    <3> QED
      BY <2>1, <2>3, <3>1, <3>2
  <2>5. OwnerKept'
    BY <1>1, <2>1, <2>2, <2>4 DEF RequestSafe, Risky, OwnerKept
  <2>6. /\ request' \in [Requests -> Request] /\ ownerLock' = NoRequest
        /\ \A q \in Requests : RequestShape(request'[q]) /\ RequestSafe(q)'
    BY <2>1, <2>2, LockedEnd
  <2>7. NobodyYet'
    BY <2>1, <2>2 DEF NobodyYet
  <2> QED
    BY <2>1, <2>4, <2>5, <2>6, <2>7 DEF OwnersInv, TypeOK
<1>3. ASSUME RemoveMember(r) PROVE OwnersInv'
  <2> DEFINE m == [member[u] EXCEPT !.active = FALSE]
  <2>1. /\ request[r].step = "apply" /\ request[r].role = NoRole
        /\ member' = [member EXCEPT ![u].active = FALSE] /\ pinned' = pinned \ {u}
        /\ Release(r) /\ End(r) /\ UNCHANGED <<tenancy, created, alive, invitation, lapsed>>
    BY <1>3 DEF RemoveMember, At
  <2>2. u \in Users /\ ownerLock = r /\ (created \/ tenancy # "multi") /\ NoRole # "owner"
    BY <1>1, <2>1, MembershipAssumption DEF RequestShape, RequestSafe
  <2>3. member' = [member EXCEPT ![u] = m] /\ m \in Membership
    BY <1>1, <2>1, <2>2 DEF Membership
  <2> HIDE DEF m
  <2>4. member' \in [Users -> Membership] /\ (\A v \in Users \ {u} : Owner(v)' <=> Owner(v))
    BY <2>2, <2>3, MemberFacts
  <2>5. OwnerKept'
    BY <1>1, <2>1, <2>2, <2>4 DEF RequestSafe, Risky, OwnerKept
  <2>6. /\ request' \in [Requests -> Request] /\ ownerLock' = NoRequest
        /\ \A q \in Requests : RequestShape(request'[q]) /\ RequestSafe(q)'
    BY <2>1, <2>2, LockedEnd
  <2>7. NobodyYet' /\ pinned' \subseteq Users
    BY <1>1, <2>1, <2>2 DEF NobodyYet
  <2> QED
    BY <2>1, <2>4, <2>5, <2>6, <2>7 DEF OwnersInv, TypeOK
<1> QED
  BY <1>2, <1>3

\* An invitation is accepted, and an owner it demotes is recorded.
LEMMA AcceptKeeps ==
    ASSUME OwnersInv, NEW r \in Requests, AcceptInvitation(r)
    PROVE  OwnersInv'
<1> DEFINE u == request[r].user
           i == request[r].via
           m == [role |-> request[r].role, active |-> TRUE]
           j == [invitation[i] EXCEPT !.open = FALSE]
<1>1. /\ request[r] \in Request /\ RequestShape(request[r]) /\ RequestSafe(r)
      /\ invitation \in [Invitations -> Invitation] /\ lapsed \in BOOLEAN /\ OwnerKept
      /\ ownerLock \in Requests \cup {NoRequest}
  BY DEF OwnersInv, TypeOK
<1>2. /\ request[r].step = "join" /\ member' = [member EXCEPT ![u] = m]
      /\ invitation' = [invitation EXCEPT ![i].open = FALSE]
      /\ lapsed' = (lapsed \/ (Owner(u) /\ request[r].role # "owner"))
      /\ End(r) /\ UNCHANGED <<tenancy, created, alive, pinned, ownerLock>>
  BY DEF AcceptInvitation, At
<1>3. u \in Users /\ i \in Invitations /\ (created \/ tenancy # "multi")
  BY <1>1, <1>2 DEF RequestShape, RequestSafe
<1>4. m \in Membership /\ m.active = TRUE /\ m.role = request[r].role
  BY <1>1 DEF Membership, Request
<1>5. invitation' \in [Invitations -> Invitation]
  <2>1. invitation' = [invitation EXCEPT ![i] = j] /\ j \in Invitation
    BY <1>1, <1>2, <1>3 DEF Invitation
  <2> HIDE DEF j
  <2> QED
    BY <1>1, <2>1
<1> HIDE DEF m, j
<1>6. /\ member' \in [Users -> Membership] /\ (\A v \in Users \ {u} : Owner(v)' <=> Owner(v))
      /\ \A w \in Users : w = u => (Owner(w)' <=> request[r].role = "owner")
  <2>1. PICK w \in Users : w = u
    BY <1>3
  <2>2. /\ member' \in [Users -> Membership] /\ (\A v \in Users \ {w} : Owner(v)' <=> Owner(v))
        /\ (Owner(w)' <=> m.active /\ m.role = "owner")
    BY <1>2, <1>4, <2>1, MemberFacts
  <2> QED
    BY <1>4, <2>1, <2>2
<1>7. lapsed' \in BOOLEAN /\ (lapsed => lapsed')
      /\ (lapsed' \/ \A v \in Users : Owner(v) => Owner(v)')
  <2>1. lapsed' \in BOOLEAN /\ (lapsed => lapsed')
    BY <1>1, <1>2
  <2>2. ASSUME ~lapsed', NEW v \in Users, Owner(v) PROVE Owner(v)'
    <3>1. CASE v = u
      BY <1>2, <1>6, <2>2, <3>1
    <3>2. CASE v # u
      BY <1>6, <2>2, <3>2
    <3> QED
      BY <3>1, <3>2
  <2> QED
    BY <2>1, <2>2
<1>8. OwnersStay
  BY <1>2, <1>7 DEF OwnersStay
<1>9. OwnerKept' /\ NobodyYet'
  BY <1>1, <1>2, <1>3, <1>7 DEF OwnerKept, NobodyYet
<1>10. /\ request' \in [Requests -> Request]
       /\ \A q \in Requests : RequestShape(request'[q]) /\ RequestSafe(q)'
  BY <1>2, <1>8, EndMoves
<1> QED
  BY <1>1, <1>2, <1>5, <1>6, <1>7, <1>9, <1>10 DEF OwnersInv, TypeOK

\* An account goes with its memberships.
LEMMA EraseKeeps ==
    ASSUME OwnersInv, NEW r \in Requests, EraseMemberships(r)
    PROVE  OwnersInv'
<1> DEFINE u == request[r].user
           m == [member[u] EXCEPT !.active = FALSE]
<1>1. /\ request[r] \in Request /\ RequestShape(request[r]) /\ RequestSafe(r)
      /\ member \in [Users -> Membership] /\ lapsed \in BOOLEAN /\ OwnerKept /\ NobodyYet
      /\ alive \subseteq Users /\ pinned \subseteq Users
  BY DEF OwnersInv, TypeOK
<1>2. /\ request[r].step = "erase" /\ member' = [member EXCEPT ![u].active = FALSE]
      /\ alive' = alive \ {u} /\ pinned' = pinned \ {u}
      /\ lapsed' = (lapsed \/ (Owner(u) /\ ~request[r].wasOwner))
      /\ Release(r) /\ End(r) /\ UNCHANGED <<tenancy, created, invitation>>
  BY DEF EraseMemberships, At
<1>3. u \in Users /\ request[r].wasOwner \in BOOLEAN
  BY <1>1, <1>2 DEF RequestShape, Request
<1>4. member' = [member EXCEPT ![u] = m] /\ m \in Membership /\ m.active = FALSE
  BY <1>1, <1>2, <1>3 DEF Membership
<1> HIDE DEF m
<1>5. /\ member' \in [Users -> Membership] /\ (\A v \in Users \ {u} : Owner(v)' <=> Owner(v))
  BY <1>3, <1>4, MemberFacts
<1>6. lapsed' \in BOOLEAN /\ (lapsed => lapsed')
  BY <1>1, <1>2, <1>3
<1>7. NobodyYet'
  <2>1. \A v \in Users : member'[v].active => member[v].active
    BY <1>1, <1>3, <1>4
  <2> QED
    BY <1>1, <1>2, <2>1 DEF NobodyYet
<1>8. OwnerKept' /\ request' \in [Requests -> Request] /\ ownerLock' \in Requests \cup {NoRequest}
      /\ \A q \in Requests : RequestShape(request'[q]) /\ RequestSafe(q)'
  <2>1. CASE request[r].wasOwner
    <3>1. ownerLock = r
      BY <1>1, <1>2, <2>1 DEF RequestSafe
    <3>2. OwnerKept'
      BY <1>1, <1>2, <1>5, <1>6, <2>1 DEF RequestSafe, Risky, OwnerKept
    <3> QED
      BY <1>2, <3>1, <3>2, LockedEnd
  <2>2. CASE ~request[r].wasOwner
    <3>1. lapsed' \/ \A v \in Users : Owner(v) => Owner(v)'
      BY <1>2, <1>5, <2>2
    <3>2. OwnersStay
      BY <1>2, <1>6, <3>1 DEF OwnersStay
    <3>3. OwnerKept'
      BY <1>1, <1>2, <1>6, <3>1 DEF OwnerKept
    <3> QED
      BY <1>2, <3>2, <3>3, EndMoves
  <2> QED
    BY <1>3, <2>1, <2>2
<1> QED
  BY <1>1, <1>2, <1>5, <1>6, <1>7, <1>8 DEF OwnersInv, TypeOK


\* The organization appears, or a user joins the default one.
LEMMA JoinsKeep ==
    ASSUME OwnersInv, NEW u \in Users
    PROVE  /\ CreateOrganization(u) => OwnersInv'
           /\ JoinDefaultOrganization(u) => OwnersInv'
<1>1. /\ member \in [Users -> Membership] /\ pinned \subseteq Users /\ {"owner", "member"} \subseteq Roles
      /\ \A q \in Requests : RequestShape(request[q]) /\ RequestSafe(q)
  BY MembershipAssumption DEF OwnersInv, TypeOK
<1>2. ASSUME CreateOrganization(u) PROVE OwnersInv'
  <2> DEFINE m == [role |-> "owner", active |-> TRUE]
  <2>1. /\ tenancy = "multi" /\ ~created /\ created' = TRUE
        /\ member' = [member EXCEPT ![u] = m]
        /\ UNCHANGED <<tenancy, alive, invitation, pinned, ownerLock, request, lapsed>>
    BY <1>2 DEF CreateOrganization
  <2>2. m \in Membership /\ m.active = TRUE /\ m.role = "owner"
    BY <1>1 DEF Membership
  <2> HIDE DEF m
  <2>3. member' \in [Users -> Membership] /\ Owner(u)'
    BY <2>1, <2>2, MemberFacts
  <2>4. OwnerKept' /\ NobodyYet'
    BY <2>1, <2>3 DEF OwnerKept, NobodyYet
  <2>5. \A q \in Requests : RequestShape(request'[q]) /\ RequestSafe(q)'
    BY <1>1, <2>1 DEF RequestSafe, Risky
  <2> QED
    BY <2>1, <2>3, <2>4, <2>5 DEF OwnersInv, TypeOK
<1>3. ASSUME JoinDefaultOrganization(u) PROVE OwnersInv'
  <2> DEFINE role == IF member[u].role = NoRole THEN "member" ELSE member[u].role
             m == [role |-> role, active |-> TRUE]
  <2>1. /\ tenancy = "single" /\ created' = TRUE /\ pinned' = pinned \cup {u}
        /\ UNCHANGED <<tenancy, alive, invitation, ownerLock, request, lapsed>>
    BY <1>3 DEF JoinDefaultOrganization
  <2>2. member' \in [Users -> Membership]
    <3>1. member[u] \in Membership /\ role \in Roles \cup {NoRole}
      BY <1>1 DEF Membership
    <3>2. member' = [member EXCEPT ![u].role = role, ![u].active = TRUE]
      BY <1>3 DEF JoinDefaultOrganization
    <3> HIDE DEF role
    <3> QED
      BY <1>1, <3>1, <3>2 DEF Membership
  <2>3. OwnerKept' /\ NobodyYet'
    BY <2>1 DEF OwnerKept, NobodyYet
  <2>4. \A q \in Requests : RequestShape(request'[q]) /\ RequestSafe(q)'
    BY <1>1, <2>1 DEF RequestSafe, Risky
  <2> QED
    BY <1>1, <2>1, <2>2, <2>3, <2>4 DEF OwnersInv, TypeOK
<1> QED
  BY <1>2, <1>3

\* An invitation is made, closed or deleted.
LEMMA InvitationsKeep ==
    ASSUME OwnersInv, NEW i \in Invitations
    PROVE  /\ \A u \in Users, role \in Roles : CreateInvitation(i, u, role) => OwnersInv'
           /\ CloseInvitation(i) => OwnersInv'
           /\ PurgeInvitation(i) => OwnersInv'
<1>1. /\ invitation \in [Invitations -> Invitation] /\ OwnerKept /\ NobodyYet
  BY DEF OwnersInv, TypeOK
<1>2. ASSUME invitation' \in [Invitations -> Invitation],
             created \/ \A n \in Invitations : invitation'[n].open => invitation[n].open,
             UNCHANGED <<tenancy, created, alive, member, pinned, ownerLock, request, lapsed>>
      PROVE  OwnersInv'
  <2>1. OwnersStay
    BY <1>2 DEF OwnersStay, Owner
  <2>2. \A q \in Requests : RequestShape(request'[q]) /\ RequestSafe(q)'
    BY <1>2, <2>1, OthersSafe
  <2>3. OwnerKept' /\ NobodyYet'
    BY <1>1, <1>2 DEF OwnerKept, NobodyYet, Owner
  <2> QED
    BY <1>2, <2>2, <2>3 DEF OwnersInv, TypeOK
<1>3. ASSUME NEW u \in Users, NEW role \in Roles, CreateInvitation(i, u, role) PROVE OwnersInv'
  <2>1. invitation' \in [Invitations -> Invitation] /\ created
    BY <1>1, <1>3 DEF CreateInvitation, Invitation
  <2> QED
    BY <1>2, <1>3, <2>1 DEF CreateInvitation
<1>4. ASSUME CloseInvitation(i) PROVE OwnersInv'
  <2> DEFINE j == [invitation[i] EXCEPT !.open = FALSE]
  <2>1. invitation' = [invitation EXCEPT ![i] = j] /\ j \in Invitation /\ j.open = FALSE
    BY <1>1, <1>4 DEF CloseInvitation, Invitation
  <2> HIDE DEF j
  <2>2. /\ invitation' \in [Invitations -> Invitation]
        /\ \A n \in Invitations : invitation'[n].open => invitation[n].open
    BY <1>1, <2>1
  <2> QED
    BY <1>2, <1>4, <2>2 DEF CloseInvitation
<1>5. ASSUME PurgeInvitation(i) PROVE OwnersInv'
  <2> DEFINE j == [user |-> NoUser, role |-> NoRole, open |-> FALSE]
  <2>1. invitation' = [invitation EXCEPT ![i] = j] /\ j \in Invitation /\ j.open = FALSE
    BY <1>1, <1>5 DEF PurgeInvitation, Invitation
  <2> HIDE DEF j
  <2>2. /\ invitation' \in [Invitations -> Invitation]
        /\ \A n \in Invitations : invitation'[n].open => invitation[n].open
    BY <1>1, <2>1
  <2> QED
    BY <1>2, <1>5, <2>2 DEF PurgeInvitation
<1> QED
  BY <1>3, <1>4, <1>5

\* A session is pinned.
LEMMA PinKeeps ==
    ASSUME OwnersInv, NEW r \in Requests, PinSession(r)
    PROVE  OwnersInv'
<1>1. /\ request[r].user \in alive /\ pinned' = pinned \cup {request[r].user} /\ End(r)
      /\ UNCHANGED <<tenancy, created, alive, member, invitation, ownerLock, lapsed>>
      /\ OwnerKept /\ NobodyYet
  BY DEF PinSession, OwnersInv
<1>2. OwnersStay
  BY <1>1 DEF OwnersStay, Owner
<1>3. /\ request' \in [Requests -> Request]
      /\ \A q \in Requests : RequestShape(request'[q]) /\ RequestSafe(q)'
  BY <1>1, <1>2, EndMoves
<1>4. OwnerKept' /\ NobodyYet'
  BY <1>1 DEF OwnerKept, NobodyYet, Owner
<1> QED
  BY <1>1, <1>3, <1>4 DEF OwnersInv, TypeOK

-----------------------------------------------------------------------------
(* The invariant.                                                           *)

\* A deployment starts without an organization.
LEMMA MembershipStart == Init => OwnersInv
<1> SUFFICES ASSUME Init PROVE OwnersInv
  OBVIOUS
<1>1. Idle \in Request /\ Idle.step = "idle" /\ Idle.wasOwner = FALSE
  BY DEF Idle, Request
<1>2. TypeOK
  BY <1>1 DEF Init, TypeOK, Membership, Invitation
<1>3. OwnerKept /\ NobodyYet
  BY DEF Init, OwnerKept, NobodyYet
<1>4. \A r \in Requests : RequestShape(request[r]) /\ RequestSafe(r)
  BY <1>1 DEF Init, RequestShape, RequestSafe, Risky
<1> QED
  BY <1>2, <1>3, <1>4 DEF OwnersInv

\* Every request keeps the inductive invariant.
LEMMA RequestKeeps ==
    ASSUME OwnersInv, NEW r \in Requests, RequestStep(r)
    PROVE  OwnersInv'
<1>1. CASE \E u \in Users, role \in Roles \cup {NoRole} : BeginMemberChange(r, u, role)
  BY <1>1, BeginKeeps
<1>2. CASE ChangeMemberRole(r) \/ RemoveMember(r)
  BY <1>2, ChangesKeep
<1>3. CASE \/ MemberChangeFails(r) \/ AccountGone(r)
           \/ \E i \in Invitations : ReadInvitation(r, i)
           \/ \E u \in Users : ReadMembership(r, u) \/ BeginDeleteAccount(r, u)
  BY <1>3, ReadsKeep
<1>4. CASE AcceptInvitation(r)
  BY <1>4, AcceptKeeps
<1>5. CASE PinSession(r)
  BY <1>5, PinKeeps
<1>6. CASE CountOwners(r)
  BY <1>6, CountKeeps
<1>7. CASE EraseMemberships(r)
  BY <1>7, EraseKeeps
<1> QED
  BY <1>1, <1>2, <1>3, <1>4, <1>5, <1>6, <1>7 DEF RequestStep

\* Every step keeps the inductive invariant.
LEMMA MembershipStep == OwnersInv /\ [Next]_vars => OwnersInv'
<1> SUFFICES ASSUME OwnersInv, [Next]_vars PROVE OwnersInv'
  OBVIOUS
<1>1. CASE \E u \in Users : CreateOrganization(u) \/ JoinDefaultOrganization(u)
  BY <1>1, JoinsKeep
<1>2. CASE \E i \in Invitations, u \in Users, role \in Roles : CreateInvitation(i, u, role)
  BY <1>2, InvitationsKeep
<1>3. CASE \E i \in Invitations : CloseInvitation(i) \/ PurgeInvitation(i)
  BY <1>3, InvitationsKeep
<1>4. CASE \E r \in Requests : RequestStep(r)
  BY <1>4, RequestKeeps
<1>5. CASE UNCHANGED vars
  <2>1. UNCHANGED <<tables, lapsed, ownerLock, request>>
    BY <1>5 DEF vars
  <2>2. OwnersStay
    BY <2>1, TablesSame
  <2>3. \A q \in Requests : RequestShape(request'[q]) /\ RequestSafe(q)'
    BY <2>1, <2>2, OthersSafe
  <2> QED
    BY <2>1, <2>3, TablesSame DEF OwnersInv, TypeOK
<1> QED
  BY <1>1, <1>2, <1>3, <1>4, <1>5 DEF Next

\* An organization keeps an active owner and its tables their types, through
\* removeMember, changeMemberRole, acceptInvitation and deleteAccount in any
\* interleaving, unless an acceptance demotes an owner or an account becomes
\* one while it is being deleted.
THEOREM MembershipTheorem == Spec => []MembershipInv
<1>1. OwnersInv => MembershipInv
  BY DEF OwnersInv, MembershipInv
<1> QED
  BY <1>1, MembershipStart, MembershipStep, PTL DEF Spec

-----------------------------------------------------------------------------
(* Conversations and sockets.                                               *)

\* What a service call knows when its next statement runs.
TaskOK(q) ==
    /\ q.step \in {"insert", "ack"} => q.user \in ChatUsers /\ q.conversation \in Conversations
    /\ q.step = "insert" => q.id \in MessageIds
    /\ q.step = "join" => q.socket \in Sockets /\ q.conversation \in Conversations

\* A pair has one direct conversation, and every answer names it.
KeysOK ==
    /\ \A v, x \in Conversations :
          /\ conversation[v].exists /\ conversation[x].exists
          /\ conversation[v].key = conversation[x].key /\ conversation[v].key # {}
          => v = x
    /\ \A a \in answers : a[1] # {} => /\ a[2] \in Conversations
                                       /\ conversation[a[2]].exists /\ conversation[a[2]].key = a[1]

\* The messages of a conversation have different numbers and different ids, and
\* the numbers are those up to the last one.
NumbersOK(v) ==
    /\ \A m, n \in MessagesOf(v) : m.seq = n.seq \/ m.id = n.id => m = n
    /\ {m.seq : m \in MessagesOf(v)} = 1..conversation[v].lastSeq

RoomsOK == \A s \in Sockets :
    IsFiniteSet(socket[s].rooms) /\ Cardinality(socket[s].rooms) <= MaxRooms

RoomsInv ==
    /\ ChatTypeOK /\ KeysOK /\ RoomsOK
    /\ \A t \in Tasks : TaskOK(task[t])
    /\ \A v \in Conversations : NumbersOK(v)

TasksOK == task \in [Tasks -> Task] /\ \A t \in Tasks : TaskOK(task[t])

TablesOK ==
    /\ conversation \in [Conversations -> Conversation] /\ message \subseteq Message
    /\ KeysOK /\ \A v \in Conversations : NumbersOK(v)

GatewayOK ==
    /\ live \subseteq SocketUsers /\ socket \in [Sockets -> Socket] /\ notices \subseteq SocketUsers
    /\ sweep \in [running: BOOLEAN, invalid: SUBSET Sockets] /\ RoomsOK

\* The goal for every step.
ChatKept == RoomsInv'

\* The parts make the invariant.
LEMMA ChatParts ==
    RoomsInv <=> TasksOK /\ TablesOK /\ GatewayOK /\ calls \in 0..MaxCalls
BY DEF RoomsInv, ChatTypeOK, TasksOK, TablesOK, GatewayOK

\* So they do after a step.
LEMMA ChatAssemble ==
    ASSUME TasksOK', TablesOK', GatewayOK', (calls \in 0..MaxCalls)'
    PROVE  ChatKept
BY DEF RoomsInv, ChatTypeOK, TasksOK, TablesOK, GatewayOK, ChatKept

\* What a row of a conversation holds.
LEMMA RowKnows ==
    ASSUME RoomsInv, NEW v \in Conversations
    PROVE  /\ conversation[v] \in Conversation /\ conversation[v].lastSeq \in Nat
           /\ conversation[v].read \in [ChatUsers -> Nat] /\ conversation[v].exists \in BOOLEAN
           /\ conversation[v].key \in SUBSET ChatUsers
           /\ \A u \in ChatUsers : conversation[v].read[u] \in Nat
<1>1. conversation[v] \in Conversation
  BY ChatParts DEF TablesOK
<1>2. conversation[v].read \in [ChatUsers -> Nat]
  BY <1>1 DEF Conversation
<1> QED
  BY <1>1, <1>2 DEF Conversation

\* What no step touches stays.
LEMMA ChatSame ==
    ASSUME RoomsInv
    PROVE  /\ UNCHANGED <<chatTables, answers>> => TablesOK'
           /\ UNCHANGED gateway => GatewayOK'
           /\ UNCHANGED task => TasksOK'
           /\ UNCHANGED calls => (calls \in 0..MaxCalls)'
<1>1. TasksOK /\ TablesOK /\ GatewayOK /\ calls \in 0..MaxCalls
  BY ChatParts
<1>2. ASSUME UNCHANGED <<chatTables, answers>> PROVE TablesOK'
  <2>1. UNCHANGED <<conversation, message, answers>>
    BY <1>2 DEF chatTables
  <2> QED
    BY <1>1, <2>1 DEF TablesOK, KeysOK, NumbersOK, MessagesOf
<1>3. UNCHANGED gateway => GatewayOK'
  BY <1>1 DEF gateway, GatewayOK, RoomsOK
<1>4. UNCHANGED task => TasksOK'
  BY <1>1 DEF TasksOK
<1> QED
  BY <1>1, <1>2, <1>3, <1>4

\* One task moves.
LEMMA TaskMoves ==
    ASSUME RoomsInv, NEW t \in Tasks, NEW v \in Task, TaskOK(v), task' = [task EXCEPT ![t] = v]
    PROVE  TasksOK'
<1>1. TasksOK
  BY ChatParts
<1>2. /\ task' \in [Tasks -> Task] /\ task'[t] = v
      /\ \A x \in Tasks \ {t} : task'[x] = task[x]
  BY <1>1 DEF TasksOK
<1> QED
  BY <1>1, <1>2 DEF TasksOK

\* A task that does nothing knows nothing.
LEMMA IdleKnows == IdleTask \in Task /\ TaskOK(IdleTask) /\ IdleTask.step = "idle"
BY DEF IdleTask, Task, TaskOK

\* A service call ends.
LEMMA TaskEnds ==
    ASSUME RoomsInv, NEW t \in Tasks, EndTask(t)
    PROVE  TasksOK'
BY TaskMoves, IdleKnows DEF EndTask

\* A service call begins.
LEMMA CallBegins ==
    ASSUME RoomsInv, NEW t \in Tasks, NEW v \in Task, TaskOK(v), Call(t, v),
           UNCHANGED <<chatTables, gateway, answers>>
    PROVE  ChatKept
<1>1. TasksOK'
  BY TaskMoves DEF Call
<1>2. (calls \in 0..MaxCalls)'
  <2>1. calls \in 0..MaxCalls /\ MaxCalls \in Nat /\ calls < MaxCalls /\ calls' = calls + 1
    BY ChatParts, ChatAssumption DEF Call
  <2> QED
    BY <2>1
<1> QED
  BY <1>1, <1>2, ChatSame, ChatAssemble

-----------------------------------------------------------------------------
(* chat.service.                                                            *)

\* A message is sent, acknowledged, deleted, or a room is joined: the caller is
\* looked up.
LEMMA LookupsKeep ==
    ASSUME RoomsInv, NEW t \in Tasks
    PROVE  /\ \A u \in ChatUsers, v \in Conversations, i \in MessageIds :
                 SendMessage(t, u, v, i) => ChatKept
           /\ \A u \in ChatUsers, v \in Conversations :
                 \A n \in 0..conversation[v].lastSeq : MarkRead(t, u, v, n) => ChatKept
           /\ \A m \in message : DeleteMessage(t, m) => ChatKept
           /\ \A s \in Sockets, v \in Conversations : Join(t, s, v) => ChatKept
<1>1. ASSUME NEW u \in ChatUsers, NEW v \in Conversations, NEW i \in MessageIds,
             SendMessage(t, u, v, i)
      PROVE  ChatKept
  <2> DEFINE q == [IdleTask EXCEPT !.step = "insert", !.user = u, !.conversation = v, !.id = i]
  <2>1. Call(t, q) /\ UNCHANGED <<chatTables, gateway, answers>>
    BY <1>1 DEF SendMessage
  <2>2. q \in Task /\ TaskOK(q)
    BY DEF IdleTask, Task, TaskOK
  <2> HIDE DEF q
  <2> QED
    BY <2>1, <2>2, CallBegins
<1>2. ASSUME NEW u \in ChatUsers, NEW v \in Conversations, NEW n \in 0..conversation[v].lastSeq,
             MarkRead(t, u, v, n)
      PROVE  ChatKept
  <2> DEFINE q == [IdleTask EXCEPT !.step = "ack", !.user = u, !.conversation = v, !.seq = n]
  <2>1. Call(t, q) /\ UNCHANGED <<chatTables, gateway, answers>>
    BY <1>2 DEF MarkRead
  <2>2. n \in Nat
    BY RowKnows
  <2>3. q \in Task
    BY <2>2 DEF IdleTask, Task
  <2>4. q.step = "ack" /\ q.user = u /\ q.conversation = v
    BY DEF IdleTask
  <2> HIDE DEF q
  <2>5. TaskOK(q)
    BY <2>4 DEF TaskOK
  <2> QED
    BY <2>1, <2>3, <2>5, CallBegins
<1>3. ASSUME NEW m \in message, DeleteMessage(t, m) PROVE ChatKept
  <2> DEFINE q == [IdleTask EXCEPT !.step = "tombstone", !.user = m.sender,
                                   !.conversation = m.conversation, !.seq = m.seq]
  <2>1. Call(t, q) /\ UNCHANGED <<chatTables, gateway, answers>>
    BY <1>3 DEF DeleteMessage
  <2>2. m.sender \in ChatUsers /\ m.conversation \in Conversations /\ m.seq \in Nat
    BY ChatParts DEF TablesOK, Message
  <2>3. q \in Task
    BY <2>2 DEF IdleTask, Task
  <2>4. TaskOK(q)
    BY DEF IdleTask, TaskOK
  <2> HIDE DEF q
  <2> QED
    BY <2>1, <2>3, <2>4, CallBegins
<1>4. ASSUME NEW s \in Sockets, NEW v \in Conversations, Join(t, s, v) PROVE ChatKept
  <2> DEFINE q == [IdleTask EXCEPT !.step = "join", !.socket = s, !.conversation = v]
  <2>1. Call(t, q) /\ UNCHANGED <<chatTables, gateway, answers>>
    BY <1>4 DEF Join
  <2>2. q \in Task /\ TaskOK(q)
    BY DEF IdleTask, Task, TaskOK
  <2> HIDE DEF q
  <2> QED
    BY <2>1, <2>2, CallBegins
<1> QED
  BY <1>1, <1>2, <1>3, <1>4

\* A direct conversation is found, or there is none and it is to be created.
LEMMA CreateKeeps ==
    ASSUME RoomsInv, NEW t \in Tasks, NEW u \in ChatUsers, NEW pair \in Pairs \cup {{}},
           CreateConversation(t, u, pair)
    PROVE  ChatKept
<1> DEFINE found == IF pair = {} THEN {} ELSE FindDirectConversation(pair)
           q == [IdleTask EXCEPT !.step = "create", !.user = u, !.pair = pair]
<1>1. /\ UNCHANGED <<chatTables, gateway>>
      /\ \/ Call(t, q) /\ UNCHANGED answers
         \/ Call(t, IdleTask) /\ answers' = answers \cup {<<pair, v>> : v \in found}
  BY DEF CreateConversation, DirectConversationKey
<1>2. q \in Task /\ TaskOK(q)
  BY DEF IdleTask, Task, TaskOK
<1>3. \A v \in found : v \in Conversations /\ conversation[v].exists /\ conversation[v].key = pair
  BY DEF FindDirectConversation
<1> HIDE DEF q, found
<1>4. CASE Call(t, q) /\ UNCHANGED answers
  BY <1>1, <1>2, <1>4, CallBegins
<1>5. CASE Call(t, IdleTask) /\ answers' = answers \cup {<<pair, v>> : v \in found}
  <2>1. TasksOK'
    BY <1>5, IdleKnows, TaskMoves DEF Call
  <2>2. (calls \in 0..MaxCalls)'
    <3>1. calls \in 0..MaxCalls /\ MaxCalls \in Nat /\ calls < MaxCalls /\ calls' = calls + 1
      BY <1>5, ChatParts, ChatAssumption DEF Call
    <3> QED
      BY <3>1
  <2>3. UNCHANGED <<conversation, message>>
    BY <1>1 DEF chatTables
  <2>4. TablesOK
    BY ChatParts
  <2>5. KeysOK'
    <3>1. ASSUME NEW a \in answers', a[1] # {}
          PROVE  a[2] \in Conversations /\ conversation[a[2]].exists /\ conversation[a[2]].key = a[1]
      <4>1. CASE a \in answers
        BY <2>4, <3>1, <4>1 DEF TablesOK, KeysOK
      <4>2. CASE a \notin answers
        <5>1. PICK v \in found : a = <<pair, v>>
          BY <1>5, <3>1, <4>2
        <5> QED
          BY <1>3, <5>1
      <4> QED
        BY <4>1, <4>2
    <3> QED
      BY <2>3, <2>4, <3>1 DEF TablesOK, KeysOK
  <2>6. TablesOK'
    BY <2>3, <2>4, <2>5 DEF TablesOK, NumbersOK, MessagesOf
  <2> QED
    BY <1>1, <2>1, <2>2, <2>6, ChatSame, ChatAssemble
<1> QED
  BY <1>1, <1>4, <1>5

\* The unique key lets one of two creators win.
LEMMA InsertConversationKeeps ==
    ASSUME RoomsInv, NEW t \in Tasks, InsertConversation(t)
    PROVE  ChatKept
<1>1. PICK pair \in Pairs \cup {{}} : pair = task[t].pair
  BY ChatParts DEF TasksOK, Task
<1> DEFINE winner == IF pair = {} THEN {} ELSE FindDirectConversation(pair)
           used == {v \in Conversations : conversation[v].exists}
           free == FreshId(used)
<1>2. /\ EndTask(t) /\ UNCHANGED <<message, gateway, calls>>
      /\ \/ /\ winner = {} /\ used # Conversations
            /\ conversation' = [conversation EXCEPT ![free].exists = TRUE, ![free].key = pair]
            /\ answers' = answers \cup {<<pair, free>>}
         \/ answers' = answers \cup {<<pair, v>> : v \in winner} /\ UNCHANGED conversation
  BY <1>1 DEF InsertConversation, DirectConversationKey
<1>3. \A v \in Conversations : (v \in winner <=> (/\ pair # {} /\ conversation[v].exists
                                                  /\ conversation[v].key = pair))
  BY DEF FindDirectConversation
<1>4. winner \subseteq Conversations
  BY DEF FindDirectConversation
<1> HIDE DEF winner
<1>5. TablesOK /\ pair \in SUBSET ChatUsers
  BY ChatParts DEF Pairs
<1>6. CASE answers' = answers \cup {<<pair, v>> : v \in winner} /\ UNCHANGED conversation
  <2>1. KeysOK'
    <3>1. ASSUME NEW a \in answers', a[1] # {}
          PROVE  a[2] \in Conversations /\ conversation[a[2]].exists /\ conversation[a[2]].key = a[1]
      <4>1. CASE a \in answers
        BY <1>5, <3>1, <4>1 DEF TablesOK, KeysOK
      <4>2. CASE a \notin answers
        <5>1. PICK v \in winner : a = <<pair, v>>
          BY <1>6, <3>1, <4>2
        <5> QED
          BY <1>3, <1>4, <5>1
      <4> QED
        BY <4>1, <4>2
    <3> QED
      BY <1>5, <1>6, <3>1 DEF TablesOK, KeysOK
  <2>2. TablesOK'
    BY <1>2, <1>5, <1>6, <2>1 DEF TablesOK, NumbersOK, MessagesOf
  <2> QED
    BY <1>2, <1>6, <2>2, TaskEnds, ChatSame, ChatAssemble
<1>7. CASE /\ winner = {} /\ used # Conversations
           /\ conversation' = [conversation EXCEPT ![free].exists = TRUE, ![free].key = pair]
           /\ answers' = answers \cup {<<pair, free>>}
  <2>1. free \in Conversations /\ free \notin used
    BY <1>7 DEF FreshId
  <2>2. PICK new \in Conversations : new = free
    BY <2>1
  <2>3. ~conversation[new].exists
    BY <2>1, <2>2
  <2> HIDE DEF free, used
  <2> DEFINE row == [conversation[new] EXCEPT !.exists = TRUE, !.key = pair]
  <2>4. conversation' = [conversation EXCEPT ![new] = row] /\ answers' = answers \cup {<<pair, new>>}
    BY <1>5, <1>7, <2>2 DEF TablesOK
  <2>5. /\ row \in Conversation /\ row.exists /\ row.key = pair
        /\ row.lastSeq = conversation[new].lastSeq /\ row.read = conversation[new].read
    BY <1>5, RowKnows DEF Conversation
  <2> HIDE DEF row
  <2>6. /\ conversation' \in [Conversations -> Conversation] /\ conversation'[new] = row
        /\ \A x \in Conversations \ {new} : conversation'[x] = conversation[x]
    BY <1>5, <2>4, <2>5 DEF TablesOK
  <2>7. \A v \in Conversations : /\ conversation'[v].lastSeq = conversation[v].lastSeq
                                 /\ conversation'[v].read = conversation[v].read
    BY <2>5, <2>6
  <2>8. KeysOK'
    <3>1. ASSUME NEW v \in Conversations, NEW x \in Conversations,
                 conversation'[v].exists, conversation'[x].exists,
                 conversation'[v].key = conversation'[x].key, conversation'[v].key # {}
          PROVE  v = x
      <4>1. CASE v # new /\ x # new
        BY <1>5, <2>6, <3>1, <4>1 DEF TablesOK, KeysOK
      <4>2. CASE v = new /\ x # new
        BY <1>3, <1>7, <2>5, <2>6, <3>1, <4>2
      <4>3. CASE v # new /\ x = new
        BY <1>3, <1>7, <2>5, <2>6, <3>1, <4>3
      <4> QED
        BY <4>1, <4>2, <4>3
    <3>2. ASSUME NEW a \in answers', a[1] # {}
          PROVE  a[2] \in Conversations /\ conversation'[a[2]].exists /\ conversation'[a[2]].key = a[1]
      <4>1. CASE a \in answers
        <5>1. a[2] \in Conversations /\ conversation[a[2]].exists /\ conversation[a[2]].key = a[1]
          BY <1>5, <3>2, <4>1 DEF TablesOK, KeysOK
        <5> QED
          BY <2>3, <2>6, <5>1
      <4>2. CASE a = <<pair, new>>
        BY <2>5, <2>6, <4>2
      <4> QED
        BY <2>4, <4>1, <4>2
    <3> QED
      BY <3>1, <3>2 DEF KeysOK
  <2>9. TablesOK'
    <3>1. UNCHANGED message
      BY <1>2
    <3> QED
      BY <1>5, <2>6, <2>7, <2>8, <3>1 DEF TablesOK, NumbersOK, MessagesOf
  <2> QED
    BY <1>2, <2>7, <2>9, TaskEnds, ChatSame, ChatAssemble
<1> QED
  BY <1>2, <1>6, <1>7

\* One statement takes the next number of a conversation and inserts the message.
LEMMA InsertMessageKeeps ==
    ASSUME RoomsInv, NEW t \in Tasks, InsertMessage(t)
    PROVE  ChatKept
<1>1. TablesOK /\ TaskOK(task[t])
  BY ChatParts DEF TasksOK
<1>2. EndTask(t) /\ UNCHANGED <<gateway, calls, answers>> /\ task[t].step = "insert"
  BY DEF InsertMessage, TaskAt
<1>3. PICK c \in Conversations : c = task[t].conversation
  BY <1>1, <1>2 DEF TaskOK
<1> DEFINE last == conversation[c].lastSeq
           new == [conversation |-> c, seq |-> last + 1, id |-> task[t].id,
                   sender |-> task[t].user, deleted |-> FALSE]
<1>4. CASE UNCHANGED chatTables
  BY <1>2, <1>4, TaskEnds, ChatSame, ChatAssemble
<1>5. CASE /\ ~Duplicate(t) /\ conversation' = [conversation EXCEPT ![c].lastSeq = @ + 1]
           /\ message' = message \cup {new}
  <2>1. last \in Nat /\ last + 1 \in Nat /\ last + 1 \in Nat \ {0}
    BY RowKnows
  <2> DEFINE n == last + 1
             row == [conversation[c] EXCEPT !.lastSeq = n]
  <2>2. conversation' = [conversation EXCEPT ![c] = row]
    BY <1>1, <1>5 DEF TablesOK
  <2>3. n \in Nat \ {0}
    BY <2>1
  <2>4. new \in Message /\ new.seq = n /\ new.id = task[t].id /\ new.conversation = c
    BY <1>1, <1>2, <2>3 DEF TaskOK, Message
  <2>5. \A m \in MessagesOf(c) : m.seq \in 1..last /\ m.id # task[t].id
    BY <1>1, <1>3, <1>5 DEF Duplicate, TablesOK, NumbersOK
  <2> HIDE DEF new
  <2>6. 1..n = (1..last) \cup {n} /\ n \notin 1..last
    BY <2>1
  <2> HIDE DEF n, last
  <2>7. /\ row \in Conversation /\ row.exists = conversation[c].exists
        /\ row.key = conversation[c].key /\ row.lastSeq = n /\ row.read = conversation[c].read
    BY <2>3, RowKnows DEF Conversation
  <2> HIDE DEF row
  <2>8. /\ conversation' \in [Conversations -> Conversation] /\ conversation'[c] = row
        /\ \A x \in Conversations \ {c} : conversation'[x] = conversation[x]
    BY <1>1, <2>2, <2>7 DEF TablesOK
  <2>9. message' \subseteq Message /\ UNCHANGED answers
    BY <1>1, <1>2, <1>5, <2>4 DEF TablesOK
  <2>10. \A v \in Conversations : /\ conversation'[v].exists = conversation[v].exists
                                  /\ conversation'[v].key = conversation[v].key
                                  /\ conversation'[v].read = conversation[v].read
    BY <2>7, <2>8
  <2>11. KeysOK'
    BY <1>1, <2>9, <2>10 DEF TablesOK, KeysOK
  <2>12. ASSUME NEW v \in Conversations PROVE NumbersOK(v)'
    <3>1. NumbersOK(v)
      BY <1>1 DEF TablesOK
    <3>2. CASE v # c
      <4>1. MessagesOf(v)' = MessagesOf(v)
        BY <1>5, <2>4, <3>2 DEF MessagesOf
      <4> QED
        BY <2>8, <3>1, <3>2, <4>1 DEF NumbersOK
    <3>3. CASE v = c
      <4>1. MessagesOf(c)' = MessagesOf(c) \cup {new}
        BY <1>5, <2>4 DEF MessagesOf
      <4>2. ASSUME NEW m \in MessagesOf(c)', NEW x \in MessagesOf(c)', m.seq = x.seq \/ m.id = x.id
            PROVE  m = x
        BY <2>4, <2>5, <2>6, <3>1, <3>3, <4>1, <4>2 DEF NumbersOK
      <4>3. {m.seq : m \in MessagesOf(c)'} = {m.seq : m \in MessagesOf(c)} \cup {n}
        BY <2>4, <4>1
      <4>4. {m.seq : m \in MessagesOf(c)} = 1..last
        BY <3>1, <3>3 DEF NumbersOK, last
      <4>5. conversation'[c].lastSeq = n
        BY <2>7, <2>8
      <4> QED
        BY <2>6, <3>3, <4>2, <4>3, <4>4, <4>5 DEF NumbersOK
    <3> QED
      BY <3>2, <3>3
  <2>13. TablesOK'
    BY <2>8, <2>9, <2>11, <2>12 DEF TablesOK
  <2> QED
    BY <1>2, <2>10, <2>13, TaskEnds, ChatSame, ChatAssemble
<1> QED
  BY <1>3, <1>4, <1>5 DEF InsertMessage

\* A read mark is written, and the rest of the row stays.
LEMMA WriteReadMarkKeeps ==
    ASSUME RoomsInv, NEW t \in Tasks, WriteReadMark(t)
    PROVE  ChatKept
<1>1. TablesOK /\ TaskOK(task[t]) /\ task[t] \in Task
  BY ChatParts DEF TasksOK
<1>2. EndTask(t) /\ UNCHANGED <<message, gateway, calls, answers>> /\ task[t].step = "ack"
  BY DEF WriteReadMark, TaskAt
<1>3. PICK c \in Conversations : c = task[t].conversation
  BY <1>1, <1>2 DEF TaskOK
<1>4. PICK u \in ChatUsers : u = task[t].user
  BY <1>1, <1>2 DEF TaskOK
<1>5. task[t].seq \in Nat
  BY <1>1 DEF Task
<1> DEFINE marks == [conversation[c].read EXCEPT ![u] = task[t].seq]
           row == [conversation[c] EXCEPT !.read = marks]
<1>6. conversation' = [conversation EXCEPT ![c] = row]
  BY <1>1, <1>3, <1>4 DEF TablesOK, WriteReadMark
<1>7. /\ marks \in [ChatUsers -> Nat] /\ marks[u] = task[t].seq
      /\ \A x \in ChatUsers \ {u} : marks[x] = conversation[c].read[x]
  BY <1>5, RowKnows
<1> HIDE DEF marks
<1>8. /\ row \in Conversation /\ row.exists = conversation[c].exists
      /\ row.key = conversation[c].key /\ row.lastSeq = conversation[c].lastSeq /\ row.read = marks
  BY <1>7, RowKnows DEF Conversation
<1> HIDE DEF row
<1>9. /\ conversation' \in [Conversations -> Conversation] /\ conversation'[c] = row
      /\ \A x \in Conversations \ {c} : conversation'[x] = conversation[x]
  BY <1>1, <1>6, <1>8 DEF TablesOK
<1>10. \A v \in Conversations : /\ conversation'[v].exists = conversation[v].exists
                                /\ conversation'[v].key = conversation[v].key
                                /\ conversation'[v].lastSeq = conversation[v].lastSeq
  BY <1>8, <1>9
<1>11. TablesOK'
  BY <1>1, <1>2, <1>9, <1>10 DEF TablesOK, KeysOK, NumbersOK, MessagesOf
<1> QED
  BY <1>2, <1>11, TaskEnds, ChatSame, ChatAssemble

\* A deleted message keeps its number and its id.
LEMMA TombstoneKeeps ==
    ASSUME RoomsInv, NEW t \in Tasks, Tombstone(t)
    PROVE  ChatKept
<1> DEFINE Hit(m) == m.conversation = task[t].conversation /\ m.seq = task[t].seq
           Blank(m) == IF Hit(m) THEN [m EXCEPT !.deleted = TRUE] ELSE m
<1>1. TablesOK
  BY ChatParts
<1>2. /\ EndTask(t) /\ UNCHANGED <<conversation, gateway, calls, answers>>
      /\ message' = {Blank(m) : m \in message}
  BY DEF Tombstone
<1>3. ASSUME NEW m \in message
      PROVE  /\ Blank(m) \in Message /\ Blank(m).conversation = m.conversation
             /\ Blank(m).seq = m.seq /\ Blank(m).id = m.id
  <2>1. m \in Message
    BY <1>1 DEF TablesOK
  <2>2. /\ [m EXCEPT !.deleted = TRUE] \in Message
        /\ [m EXCEPT !.deleted = TRUE].conversation = m.conversation
        /\ [m EXCEPT !.deleted = TRUE].seq = m.seq /\ [m EXCEPT !.deleted = TRUE].id = m.id
    BY <2>1 DEF Message
  <2> QED
    BY <2>1, <2>2
<1> HIDE DEF Blank
<1>4. message' \subseteq Message
  BY <1>2, <1>3
<1>5. ASSUME NEW v \in Conversations PROVE NumbersOK(v)'
  <2>1. NumbersOK(v)
    BY <1>1 DEF TablesOK
  <2>2. MessagesOf(v)' = {Blank(m) : m \in MessagesOf(v)}
    BY <1>2, <1>3 DEF MessagesOf
  <2>3. \A m \in MessagesOf(v) : Blank(m).seq = m.seq /\ Blank(m).id = m.id
    BY <1>3 DEF MessagesOf
  <2>4. {m.seq : m \in MessagesOf(v)'} = {m.seq : m \in MessagesOf(v)}
    BY <2>2, <2>3
  <2>5. \A m, n \in MessagesOf(v)' : m.seq = n.seq \/ m.id = n.id => m = n
    BY <2>1, <2>2, <2>3 DEF NumbersOK
  <2> QED
    BY <1>2, <2>1, <2>4, <2>5 DEF NumbersOK
<1>6. TablesOK'
  BY <1>1, <1>2, <1>4, <1>5 DEF TablesOK, KeysOK
<1> QED
  BY <1>2, <1>6, TaskEnds, ChatSame, ChatAssemble

-----------------------------------------------------------------------------
(* chat.gateway.                                                            *)

\* One socket is written.
LEMMA SocketWrite ==
    ASSUME RoomsInv, NEW s \in Sockets, NEW x \in Socket, socket' = [socket EXCEPT ![s] = x],
           IsFiniteSet(x.rooms), Cardinality(x.rooms) <= MaxRooms,
           UNCHANGED <<live, notices, sweep>>
    PROVE  GatewayOK'
<1>1. GatewayOK
  BY ChatParts
<1>2. /\ socket' \in [Sockets -> Socket] /\ socket'[s] = x
      /\ \A y \in Sockets \ {s} : socket'[y] = socket[y]
  BY <1>1 DEF GatewayOK
<1>3. RoomsOK'
  BY <1>1, <1>2 DEF GatewayOK, RoomsOK
<1> QED
  BY <1>1, <1>2, <1>3 DEF GatewayOK

\* The rooms of a closed socket, and of one that is written.
LEMMA SocketKnows ==
    ASSUME RoomsInv, NEW s \in Sockets
    PROVE  /\ socket \in [Sockets -> Socket] /\ socket[s] \in Socket
           /\ socket[s].rooms \in SUBSET Conversations
           /\ IsFiniteSet(socket[s].rooms) /\ Cardinality(socket[s].rooms) \in Nat
           /\ Cardinality(socket[s].rooms) <= MaxRooms /\ MaxRooms \in Nat
<1>1. socket \in [Sockets -> Socket] /\ RoomsOK
  BY ChatParts DEF GatewayOK
<1>2. socket[s] \in Socket
  BY <1>1
<1>3. socket[s].rooms \in SUBSET Conversations
  BY <1>2 DEF Socket
<1> QED
  BY <1>1, <1>2, <1>3, FS_CardinalityType, ChatAssumption DEF RoomsOK

\* A closed socket is in no room.
LEMMA ClosedKnows ==
    /\ Closed \in Socket /\ Closed.rooms = {} /\ IsFiniteSet(Closed.rooms)
    /\ Cardinality(Closed.rooms) <= MaxRooms
<1>1. Closed \in Socket /\ Closed.rooms = {}
  BY DEF Closed, Socket
<1>2. MaxRooms \in Nat /\ IsFiniteSet({}) /\ Cardinality({}) = 0
  BY ChatAssumption, FS_EmptySet
<1>3. 0 <= MaxRooms
  BY <1>2
<1> QED
  BY <1>1, <1>2, <1>3

\* A set of sockets is disconnected.
LEMMA DisconnectKeeps ==
    ASSUME RoomsInv, NEW S, Disconnect(S)
    PROVE  socket' \in [Sockets -> Socket] /\ RoomsOK'
<1>1. \A s \in Sockets : socket[s] \in Socket /\ IsFiniteSet(socket[s].rooms)
                         /\ Cardinality(socket[s].rooms) <= MaxRooms
  BY SocketKnows
<1>2. \A s \in Sockets : socket'[s] = IF s \in S THEN Closed ELSE socket[s]
  BY DEF Disconnect
<1>3. socket' \in [Sockets -> Socket]
  BY <1>1, ClosedKnows DEF Disconnect
<1> QED
  BY <1>1, <1>2, <1>3, ClosedKnows DEF RoomsOK

\* The rooms are counted when the participant has been looked up.
LEMMA EnterRoomKeeps ==
    ASSUME RoomsInv, NEW t \in Tasks, EnterRoom(t)
    PROVE  ChatKept
<1>1. /\ EndTask(t) /\ UNCHANGED <<chatTables, live, notices, sweep, calls, answers>>
      /\ task[t].step = "join" /\ TaskOK(task[t])
  BY ChatParts DEF EnterRoom, TaskAt, TasksOK
<1>2. PICK s \in Sockets : s = task[t].socket
  BY <1>1 DEF TaskOK
<1>3. PICK c \in Conversations : c = task[t].conversation
  BY <1>1 DEF TaskOK
<1>4. GatewayOK'
  <2>1. CASE UNCHANGED socket
    BY <1>1, <2>1, ChatSame DEF gateway
  <2>2. CASE RoomFree(s, c) /\ socket' = [socket EXCEPT ![s].rooms = @ \cup {c}]
    <3> DEFINE rooms == socket[s].rooms \cup {c}
               x == [socket[s] EXCEPT !.rooms = rooms]
    <3>1. socket' = [socket EXCEPT ![s] = x]
      BY <2>2, SocketKnows
    <3>2. rooms \in SUBSET Conversations
      BY SocketKnows
    <3>3. IsFiniteSet(rooms) /\ Cardinality(rooms) <= MaxRooms
      <4> DEFINE n == Cardinality(socket[s].rooms)
                 m == Cardinality(rooms)
      <4>1. IsFiniteSet(rooms) /\ m = IF c \in socket[s].rooms THEN n ELSE n + 1
        BY SocketKnows, FS_AddElement
      <4>2. n \in Nat /\ MaxRooms \in Nat /\ n <= MaxRooms /\ (c \in socket[s].rooms \/ n < MaxRooms)
        BY <2>2, SocketKnows DEF RoomFree
      <4> HIDE DEF n, m
      <4>3. m <= MaxRooms
        BY <4>1, <4>2
      <4> QED
        BY <4>1, <4>3 DEF m
    <3> HIDE DEF rooms
    <3>4. x \in Socket /\ x.rooms = rooms
      BY <3>2, SocketKnows DEF Socket
    <3> HIDE DEF x
    <3> QED
      BY <1>1, <3>1, <3>3, <3>4, SocketWrite
  <2> QED
    BY <1>2, <1>3, <2>1, <2>2 DEF EnterRoom
<1> QED
  BY <1>1, <1>4, TaskEnds, ChatSame, ChatAssemble

\* Only the gateway is touched.
LEMMA GatewayActs ==
    ASSUME RoomsInv, GatewayOK', UNCHANGED <<chatTables, task, calls, answers>>
    PROVE  ChatKept
BY ChatSame, ChatAssemble

\* A socket is authorised, connects, leaves a room or is lost.
LEMMA SocketsKeep ==
    ASSUME RoomsInv, NEW s \in Sockets
    PROVE  /\ \A u \in SocketUsers : ResolveIdentity(s, u) => ChatKept
           /\ Connect(s) => ChatKept
           /\ LoseConnection(s) => ChatKept
           /\ \A v \in Conversations : Leave(s, v) => ChatKept
<1>1. ASSUME NEW u \in SocketUsers, ResolveIdentity(s, u) PROVE ChatKept
  <2> DEFINE x == [Closed EXCEPT !.state = "resolved", !.user = u]
  <2>1. /\ socket' = [socket EXCEPT ![s] = x]
        /\ UNCHANGED <<chatTables, live, notices, sweep, task, calls, answers>>
    BY <1>1 DEF ResolveIdentity
  <2>2. x \in Socket /\ x.rooms = Closed.rooms
    BY ChatAssumption DEF Closed, Socket
  <2> HIDE DEF x
  <2> QED
    BY <2>1, <2>2, ClosedKnows, SocketWrite, GatewayActs
<1>2. ASSUME Connect(s) PROVE ChatKept
  <2> DEFINE x == [socket[s] EXCEPT !.state = "connected"]
  <2>1. /\ socket' = [socket EXCEPT ![s] = x]
        /\ UNCHANGED <<chatTables, live, notices, sweep, task, calls, answers>>
    BY <1>2, SocketKnows DEF Connect
  <2>2. x \in Socket /\ x.rooms = socket[s].rooms
    BY SocketKnows DEF Socket
  <2> HIDE DEF x
  <2> QED
    BY <2>1, <2>2, SocketKnows, SocketWrite, GatewayActs
<1>3. ASSUME LoseConnection(s) PROVE ChatKept
  <2>1. GatewayOK
    BY ChatParts
  <2>2. GatewayOK'
    BY <1>3, <2>1, DisconnectKeeps DEF LoseConnection, GatewayOK
  <2> QED
    BY <1>3, <2>2, GatewayActs DEF LoseConnection
<1>4. ASSUME NEW v \in Conversations, Leave(s, v) PROVE ChatKept
  <2> DEFINE rooms == socket[s].rooms \ {v}
             x == [socket[s] EXCEPT !.rooms = rooms]
  <2>1. /\ socket' = [socket EXCEPT ![s] = x]
        /\ UNCHANGED <<chatTables, live, notices, sweep, task, calls, answers>>
    BY <1>4, SocketKnows DEF Leave
  <2>2. rooms \in SUBSET Conversations /\ rooms \subseteq socket[s].rooms
    BY SocketKnows
  <2> HIDE DEF rooms
  <2>3. x \in Socket /\ x.rooms = rooms
    BY <2>2, SocketKnows DEF Socket
  <2> HIDE DEF x
  <2>4. /\ IsFiniteSet(rooms) /\ Cardinality(rooms) <= Cardinality(socket[s].rooms)
        /\ Cardinality(rooms) \in Nat
    BY <2>2, SocketKnows, FS_Subset, FS_CardinalityType
  <2>5. Cardinality(rooms) <= MaxRooms
    BY <2>4, SocketKnows
  <2> QED
    BY <2>1, <2>3, <2>4, <2>5, SocketWrite, GatewayActs
<1> QED
  BY <1>1, <1>2, <1>3, <1>4

\* A session is revoked, its notice arrives, the sweep runs.
LEMMA RevocationsKeep ==
    ASSUME RoomsInv
    PROVE  /\ \A u \in SocketUsers : RevokeSession(u) => ChatKept
           /\ \A u \in SocketUsers : ReceiveNotice(u) => ChatKept
           /\ SweepRead => ChatKept
           /\ SweepDisconnect => ChatKept
<1>1. GatewayOK
  BY ChatParts
<1>2. ASSUME NEW u \in SocketUsers, RevokeSession(u) PROVE ChatKept
  <2>1. GatewayOK'
    BY <1>1, <1>2 DEF RevokeSession, GatewayOK, RoomsOK
  <2> QED
    BY <1>2, <2>1, GatewayActs DEF RevokeSession
<1>3. ASSUME NEW u \in SocketUsers, ReceiveNotice(u) PROVE ChatKept
  <2>1. GatewayOK'
    BY <1>1, <1>3, DisconnectKeeps DEF ReceiveNotice, GatewayOK
  <2> QED
    BY <1>3, <2>1, GatewayActs DEF ReceiveNotice
<1>4. ASSUME SweepRead PROVE ChatKept
  <2>1. GatewayOK'
    BY <1>1, <1>4 DEF SweepRead, GatewayOK, RoomsOK
  <2> QED
    BY <1>4, <2>1, GatewayActs DEF SweepRead
<1>5. ASSUME SweepDisconnect PROVE ChatKept
  <2>1. socket' \in [Sockets -> Socket] /\ RoomsOK'
    BY <1>5, DisconnectKeeps DEF SweepDisconnect
  <2>2. GatewayOK'
    BY <1>1, <1>5, <2>1 DEF SweepDisconnect, GatewayOK
  <2> QED
    BY <1>5, <2>2, GatewayActs DEF SweepDisconnect
<1> QED
  BY <1>2, <1>3, <1>4, <1>5

-----------------------------------------------------------------------------
(* The theorems.                                                            *)

\* A group without messages, and nobody connected.
LEMMA ChatStart == ChatInit => RoomsInv
<1> SUFFICES ASSUME ChatInit PROVE RoomsInv
  OBVIOUS
<1> DEFINE row(v) == [exists |-> v = First, key |-> {}, lastSeq |-> 0,
                      read |-> [u \in ChatUsers |-> 0]]
<1>1. conversation = [v \in Conversations |-> row(v)]
  BY DEF ChatInit
<1>2. ASSUME NEW v \in Conversations
      PROVE  row(v) \in Conversation /\ row(v).key = {} /\ row(v).lastSeq = 0
  <2> DEFINE e == v = First
             r == [u \in ChatUsers |-> 0]
  <2>1. e \in BOOLEAN /\ r \in [ChatUsers -> Nat]
    OBVIOUS
  <2> HIDE DEF e, r
  <2>2. /\ [exists |-> e, key |-> {}, lastSeq |-> 0, read |-> r] \in Conversation
        /\ [exists |-> e, key |-> {}, lastSeq |-> 0, read |-> r].key = {}
        /\ [exists |-> e, key |-> {}, lastSeq |-> 0, read |-> r].lastSeq = 0
    BY <2>1 DEF Conversation
  <2> QED
    BY <2>2 DEF e, r
<1> HIDE DEF row
<1>3. /\ conversation \in [Conversations -> Conversation]
      /\ \A v \in Conversations : conversation[v].key = {} /\ conversation[v].lastSeq = 0
  BY <1>1, <1>2
<1>4. TablesOK
  BY <1>3 DEF ChatInit, TablesOK, KeysOK, NumbersOK, MessagesOf
<1>5. TasksOK
  BY IdleKnows DEF ChatInit, TasksOK
<1>6. socket \in [Sockets -> Socket] /\ RoomsOK
  BY ClosedKnows DEF ChatInit, RoomsOK
<1>7. GatewayOK
  BY <1>6 DEF ChatInit, GatewayOK
<1>8. calls \in 0..MaxCalls
  BY ChatAssumption DEF ChatInit
<1> QED
  BY <1>4, <1>5, <1>7, <1>8, ChatParts

\* Every step keeps the invariant.
LEMMA ChatStep ==
    ASSUME RoomsInv, [ChatNext]_chatVars
    PROVE  ChatKept
<1>1. ASSUME NEW t \in Tasks, ServiceStep(t) PROVE ChatKept
  <2>1. ASSUME NEW u \in ChatUsers, NEW v \in Conversations,
               \/ \E id \in MessageIds : SendMessage(t, u, v, id)
               \/ \E seq \in 0..conversation[v].lastSeq : MarkRead(t, u, v, seq)
        PROVE  ChatKept
    BY <2>1, LookupsKeep
  <2> QED
    BY <1>1, <2>1, LookupsKeep, CreateKeeps, InsertConversationKeeps, InsertMessageKeeps,
       WriteReadMarkKeeps, TombstoneKeeps, EnterRoomKeeps DEF ServiceStep
<1>2. ASSUME NEW s \in Sockets, SocketStep(s) PROVE ChatKept
  BY <1>2, SocketsKeep DEF SocketStep
<1>3. ASSUME NEW u \in SocketUsers, RevokeSession(u) \/ ReceiveNotice(u) PROVE ChatKept
  BY <1>3, RevocationsKeep
<1>4. ASSUME SweepStep PROVE ChatKept
  BY <1>4, RevocationsKeep DEF SweepStep
<1>5. ASSUME UNCHANGED chatVars PROVE ChatKept
  <2>1. UNCHANGED <<chatTables, gateway, task, calls, answers>>
    BY <1>5 DEF chatVars
  <2> QED
    BY <2>1, ChatSame, ChatAssemble
<1> QED
  BY <1>1, <1>2, <1>3, <1>4, <1>5 DEF ChatNext

\* The inductive invariant of conversations and sockets.
THEOREM ChatInvariant == ChatSpec => []RoomsInv
<1>1. RoomsInv /\ [ChatNext]_chatVars => RoomsInv'
  BY ChatStep DEF ChatKept
<1> QED
  BY <1>1, ChatStart, PTL DEF ChatSpec

\* Two users are given the same direct conversation however they open it, and a
\* socket is in at most CHAT_MAX_ROOMS rooms however its joins overlap.
THEOREM ChatTheorem == ChatSpec => []ChatInv
<1>1. RoomsInv => ChatInv
  BY DEF RoomsInv, ChatInv, KeysOK, RoomsOK, DirectAgreement, RoomLimit
<1> QED
  BY <1>1, ChatInvariant, PTL

\* Things with different numbers are as many as the numbers.
LEMMA Numbered ==
    ASSUME NEW S, NEW a \in Nat, NEW b \in Nat, a <= b,
           {m.seq : m \in S} = (a + 1)..b, \A m, n \in S : m.seq = n.seq => m = n
    PROVE  IsFiniteSet(S) /\ Cardinality(S) = b - a
<1> DEFINE T == (a + 1)..b
           f == [m \in S |-> m.seq]
<1>1. f \in [S -> T] /\ (\A m, n \in S : f[m] = f[n] => m = n) /\ \A x \in T : \E m \in S : f[m] = x
  OBVIOUS
<1>2. IsFiniteSet(T) /\ Cardinality(T) = b - a
  <2>1. IsFiniteSet(T) /\ Cardinality(T) = IF a + 1 > b THEN 0 ELSE b - (a + 1) + 1
    BY FS_Interval
  <2> QED
    BY <2>1
<1> HIDE DEF f, T
<1>3. f \in Bijection(S, T)
  BY <1>1 DEF Bijection, Injection, Surjection, IsInjective
<1>4. ExistsBijection(T, S)
  BY <1>3, Fun_ExistsBijSymmetric DEF ExistsBijection
<1> QED
  BY <1>2, <1>4, FS_Bijection

\* Things with different ids are as many as their ids.
LEMMA Identified ==
    ASSUME NEW S, IsFiniteSet(S), \A m, n \in S : m.id = n.id => m = n
    PROVE  Cardinality({m.id : m \in S}) = Cardinality(S)
<1> DEFINE T == {m.id : m \in S}
           f == [m \in S |-> m.id]
<1>1. f \in [S -> T] /\ (\A m, n \in S : f[m] = f[n] => m = n) /\ \A x \in T : \E m \in S : f[m] = x
  OBVIOUS
<1> HIDE DEF f, T
<1>2. f \in Bijection(S, T)
  BY <1>1 DEF Bijection, Injection, Surjection, IsInjective
<1>3. Cardinality(T) = Cardinality(S)
  BY <1>2, FS_Bijection DEF ExistsBijection
<1> QED
  BY <1>3 DEF T

\* A page after a number is the numbers that follow, PageSize of them at most.
LEMMA PageFollows ==
    ASSUME NEW v \in Conversations, NumbersOK(v), conversation[v].lastSeq \in Nat,
           NEW after \in 0..conversation[v].lastSeq
    PROVE  {m.seq : m \in ListMessages(v, after)} =
               {n \in 1..conversation[v].lastSeq : n > after /\ n <= after + PageSize}
<1> DEFINE last == conversation[v].lastSeq
           M == MessagesOf(v)
           behind == {m \in M : m.seq > after}
           upTo(k) == {n \in behind : n.seq <= k}
<1>1. /\ \A m, n \in M : m.seq = n.seq => m = n
      /\ {m.seq : m \in M} = 1..last /\ last \in Nat /\ after \in Nat /\ after <= last
      /\ PageSize \in Nat
  BY ChatAssumption DEF NumbersOK
<1> HIDE DEF M, last
<1>2. ASSUME NEW m \in behind PROVE Cardinality(upTo(m.seq)) = m.seq - after
  <2>1. m.seq \in 1..last /\ m.seq > after
    BY <1>1
  <2>2. PICK k \in Nat : k = m.seq /\ after <= k /\ k <= last
    BY <1>1, <2>1
  <2>3. {n.seq : n \in upTo(k)} = (after + 1)..k
    <3>1. ASSUME NEW x \in (after + 1)..k PROVE \E n \in upTo(k) : n.seq = x
      <4>1. x \in 1..last /\ x > after /\ x <= k
        BY <1>1, <2>2
      <4>2. PICK n \in M : n.seq = x
        BY <1>1, <4>1
      <4> QED
        BY <4>1, <4>2
    <3>2. ASSUME NEW n \in upTo(k) PROVE n.seq \in (after + 1)..k
      <4>1. n.seq \in 1..last /\ n.seq > after /\ n.seq <= k
        BY <1>1
      <4> QED
        BY <1>1, <2>2, <4>1
    <3> HIDE DEF upTo
    <3> QED
      BY <3>1, <3>2
  <2>4. \A x, y \in upTo(k) : x.seq = y.seq => x = y
    BY <1>1
  <2> HIDE DEF upTo
  <2>5. Cardinality(upTo(k)) = k - after
    BY <1>1, <2>2, <2>3, <2>4, Numbered
  <2> QED
    BY <2>2, <2>5
<1>3. ListMessages(v, after) = {m \in behind : Cardinality(upTo(m.seq)) <= PageSize}
  BY DEF ListMessages, M
<1> HIDE DEF upTo
<1>4. ListMessages(v, after) = {m \in behind : m.seq - after <= PageSize}
  BY <1>2, <1>3
<1>5. \A m \in M : m.seq \in 1..last
  BY <1>1
<1>6. \A x \in 1..last : \E m \in M : m.seq = x
  BY <1>1
<1>7. \A n \in 1..last : (n - after <= PageSize <=> n <= after + PageSize)
  BY <1>1
<1> QED
  BY <1>4, <1>5, <1>6, <1>7 DEF last

\* The rows of a conversation are numbered 1 to lastSeq, once each, a
\* clientMessageId is there once, and a page after a number is what follows it.
THEOREM DenseTheorem == ChatSpec => []DenseSequence
<1>1. ASSUME RoomsInv, NEW v \in Conversations
      PROVE  LET last == conversation[v].lastSeq
             IN  /\ {m.seq : m \in MessagesOf(v)} = 1..last
                 /\ Cardinality(MessagesOf(v)) = last
                 /\ Cardinality({m.id : m \in MessagesOf(v)}) = last
                 /\ \A after \in 0..last :
                       {m.seq : m \in ListMessages(v, after)} =
                           {n \in 1..last : n > after /\ n <= after + PageSize}
  <2> DEFINE last == conversation[v].lastSeq
             M == MessagesOf(v)
  <2>1. NumbersOK(v) /\ last \in Nat
    BY <1>1, RowKnows DEF RoomsInv
  <2>2. /\ {m.seq : m \in M} = 1..last
        /\ \A m, n \in M : (m.seq = n.seq => m = n) /\ (m.id = n.id => m = n)
    BY <2>1 DEF NumbersOK
  <2>3. \A after \in 0..last : {m.seq : m \in ListMessages(v, after)} =
                                   {n \in 1..last : n > after /\ n <= after + PageSize}
    BY <2>1, PageFollows
  <2> HIDE DEF last, M
  <2>4. IsFiniteSet(M) /\ Cardinality(M) = last
    <3>1. 0 <= last /\ {m.seq : m \in M} = (0 + 1)..last
      BY <2>1, <2>2
    <3>2. IsFiniteSet(M) /\ Cardinality(M) = last - 0
      BY <2>1, <2>2, <3>1, Numbered
    <3> QED
      BY <2>1, <3>2
  <2>5. Cardinality({m.id : m \in M}) = last
    BY <2>2, <2>4, Identified
  <2> QED
    BY <2>2, <2>3, <2>4, <2>5 DEF last, M
<1>2. RoomsInv => DenseSequence
  BY <1>1 DEF DenseSequence
<1> QED
  BY <1>2, ChatInvariant, PTL

=============================================================================
