------------------------ MODULE AuthorizationProofs -------------------------
(***************************************************************************)
(* Theorems about RefreshSessions and Access, for any number of users, roles,*)
(* requests, sessions and tokens, and any epochs.                           *)
(*                                                                          *)
(* RefreshSessions: the properties speak of committed rows, but what a commit *)
(* writes was decided earlier: the inductive invariant SessionsInv says how a *)
(* request's snapshot and locks relate to the rows of now.  The central part  *)
(* is in SnapshotOK: as long as lastSeenAt is the one of the snapshot, no      *)
(* token was added to the session, so a reuse revokes all there are.          *)
(*                                                                          *)
(* Access: AllowedWasGranted is not inductive.  A decision is kept under the   *)
(* epochs the request was authenticated with, and may have been made under     *)
(* others: the invariant GuardInv says that an allowed one is still right for   *)
(* whoever authenticates under the epochs of its key, and that every request    *)
(* under way with that key has seen the grant (DecisionOK).                    *)
(***************************************************************************)
EXTENDS RefreshSessions, Access, TLAPS

-----------------------------------------------------------------------------
(* Sessions and refresh tokens.                                             *)

\* A token's session was created, and lastSeen names a token that exists.
RowsInv ==
    /\ \A t \in Tokens : Exists(t) => session[token[t].session].state # "none"
    /\ \A s \in Sessions :
          session[s].lastSeen # NoToken => Exists(session[s].lastSeen)

Rotating(r) ==
    request[r].step \in {"consume", "touch", "reuseSession", "reuseTokens"}

\* What the snapshot of a rotation still says about the rows.
SnapshotOK(r) ==
    LET q == request[r]
        s == PresentedSession(r)
    IN  /\ q.token \in Tokens
        /\ q.seenTokens[q.token].session # NoSession
        /\ \A t \in Tokens :
              q.seenTokens[t].session # NoSession =>
                  /\ token[t].session = q.seenTokens[t].session
                  /\ q.seenTokens[t].revoked => token[t].revoked
        /\ q.seenSession.state # "none"
        /\ q.seenSession.state = "revoked" => session[s].state = "revoked"
        /\ q.seenSession.lastSeen # NoToken => Exists(q.seenSession.lastSeen)
        /\ session[s].lastSeen = q.seenSession.lastSeen =>
              \A t \in Tokens :
                  token[t].session = s => q.seenTokens[t].session = s

\* What a request knows at each of its steps.
StepOK(r) ==
    LET q == request[r]
        s == PresentedSession(r)
    IN  /\ Rotating(r) => SnapshotOK(r)
        /\ q.step \in {"consume", "touch"} =>
              /\ ~q.seenTokens[q.token].consumed
              /\ ~q.seenTokens[q.token].revoked
              /\ q.seenSession.state = "live"
        /\ q.step = "touch" =>
              tokenLock[q.token] = r /\ token[q.token] = q.seenTokens[q.token]
        /\ q.step = "reuseTokens" =>
              \/ q.seenSession.state = "revoked"
              \/ sessionLock[s] = r /\ session[s] = q.seenSession
        /\ q.step = "revokeSessions" => q.targets \subseteq q.scope
        /\ q.step = "revokeTokens" =>
              /\ \A t \in q.tokenTargets : Exists(t)
              /\ \A t \in Tokens :
                  /\ Exists(t) /\ ~token[t].revoked
                  /\ sessionLock[token[t].session] = r
                  => t \in q.tokenTargets

\* A lock of r is held by a request that is at a step with that lock.
TokenLockOK(r, t) == request[r].step = "touch" /\ request[r].token = t
SessionLockOK(r, s) ==
    /\ session[s].state = "live"
    /\ \/ request[r].step \in {"findTokens", "revokeTokens"} /\ s \in request[r].scope
       \/ request[r].step = "reuseTokens" /\ PresentedSession(r) = s

LocksInv ==
    /\ \A r \in Requests, t \in Tokens : tokenLock[t] = r => TokenLockOK(r, t)
    /\ \A r \in Requests, s \in Sessions : sessionLock[s] = r => SessionLockOK(r, s)

ReusedInv == \A s \in reused : session[s].state = "revoked"

SessionsInv ==
    /\ TypeOK
    /\ RowsInv
    /\ \A r \in Requests : StepOK(r)
    /\ LocksInv
    /\ ReusedInv
    /\ OneLiveToken
    /\ RevokedSessionIsDead

-----------------------------------------------------------------------------
(* Types.                                                                   *)

\* The empty tables and the idle requests are well formed.
LEMMA InitType == Init => TypeOK
BY NoneAssumption DEF Init, TypeOK, Session, NewSession, RefreshToken, NewToken, NoTokens,
   Request, Idle, Steps

\* An idle request is a request.
LEMMA IdleType == Idle \in Request
BY DEF Idle, Request, Steps, NewSession, Session, NoTokens, NewToken, RefreshToken

\* Releasing the locks of a request keeps their types.
LEMMA UnlockType ==
    ASSUME TypeOK, NEW r \in Requests, Unlock(r)
    PROVE  /\ sessionLock' \in [Sessions -> Requests \cup {NoRequest}]
           /\ tokenLock' \in [Tokens -> Requests \cup {NoRequest}]
BY DEF TypeOK, Unlock

\* The end of a request keeps the type of the requests.
LEMMA EndType ==
    ASSUME TypeOK, NEW r \in Requests, End(r)
    PROVE  request' \in [Requests -> Request]
BY IdleType DEF TypeOK, End

\* A step to another place keeps the type of the requests.
LEMMA GotoType ==
    ASSUME TypeOK, NEW r \in Requests, NEW step \in Steps, Goto(r, step)
    PROVE  request' \in [Requests -> Request]
<1>1. request \in [Requests -> Request] /\ request[r] \in Request
  BY DEF TypeOK
<1>2. [request[r] EXCEPT !.step = step] \in Request
  BY <1>1 DEF Request
<1>3. request' = [request EXCEPT ![r] = [request[r] EXCEPT !.step = step]]
  BY DEF Goto
<1> QED
  BY <1>1, <1>2, <1>3

-----------------------------------------------------------------------------
(* The other requests.                                                      *)

\* What a step of r does to the locks: it takes free ones and releases its own.
LocksMove(r) ==
    /\ \A s \in Sessions :
          \/ sessionLock'[s] = sessionLock[s]
          \/ {sessionLock[s], sessionLock'[s]} \subseteq {r, NoRequest}
    /\ \A t \in Tokens :
          \/ tokenLock'[t] = tokenLock[t]
          \/ {tokenLock[t], tokenLock'[t]} \subseteq {r, NoRequest}

\* What a step of r does to the rows: it changes no row another request has
\* locked, and a token it adds to a session is the session's new lastSeen.
TokenMove(r, t) ==
    \/ token'[t] = token[t]
    \/ /\ Exists(t)
       /\ tokenLock[t] \in {r, NoRequest}
       /\ token'[t].session = token[t].session
       /\ token[t].revoked => token'[t].revoked
    \/ /\ ~Exists(t)
       /\ token'[t].session \in Sessions
       /\ sessionLock[token'[t].session] = NoRequest
       /\ \/ session[token'[t].session].state = "none"
          \/ session'[token'[t].session].lastSeen = t

SessionMove(r, s) ==
    \/ session'[s] = session[s]
    \/ session[s].state = "none" /\ session'[s].lastSeen = session[s].lastSeen
    \/ /\ sessionLock[s] \in {r, NoRequest}
       /\ session'[s].state \in {session[s].state, "revoked"}
       /\ \/ session'[s].lastSeen = session[s].lastSeen
          \/ /\ session'[s].lastSeen \in Tokens
             /\ ~Exists(session'[s].lastSeen)
             /\ token'[session'[s].lastSeen].session = s

RowsMove(r) ==
    /\ \A t \in Tokens : TokenMove(r, t)
    /\ \A s \in Sessions : SessionMove(r, s)

\* A row that exists keeps its session.
LEMMA ExistsStays ==
    ASSUME SessionsInv, NEW r \in Requests, RowsMove(r), NEW t \in Tokens, Exists(t)
    PROVE  /\ Exists(t)'
           /\ token'[t].session = token[t].session
           /\ token[t].revoked => token'[t].revoked
           /\ token[t].session \in Sessions
BY DEF SessionsInv, TypeOK, RefreshToken, RowsMove, TokenMove, Exists

\* What another request's snapshot says stays true.
LEMMA SnapshotStays ==
    ASSUME SessionsInv, TypeOK', NEW r \in Requests, RowsMove(r),
           NEW q \in Requests, request'[q] = request[q], SnapshotOK(q)
    PROVE  SnapshotOK(q)' /\ PresentedSession(q)' = PresentedSession(q)
<1> DEFINE me == request[q]
           s == PresentedSession(q)
<1>1. /\ me \in Request
      /\ me.token \in Tokens
      /\ me.seenTokens \in [Tokens -> RefreshToken]
      /\ me.seenTokens[me.token].session # NoSession
  BY DEF SessionsInv, TypeOK, SnapshotOK, Request
<1>2. Exists(me.token)
  BY <1>1 DEF SnapshotOK, Exists
<1>3. s \in Sessions /\ PresentedSession(q)' = s
  BY <1>1, <1>2, ExistsStays DEF PresentedSession
<1>4. session[s].state # "none"
  BY <1>1, <1>2 DEF SessionsInv, RowsInv, PresentedSession
<1>5. SessionMove(r, s)
  BY <1>3 DEF RowsMove
<1>6. ASSUME NEW t \in Tokens, me.seenTokens[t].session # NoSession
      PROVE  /\ token'[t].session = me.seenTokens[t].session
             /\ me.seenTokens[t].revoked => token'[t].revoked
  <2>1. /\ token[t].session = me.seenTokens[t].session
        /\ me.seenTokens[t].revoked => token[t].revoked
    BY <1>6 DEF SnapshotOK
  <2>2. Exists(t)
    BY <1>6, <2>1 DEF Exists
  <2> QED
    BY <2>1, <2>2, ExistsStays
<1>7. /\ me.seenSession.state # "none"
      /\ me.seenSession.state = "revoked" => session'[s].state = "revoked"
  BY <1>4, <1>5 DEF SnapshotOK, SessionMove
<1>8. me.seenSession.lastSeen \in Tokens \cup {NoToken}
  BY <1>1 DEF Request, Session
<1>9. ASSUME me.seenSession.lastSeen # NoToken
      PROVE  Exists(me.seenSession.lastSeen)'
  BY <1>8, <1>9, ExistsStays DEF SnapshotOK
<1>10. ASSUME session'[s].lastSeen = me.seenSession.lastSeen,
              NEW t \in Tokens, token'[t].session = s
       PROVE  me.seenTokens[t].session = s
  <2>1. session[s].lastSeen = me.seenSession.lastSeen
    BY <1>4, <1>5, <1>8, <1>10, NoneAssumption DEF SnapshotOK, SessionMove
  <2>2. CASE Exists(t)
    <3>1. token[t].session = s
      BY <1>10, <2>2, ExistsStays
    <3> QED
      BY <2>1, <3>1 DEF SnapshotOK
  <2>3. CASE ~Exists(t)
    <3>1. TokenMove(r, t)
      BY DEF RowsMove
    <3>2. token'[t] # token[t]
      BY <1>3, <1>10, <2>3, NoneAssumption DEF Exists
    <3>3. session'[s].lastSeen = t
      BY <1>4, <1>10, <2>3, <3>1, <3>2 DEF TokenMove
    <3>4. me.seenSession.lastSeen # NoToken /\ ~Exists(me.seenSession.lastSeen)
      BY <1>10, <2>3, <3>3, NoneAssumption
    <3> QED
      BY <3>4 DEF SnapshotOK
  <2> QED
    BY <2>2, <2>3
<1> QED
  BY <1>1, <1>3, <1>6, <1>7, <1>9, <1>10 DEF SnapshotOK, PresentedSession, Exists

\* A step of r leaves what another request knows, and its locks.
LEMMA OthersStay ==
    ASSUME SessionsInv, TypeOK', NEW r \in Requests, LocksMove(r), RowsMove(r),
           NEW q \in Requests, q # r, request'[q] = request[q]
    PROVE  /\ StepOK(q)'
           /\ \A t \in Tokens : tokenLock'[t] = q => TokenLockOK(q, t)'
           /\ \A s \in Sessions : sessionLock'[s] = q => SessionLockOK(q, s)'
<1> DEFINE me == request[q]
           s == PresentedSession(q)
<1>1. StepOK(q) /\ me \in Request /\ q # NoRequest
  BY NoneAssumption DEF SessionsInv, TypeOK
<1>2. \A t \in Tokens : tokenLock'[t] = q <=> tokenLock[t] = q
  BY <1>1 DEF LocksMove
<1>3. \A x \in Sessions : sessionLock'[x] = q <=> sessionLock[x] = q
  BY <1>1 DEF LocksMove
<1>4. ASSUME Rotating(q)
      PROVE  /\ SnapshotOK(q) /\ SnapshotOK(q)' /\ Rotating(q)'
             /\ PresentedSession(q)' = s
             /\ me.token \in Tokens /\ Exists(me.token) /\ s \in Sessions
  <2>1. SnapshotOK(q) /\ Rotating(q)'
    BY <1>1, <1>4 DEF StepOK, Rotating
  <2>2. SnapshotOK(q)' /\ PresentedSession(q)' = s
    BY <2>1, SnapshotStays
  <2>3. me.token \in Tokens /\ Exists(me.token)
    BY <2>1 DEF SnapshotOK, Exists
  <2> QED
    BY <2>1, <2>2, <2>3, ExistsStays DEF PresentedSession
<1>5. ASSUME me.step = "touch"
      PROVE  /\ tokenLock'[me.token] = q
             /\ token'[me.token] = me.seenTokens[me.token]
  <2>1. me.token \in Tokens /\ Exists(me.token)
    BY <1>4, <1>5 DEF Rotating
  <2>2. tokenLock[me.token] = q /\ token[me.token] = me.seenTokens[me.token]
    BY <1>1, <1>5 DEF StepOK
  <2>3. TokenMove(r, me.token)
    BY <2>1 DEF RowsMove
  <2> QED
    BY <1>1, <1>2, <2>1, <2>2, <2>3 DEF TokenMove
<1>6. ASSUME NEW x \in Sessions, sessionLock[x] = q
      PROVE  session'[x] = session[x] /\ session[x].state = "live"
  <2>1. session[x].state = "live"
    BY <1>6 DEF SessionsInv, LocksInv, SessionLockOK
  <2> QED
    BY <1>1, <1>6, <2>1 DEF RowsMove, SessionMove
<1>7. ASSUME me.step = "reuseTokens"
      PROVE  \/ me.seenSession.state = "revoked"
             \/ sessionLock'[s] = q /\ session'[s] = me.seenSession
  <2>1. s \in Sessions
    BY <1>4, <1>7 DEF Rotating
  <2> QED
    BY <1>1, <1>3, <1>6, <1>7, <2>1 DEF StepOK
<1>8. ASSUME me.step = "revokeTokens", NEW t \in Tokens,
             token'[t].session # NoSession, ~token'[t].revoked,
             sessionLock'[token'[t].session] = q
      PROVE  t \in me.tokenTargets
  <2>1. token'[t].session \in Sessions
    BY <1>8 DEF TypeOK, RefreshToken
  <2>2. sessionLock[token'[t].session] = q
    BY <1>3, <1>8, <2>1
  <2>3. TokenMove(r, t)
    BY DEF RowsMove
  <2>4. Exists(t)
    BY <1>1, <1>8, <2>2, <2>3 DEF TokenMove, Exists
  <2>5. token[t].session = token'[t].session /\ ~token[t].revoked
    BY <1>8, <2>4, ExistsStays
  <2> QED
    BY <1>1, <1>8, <2>2, <2>4, <2>5 DEF StepOK
<1>9. StepOK(q)'
  <2>1. Rotating(q)' => SnapshotOK(q)'
    BY <1>4 DEF Rotating
  <2>2. me.step \in {"consume", "touch"} =>
              /\ ~me.seenTokens[me.token].consumed
              /\ ~me.seenTokens[me.token].revoked
              /\ me.seenSession.state = "live"
    BY <1>1 DEF StepOK
  <2>3. me.step = "reuseTokens" => PresentedSession(q)' = s
    BY <1>4 DEF Rotating
  <2>4. me.step = "revokeSessions" => me.targets \subseteq me.scope
    BY <1>1 DEF StepOK
  <2>5. me.step = "revokeTokens" => \A t \in me.tokenTargets : Exists(t)'
    BY <1>1, ExistsStays DEF StepOK, Request
  <2> QED
    BY <1>5, <1>7, <1>8, <2>1, <2>2, <2>3, <2>4, <2>5 DEF StepOK, Exists
<1>10. ASSUME NEW t \in Tokens, tokenLock'[t] = q
       PROVE  TokenLockOK(q, t)'
  BY <1>2, <1>10 DEF SessionsInv, LocksInv, TokenLockOK
<1>11. ASSUME NEW x \in Sessions, sessionLock'[x] = q
       PROVE  SessionLockOK(q, x)'
  <2>1. SessionLockOK(q, x) /\ session'[x] = session[x]
    BY <1>3, <1>6, <1>11 DEF SessionsInv, LocksInv
  <2>2. me.step = "reuseTokens" => PresentedSession(q)' = s
    BY <1>4 DEF Rotating
  <2> QED
    BY <2>1, <2>2 DEF SessionLockOK
<1> QED
  BY <1>9, <1>10, <1>11

-----------------------------------------------------------------------------
(* Steps that change no row.                                                *)

\* Rows that stay move in no way.
LEMMA RowsStay ==
    ASSUME NEW r \in Requests, UNCHANGED rows
    PROVE  RowsMove(r)
BY DEF rows, RowsMove, TokenMove, SessionMove

\* A step of r that changes no row keeps the invariant when r still knows what
\* its new step needs and its locks are the ones of that step.
LEMMA PlainStep ==
    ASSUME SessionsInv, TypeOK', NEW r \in Requests, UNCHANGED <<rows, reused>>,
           LocksMove(r), \A q \in Requests \ {r} : request'[q] = request[q],
           StepOK(r)',
           \A t \in Tokens : tokenLock'[t] = r => TokenLockOK(r, t)',
           \A s \in Sessions : sessionLock'[s] = r => SessionLockOK(r, s)'
    PROVE  SessionsInv'
<1>1. RowsMove(r)
  BY RowsStay
<1>2. \A q \in Requests : StepOK(q)'
  BY <1>1, OthersStay
<1>3. LocksInv'
  BY <1>1, OthersStay DEF LocksInv
<1>4. RowsInv' /\ ReusedInv' /\ OneLiveToken' /\ RevokedSessionIsDead'
  BY DEF SessionsInv, rows, RowsInv, ReusedInv, OneLiveToken, RevokedSessionIsDead,
     Live, Exists
<1> QED
  BY <1>2, <1>3, <1>4 DEF SessionsInv

\* The end of a request releases its locks and leaves nothing to know.
LEMMA EndStep ==
    ASSUME SessionsInv, NEW r \in Requests, Unlock(r), End(r)
    PROVE  /\ LocksMove(r)
           /\ \A q \in Requests \ {r} : request'[q] = request[q]
           /\ StepOK(r)'
           /\ \A t \in Tokens : tokenLock'[t] # r
           /\ \A s \in Sessions : sessionLock'[s] # r
<1>1. LocksMove(r)
  BY DEF Unlock, LocksMove
<1>2. request'[r] = Idle /\ \A q \in Requests \ {r} : request'[q] = request[q]
  BY DEF SessionsInv, TypeOK, End
<1>3. StepOK(r)'
  BY <1>2 DEF StepOK, Rotating, Idle
<1> QED
  BY <1>1, <1>2, <1>3, NoneAssumption DEF Unlock

\* An aborted transaction has done nothing.
LEMMA AbortStep ==
    ASSUME SessionsInv, NEW r \in Requests, Unlock(r), End(r),
           UNCHANGED <<rows, reused>>
    PROVE  SessionsInv'
<1>1. TypeOK'
  BY UnlockType, EndType DEF SessionsInv, TypeOK, rows
<1> QED
  BY <1>1, EndStep, PlainStep

\* Only the step of r changes.
LEMMA GotoStep ==
    ASSUME SessionsInv, NEW r \in Requests, NEW step \in Steps, Goto(r, step)
    PROVE  /\ request' \in [Requests -> Request]
           /\ request'[r] = [request[r] EXCEPT !.step = step]
           /\ request'[r].step = step
           /\ request'[r].token = request[r].token
           /\ request'[r].seenSession = request[r].seenSession
           /\ request'[r].seenTokens = request[r].seenTokens
           /\ request'[r].scope = request[r].scope
           /\ request'[r].targets = request[r].targets
           /\ \A q \in Requests \ {r} : request'[q] = request[q]
<1>1. request \in [Requests -> Request] /\ request[r] \in Request
  BY DEF SessionsInv, TypeOK
<1>2. /\ request'[r] = [request[r] EXCEPT !.step = step]
      /\ \A q \in Requests \ {r} : request'[q] = request[q]
  BY <1>1 DEF Goto
<1>3. request' \in [Requests -> Request]
  BY GotoType DEF SessionsInv
<1> QED
  BY <1>1, <1>2, <1>3 DEF Request

\* A snapshot stays right while no row changes.
LEMMA SnapshotKept ==
    ASSUME SessionsInv, NEW r \in Requests, SnapshotOK(r), UNCHANGED <<session, token>>,
           NEW step \in Steps, Goto(r, step)
    PROVE  SnapshotOK(r)' /\ PresentedSession(r)' = PresentedSession(r)
<1>1. /\ request'[r].token = request[r].token
      /\ request'[r].seenSession = request[r].seenSession
      /\ request'[r].seenTokens = request[r].seenTokens
  BY GotoStep
<1>2. PresentedSession(r)' = PresentedSession(r)
  BY <1>1 DEF PresentedSession
<1>3. \A t : Exists(t)' <=> Exists(t)
  BY DEF Exists
<1> QED
  BY <1>1, <1>2, <1>3 DEF SnapshotOK

\* A request that is not at a step with locks holds none.
LEMMA NoLocks ==
    ASSUME SessionsInv, NEW r \in Requests
    PROVE  /\ request[r].step # "touch" => \A t \in Tokens : tokenLock[t] # r
           /\ request[r].step \notin {"findTokens", "revokeTokens", "reuseTokens"} =>
                 \A s \in Sessions : sessionLock[s] # r
BY DEF SessionsInv, LocksInv, TokenLockOK, SessionLockOK

\* Locks that stay move in no way.
LEMMA LocksStay ==
    ASSUME NEW r \in Requests, UNCHANGED locks
    PROVE  LocksMove(r)
BY DEF locks, LocksMove

\* A verified login holds nothing.
LEMMA LoginStays ==
    ASSUME SessionsInv, NEW r \in Requests, Login(r)
    PROVE  SessionsInv'
<1>1. Goto(r, "create") /\ "create" \in Steps /\ UNCHANGED <<rows, locks, reused>>
  BY DEF Login, Steps
<1>2. TypeOK'
  BY <1>1, GotoStep DEF SessionsInv, TypeOK, rows, locks
<1>3. StepOK(r)'
  BY <1>1, GotoStep DEF StepOK, Rotating
<1>4. /\ \A t \in Tokens : tokenLock'[t] # r
      /\ \A s \in Sessions : sessionLock'[s] # r
  BY <1>1, NoLocks DEF Login, At, locks
<1> QED
  BY <1>1, <1>2, <1>3, <1>4, GotoStep, LocksStay, PlainStep

\* The first read of a rotation takes a snapshot of the rows.
LEMMA RotateReadStays ==
    ASSUME SessionsInv, NEW r \in Requests, NEW t \in Tokens, RotateRead(r, t)
    PROVE  SessionsInv'
<1> DEFINE next == IF Unusable(t) THEN "reuseSession" ELSE "consume"
           me == [Idle EXCEPT !.step = next, !.token = t,
                              !.seenSession = session[token[t].session],
                              !.seenTokens = token]
<1>1. next \in {"reuseSession", "consume"}
  OBVIOUS
<1>2. ~Unusable(t) <=> next = "consume"
  OBVIOUS
<1> HIDE DEF next
<1>3. /\ request' = [request EXCEPT ![r] = me]
      /\ UNCHANGED <<rows, locks, reused>>
      /\ Exists(t) /\ request[r].step = "idle"
  BY DEF RotateRead, next, At
<1>4. token[t].session \in Sessions /\ session[token[t].session] \in Session
  BY <1>3 DEF SessionsInv, TypeOK, RefreshToken, Exists
<1>5. /\ me.step = next /\ me.token = t /\ me.seenTokens = token
      /\ me.seenSession = session[token[t].session]
  BY DEF Idle
<1>6. me \in Request
  <2>1. token \in [Tokens -> RefreshToken]
    BY DEF SessionsInv, TypeOK
  <2> QED
    BY <1>1, <1>4, <2>1 DEF Idle, Request, Steps
<1> HIDE DEF me
<1>7. request'[r] = me /\ \A q \in Requests \ {r} : request'[q] = request[q]
  BY <1>3 DEF SessionsInv, TypeOK
<1>8. TypeOK'
  BY <1>3, <1>6 DEF SessionsInv, TypeOK, rows, locks
<1>9. SnapshotOK(r)'
  <2>1. token' = token /\ session' = session
    BY <1>3 DEF rows
  <2>2. session[token[t].session].state # "none"
    BY <1>3 DEF SessionsInv, RowsInv
  <2>3. session[token[t].session].lastSeen # NoToken =>
           Exists(session[token[t].session].lastSeen)
    BY <1>4 DEF SessionsInv, RowsInv
  <2> QED
    BY <1>3, <1>5, <1>7, <2>1, <2>2, <2>3 DEF SnapshotOK, PresentedSession, Exists
<1>10. StepOK(r)'
  <2>1. next = "consume" =>
           /\ ~token[t].consumed /\ ~token[t].revoked
           /\ session[token[t].session].state = "live"
    <3>1. session[token[t].session].state \in {"live", "revoked"}
      BY <1>3, <1>4 DEF SessionsInv, RowsInv, Session
    <3> QED
      BY <1>2, <3>1 DEF Unusable
  <2> QED
    BY <1>1, <1>5, <1>7, <1>9, <2>1 DEF StepOK
<1>11. /\ \A u \in Tokens : tokenLock'[u] # r
       /\ \A s \in Sessions : sessionLock'[s] # r
  BY <1>3, NoLocks DEF locks
<1> QED
  BY <1>3, <1>7, <1>8, <1>10, <1>11, LocksStay, PlainStep

\* A rotation locks the token it consumes, as its snapshot shows it.
LEMMA ConsumeTokenStays ==
    ASSUME SessionsInv, NEW r \in Requests, ConsumeToken(r)
    PROVE  SessionsInv'
<1> DEFINE t == request[r].token
<1>1. /\ request[r].step = "consume" /\ tokenLock[t] = NoRequest
      /\ token[t] = request[r].seenTokens[t]
      /\ tokenLock' = [tokenLock EXCEPT ![t] = r]
      /\ Goto(r, "touch") /\ "touch" \in Steps
      /\ UNCHANGED <<rows, sessionLock, reused>>
  BY DEF ConsumeToken, At, TokenChanged, SerializationFailure, LockToken, Steps
<1>2. StepOK(r) /\ SnapshotOK(r) /\ t \in Tokens
  BY <1>1 DEF SessionsInv, StepOK, Rotating, SnapshotOK
<1>3. TypeOK'
  BY <1>1, <1>2, GotoStep DEF SessionsInv, TypeOK, rows
<1>4. token' = token /\ session' = session /\ tokenLock'[t] = r
  BY <1>1, <1>2 DEF SessionsInv, TypeOK, rows
<1>5. SnapshotOK(r)'
  BY <1>1, <1>2, <1>4, SnapshotKept
<1>6. StepOK(r)'
  BY <1>1, <1>2, <1>4, <1>5, GotoStep DEF StepOK
<1>7. LocksMove(r)
  BY <1>1 DEF SessionsInv, TypeOK, LocksMove
<1>8. \A u \in Tokens : tokenLock'[u] = r => TokenLockOK(r, u)'
  <2>1. \A u \in Tokens : tokenLock'[u] = r => u = t
    BY <1>1, NoLocks DEF SessionsInv, TypeOK
  <2>2. request'[r].step = "touch" /\ request'[r].token = t
    BY <1>1, GotoStep
  <2> QED
    BY <2>1, <2>2 DEF TokenLockOK
<1>9. \A s \in Sessions : sessionLock'[s] # r
  BY <1>1, NoLocks
<1> QED
  BY <1>1, <1>3, <1>6, <1>7, <1>8, <1>9, GotoStep, PlainStep

\* A reuse locks the session to revoke, as its snapshot shows it, unless the
\* snapshot shows it revoked.
LEMMA ReuseRevokeSessionStays ==
    ASSUME SessionsInv, NEW r \in Requests, ReuseRevokeSession(r)
    PROVE  SessionsInv'
<1> DEFINE s == PresentedSession(r)
           me == request[r]
<1>1. /\ me.step = "reuseSession"
      /\ Goto(r, "reuseTokens") /\ "reuseTokens" \in Steps
      /\ UNCHANGED <<rows, tokenLock, reused>>
  BY DEF ReuseRevokeSession, At, Steps
<1>2. StepOK(r) /\ SnapshotOK(r) /\ me \in Request
  BY <1>1 DEF SessionsInv, TypeOK, StepOK, Rotating
<1>3. s \in Sessions
  BY <1>2 DEF SnapshotOK, PresentedSession, SessionsInv, TypeOK, RefreshToken
<1>4. token' = token /\ session' = session
  BY <1>1 DEF rows
<1>5. SnapshotOK(r)' /\ PresentedSession(r)' = s
  BY <1>1, <1>2, <1>4, SnapshotKept
<1>6. \A t \in Tokens : tokenLock'[t] # r
  BY <1>1, NoLocks
<1>7. \A x \in Sessions : sessionLock[x] # r
  BY <1>1, NoLocks
<1>8. /\ request'[r].step = "reuseTokens"
      /\ request'[r].seenSession = me.seenSession
  BY <1>1, GotoStep
<1>9. CASE me.seenSession.state = "revoked" /\ UNCHANGED sessionLock
  <2>1. TypeOK'
    BY <1>1, <1>9, GotoStep DEF SessionsInv, TypeOK, rows
  <2>2. StepOK(r)'
    BY <1>5, <1>8, <1>9 DEF StepOK
  <2>3. LocksMove(r)
    BY <1>1, <1>9 DEF LocksMove
  <2> QED
    BY <1>1, <1>6, <1>7, <1>9, <2>1, <2>2, <2>3, GotoStep, PlainStep
<1>10. CASE /\ me.seenSession.state # "revoked"
            /\ sessionLock[s] = NoRequest
            /\ ~SessionChanged(r)
            /\ LockSessions(r, {s})
  <2>1. /\ sessionLock' \in [Sessions -> Requests \cup {NoRequest}]
        /\ sessionLock'[s] = r
        /\ \A x \in Sessions \ {s} : sessionLock'[x] = sessionLock[x]
    BY <1>3, <1>10 DEF LockSessions, SessionsInv, TypeOK
  <2>2. TypeOK'
    BY <1>1, <2>1, GotoStep DEF SessionsInv, TypeOK, rows
  <2>3. session[s] = me.seenSession
    BY <1>10 DEF SessionChanged, SerializationFailure
  <2>4. session[s].state = "live"
    BY <1>2, <1>10, <2>3 DEF SnapshotOK, Request, Session
  <2>5. StepOK(r)'
    BY <1>4, <1>5, <1>8, <2>1, <2>3 DEF StepOK
  <2>6. LocksMove(r)
    BY <1>1, <1>10, <2>1 DEF LocksMove
  <2>7. \A x \in Sessions : sessionLock'[x] = r => SessionLockOK(r, x)'
    BY <1>4, <1>5, <1>7, <1>8, <2>1, <2>4 DEF SessionLockOK
  <2> QED
    BY <1>1, <1>6, <2>2, <2>5, <2>6, <2>7, GotoStep, PlainStep
<1> QED
  BY <1>9, <1>10 DEF ReuseRevokeSession

\* A revocation starts with no lock.
LEMMA BeginRevocationStays ==
    ASSUME SessionsInv, NEW r \in Requests, NEW scope \in RevocationScopes,
           NEW deactivates \in BOOLEAN, BeginRevocation(r, scope, deactivates)
    PROVE  SessionsInv'
<1> DEFINE targets == {s \in scope : session[s].state = "live"}
           me == [Idle EXCEPT !.step = "revokeSessions", !.scope = scope,
                              !.targets = targets, !.deactivates = deactivates]
<1>1. /\ request[r].step = "idle"
      /\ request' = [request EXCEPT ![r] = me]
      /\ UNCHANGED <<rows, locks, reused>>
  BY DEF BeginRevocation, At
<1>2. scope \subseteq Sessions /\ targets \subseteq scope
  BY DEF RevocationScopes
<1> HIDE DEF targets
<1>3. me \in Request
  BY <1>2, IdleType DEF Request, Steps, Idle
<1>4. me.step = "revokeSessions" /\ me.scope = scope /\ me.targets = targets
  BY DEF Idle
<1> HIDE DEF me
<1>5. request'[r] = me /\ \A q \in Requests \ {r} : request'[q] = request[q]
  BY <1>1 DEF SessionsInv, TypeOK
<1>6. TypeOK'
  BY <1>1, <1>3 DEF SessionsInv, TypeOK, rows, locks
<1>7. StepOK(r)'
  BY <1>2, <1>4, <1>5 DEF StepOK, Rotating
<1>8. /\ \A t \in Tokens : tokenLock'[t] # r
      /\ \A s \in Sessions : sessionLock'[s] # r
  BY <1>1, NoLocks DEF locks
<1> QED
  BY <1>1, <1>5, <1>6, <1>7, <1>8, LocksStay, PlainStep

\* A revocation locks sessions of its scope that are live.
LEMMA RevokeSessionsStays ==
    ASSUME SessionsInv, NEW r \in Requests, RevokeSessions(r)
    PROVE  SessionsInv'
<1> DEFINE me == request[r]
           S == {s \in me.targets : session[s].state = "live"}
<1>1. /\ me.step = "revokeSessions"
      /\ \A s \in me.targets : sessionLock[s] = NoRequest
      /\ LockSessions(r, S)
      /\ Goto(r, "findTokens") /\ "findTokens" \in Steps
      /\ UNCHANGED <<rows, tokenLock, reused>>
  BY DEF RevokeSessions, At, Steps
<1>2. S \subseteq me.scope /\ \A s \in S : session[s].state = "live" /\ sessionLock[s] = NoRequest
  BY <1>1 DEF SessionsInv, StepOK
<1> HIDE DEF S
<1>3. /\ sessionLock' \in [Sessions -> Requests \cup {NoRequest}]
      /\ \A s \in Sessions : sessionLock'[s] = IF s \in S THEN r ELSE sessionLock[s]
  BY <1>1 DEF LockSessions, SessionsInv, TypeOK
<1>4. TypeOK'
  BY <1>1, <1>3, GotoStep DEF SessionsInv, TypeOK, rows
<1>5. StepOK(r)'
  BY <1>1, GotoStep DEF StepOK, Rotating
<1>6. LocksMove(r)
  BY <1>1, <1>2, <1>3 DEF LocksMove
<1>7. \A t \in Tokens : tokenLock'[t] # r
  BY <1>1, NoLocks
<1>8. \A s \in Sessions : sessionLock'[s] = r => s \in S
  BY <1>1, <1>3, NoLocks
<1>9. \A s \in Sessions : sessionLock'[s] = r => SessionLockOK(r, s)'
  BY <1>1, <1>2, <1>8, GotoStep DEF SessionLockOK, rows
<1> QED
  BY <1>1, <1>4, <1>5, <1>6, <1>7, <1>9, GotoStep, PlainStep

\* A revocation finds every token of the sessions it has locked.
LEMMA FindTokensStays ==
    ASSUME SessionsInv, NEW r \in Requests, FindTokens(r)
    PROVE  SessionsInv'
<1> DEFINE T == {t \in Tokens : /\ token[t].session \in request[r].scope
                                /\ ~token[t].revoked}
<1>1. /\ request[r].step = "findTokens"
      /\ request' = [request EXCEPT ![r].step = "revokeTokens", ![r].tokenTargets = T]
      /\ UNCHANGED <<rows, locks, reused>>
  BY DEF FindTokens, At
<1>2. T \subseteq Tokens /\ request[r] \in Request
  BY DEF SessionsInv, TypeOK
<1>3. \A t \in Tokens : token[t].session \in request[r].scope /\ ~token[t].revoked => t \in T
  OBVIOUS
<1> HIDE DEF T
<1>4. /\ request'[r] = [request[r] EXCEPT !.step = "revokeTokens", !.tokenTargets = T]
      /\ \A q \in Requests \ {r} : request'[q] = request[q]
      /\ request' = [request EXCEPT ![r] = request'[r]]
  BY <1>1 DEF SessionsInv, TypeOK
<1>5. /\ request'[r] \in Request
      /\ request'[r].step = "revokeTokens" /\ request'[r].tokenTargets = T
      /\ request'[r].scope = request[r].scope
  BY <1>2, <1>4 DEF Request, Steps
<1>6. TypeOK'
  BY <1>1, <1>4, <1>5 DEF SessionsInv, TypeOK, rows, locks
<1>7. \A s \in Sessions : sessionLock[s] = r =>
         session[s].state = "live" /\ s \in request[r].scope
  BY <1>1 DEF SessionsInv, LocksInv, SessionLockOK
<1>8. StepOK(r)'
  <2>1. ASSUME NEW t \in Tokens, Exists(t), ~token[t].revoked,
               sessionLock[token[t].session] = r
        PROVE  t \in T
    BY <1>3, <1>7, <2>1 DEF SessionsInv, TypeOK, RefreshToken, Exists
  <2>2. token' = token /\ sessionLock' = sessionLock
    BY <1>1 DEF rows, locks
  <2>3. \A t \in T : Exists(t)
    BY <1>2, NoneAssumption DEF T, Exists, Request
  <2> QED
    BY <1>5, <2>1, <2>2, <2>3 DEF StepOK, Rotating, Exists
<1>9. /\ \A t \in Tokens : tokenLock'[t] # r
      /\ \A s \in Sessions : sessionLock'[s] = r => SessionLockOK(r, s)'
  BY <1>1, <1>5, <1>7, NoLocks DEF SessionLockOK, rows, locks
<1> QED
  BY <1>1, <1>4, <1>6, <1>8, <1>9, LocksStay, PlainStep

-----------------------------------------------------------------------------
(* Commits.                                                                 *)

\* A commit keeps the invariant when the rows it writes do.
LEMMA CommitStep ==
    ASSUME SessionsInv, TypeOK', NEW r \in Requests, Unlock(r), End(r), RowsMove(r),
           RowsInv', ReusedInv', OneLiveToken', RevokedSessionIsDead'
    PROVE  SessionsInv'
<1>1. \A q \in Requests : StepOK(q)'
  BY EndStep, OthersStay
<1>2. LocksInv'
  BY EndStep, OthersStay DEF LocksInv
<1> QED
  BY <1>1, <1>2 DEF SessionsInv

\* createSession adds a session with the one token it has.
LEMMA CreateSessionStays ==
    ASSUME SessionsInv, NEW r \in Requests, NEW s \in Sessions, NEW t \in Tokens,
           CreateSession(r, s, t)
    PROVE  SessionsInv'
<1>1. /\ request[r].step = "create" /\ session[s].state = "none" /\ ~Exists(t)
      /\ session' = [session EXCEPT ![s].state = "live"]
      /\ token' = [token EXCEPT ![t].session = s]
      /\ End(r)
      /\ UNCHANGED <<active, expired, locks, reused>>
  BY DEF CreateSession, At, FreshToken
<1>2. /\ session' \in [Sessions -> Session]
      /\ session'[s].state = "live" /\ session'[s].lastSeen = session[s].lastSeen
      /\ \A x \in Sessions \ {s} : session'[x] = session[x]
  BY <1>1 DEF SessionsInv, TypeOK, Session
<1>3. /\ token' \in [Tokens -> RefreshToken]
      /\ token'[t].session = s
      /\ \A u \in Tokens \ {t} : token'[u] = token[u]
  BY <1>1 DEF SessionsInv, TypeOK, RefreshToken
<1>4. TypeOK'
  BY <1>1, <1>2, <1>3, EndType DEF SessionsInv, TypeOK, locks
<1>5. \A u \in Tokens : token[u].session # s
  BY <1>1, NoneAssumption DEF SessionsInv, RowsInv, Exists
<1>6. sessionLock[s] = NoRequest
  BY <1>1 DEF SessionsInv, TypeOK, LocksInv, SessionLockOK
<1>7. RowsMove(r)
  BY <1>1, <1>2, <1>3, <1>6 DEF RowsMove, TokenMove, SessionMove
<1>8. RowsInv'
  <2>1. ASSUME NEW u \in Tokens, Exists(u)'
        PROVE  session'[token'[u].session].state # "none"
    <3>1. CASE u = t
      BY <1>2, <1>3, <3>1
    <3>2. CASE u # t
      <4>1. Exists(u) /\ token'[u].session = token[u].session
        BY <1>3, <2>1, <3>2 DEF Exists
      <4>2. token[u].session \in Sessions \ {s}
        BY <1>5, <4>1 DEF SessionsInv, TypeOK, RefreshToken, Exists
      <4> QED
        BY <1>2, <4>1, <4>2 DEF SessionsInv, RowsInv
    <3> QED
      BY <3>1, <3>2
  <2>2. ASSUME NEW x \in Sessions, session'[x].lastSeen # NoToken
        PROVE  token'[session'[x].lastSeen].session # NoSession
    <3>1. session'[x].lastSeen = session[x].lastSeen /\ session[x].lastSeen \in Tokens
      BY <1>2, <2>2 DEF SessionsInv, TypeOK, Session
    <3>2. Exists(session[x].lastSeen)
      BY <2>2, <3>1 DEF SessionsInv, RowsInv
    <3> QED
      BY <1>7, <3>1, <3>2, ExistsStays DEF Exists
  <2> QED
    BY <2>1, <2>2 DEF RowsInv, Exists
<1>9. ReusedInv'
  BY <1>1, <1>2 DEF SessionsInv, TypeOK, ReusedInv
<1>10. OneLiveToken'
  BY <1>3, <1>5 DEF SessionsInv, OneLiveToken, Live, Exists
<1>11. RevokedSessionIsDead'
  <2>1. ASSUME NEW u \in Tokens, Live(u)'
        PROVE  session'[token'[u].session].state = "live"
    <3>1. CASE u = t
      BY <1>2, <1>3, <3>1
    <3>2. CASE u # t
      <4>1. Live(u) /\ token'[u].session = token[u].session
        BY <1>3, <2>1, <3>2 DEF Live, Exists
      <4>2. token[u].session \in Sessions \ {s}
        BY <1>5, <4>1 DEF SessionsInv, TypeOK, RefreshToken, Live, Exists
      <4> QED
        BY <1>2, <4>1, <4>2 DEF SessionsInv, RevokedSessionIsDead
    <3> QED
      BY <3>1, <3>2
  <2> QED
    BY <2>1 DEF RevokedSessionIsDead
<1>12. request'[r] = Idle /\ \A q \in Requests \ {r} : request'[q] = request[q]
  BY <1>1 DEF SessionsInv, TypeOK, End
<1>13. LocksMove(r)
  BY <1>1, LocksStay
<1>14. StepOK(r)'
  BY <1>12 DEF StepOK, Rotating, Idle
<1>15. \A q \in Requests : StepOK(q)'
  BY <1>4, <1>7, <1>12, <1>13, <1>14, OthersStay
<1>16. /\ \A u \in Tokens : tokenLock'[u] # r
       /\ \A x \in Sessions : sessionLock'[x] # r
  BY <1>1, NoLocks DEF locks
<1>17. LocksInv'
  BY <1>4, <1>7, <1>12, <1>13, <1>16, OthersStay DEF LocksInv
<1> QED
  BY <1>4, <1>8, <1>9, <1>10, <1>11, <1>15, <1>17 DEF SessionsInv

\* Rotation replaces the one live token of a live session by the next one.
LEMMA CommitRotationStays ==
    ASSUME SessionsInv, NEW r \in Requests, NEW next \in Tokens, CommitRotation(r, next)
    PROVE  SessionsInv'
<1> DEFINE s == PresentedSession(r)
           t == request[r].token
<1>1. /\ request[r].step = "touch" /\ sessionLock[s] = NoRequest
      /\ session[s] = request[r].seenSession
      /\ ~Exists(next)
      /\ session' = [session EXCEPT ![s].lastSeen = next]
      /\ token' = [token EXCEPT ![t].consumed = TRUE, ![next].session = s]
      /\ Unlock(r) /\ End(r)
      /\ UNCHANGED <<active, expired, reused>>
  BY DEF CommitRotation, At, FreshToken, SessionChanged, SerializationFailure
<1>2. StepOK(r) /\ SnapshotOK(r)
  BY <1>1 DEF SessionsInv, StepOK, Rotating
<1>3. t \in Tokens /\ Exists(t) /\ token[t].session = s /\ tokenLock[t] = r
  BY <1>1, <1>2 DEF StepOK, SnapshotOK, Exists, PresentedSession
<1>4. s \in Sessions /\ session[s].state = "live" /\ Live(t)
  BY <1>1, <1>2, <1>3 DEF StepOK, SessionsInv, TypeOK, RefreshToken, Live, Exists
<1>5. t # next
  BY <1>1, <1>3
<1>6. /\ session' \in [Sessions -> Session]
      /\ session'[s].state = "live" /\ session'[s].lastSeen = next
      /\ \A x \in Sessions \ {s} : session'[x] = session[x]
  BY <1>1, <1>4 DEF SessionsInv, TypeOK, Session
<1>7. /\ token[t] \in RefreshToken /\ token[next] \in RefreshToken
      /\ token'[t] = [token[t] EXCEPT !.consumed = TRUE]
      /\ token'[next] = [token[next] EXCEPT !.session = s]
      /\ \A u \in Tokens \ {t, next} : token'[u] = token[u]
      /\ token' = [[token EXCEPT ![t] = token'[t]] EXCEPT ![next] = token'[next]]
  BY <1>1, <1>3, <1>5 DEF SessionsInv, TypeOK
<1>8. /\ token'[t].consumed /\ token'[t].session = s
      /\ token'[t].revoked = token[t].revoked
      /\ token'[next].session = s
      /\ token'[t] \in RefreshToken /\ token'[next] \in RefreshToken
  BY <1>3, <1>4, <1>7 DEF RefreshToken
<1>9. TypeOK'
  <2>1. token' \in [Tokens -> RefreshToken]
    BY <1>7, <1>8 DEF SessionsInv, TypeOK
  <2> QED
    BY <1>1, <1>6, <2>1, UnlockType, EndType DEF SessionsInv, TypeOK
<1>10. RowsMove(r)
  <2>1. ASSUME NEW u \in Tokens
        PROVE  TokenMove(r, u)
    <3>1. CASE u = t
      BY <1>3, <1>8, <3>1 DEF TokenMove
    <3>2. CASE u = next
      <4>1. ~Exists(next) /\ sessionLock[s] = NoRequest
        BY <1>1
      <4>2. token'[next].session = s /\ session'[s].lastSeen = next
        BY <1>6, <1>8
      <4> HIDE DEF s
      <4> QED
        BY <1>4, <3>2, <4>1, <4>2 DEF TokenMove
    <3> QED
      BY <1>7, <3>1, <3>2 DEF TokenMove
  <2>2. ASSUME NEW x \in Sessions
        PROVE  SessionMove(r, x)
    <3>1. CASE x = s
      BY <1>1, <1>4, <1>6, <1>8, <3>1 DEF SessionMove
    <3> QED
      BY <1>6, <3>1 DEF SessionMove
  <2> QED
    BY <2>1, <2>2 DEF RowsMove
<1>11. \A u \in Tokens \ {next} : token'[u].session = token[u].session
  BY <1>3, <1>7, <1>8
<1>12. RowsInv'
  <2>1. ASSUME NEW u \in Tokens, token'[u].session # NoSession
        PROVE  session'[token'[u].session].state # "none"
    <3>1. CASE token'[u].session = s
      BY <1>6, <3>1
    <3>2. CASE token'[u].session # s
      <4>1. Exists(u) /\ token'[u].session = token[u].session
        BY <1>8, <1>11, <2>1, <3>2 DEF Exists
      <4>2. token[u].session \in Sessions \ {s}
        BY <3>2, <4>1 DEF SessionsInv, TypeOK, RefreshToken, Exists
      <4> QED
        BY <1>6, <4>1, <4>2 DEF SessionsInv, RowsInv
    <3> QED
      BY <3>1, <3>2
  <2>2. ASSUME NEW x \in Sessions, session'[x].lastSeen # NoToken
        PROVE  token'[session'[x].lastSeen].session # NoSession
    <3>1. CASE x = s
      BY <1>4, <1>6, <1>8, <3>1, NoneAssumption
    <3>2. CASE x # s
      <4>1. session'[x].lastSeen = session[x].lastSeen /\ session[x].lastSeen \in Tokens
        BY <1>6, <2>2, <3>2 DEF SessionsInv, TypeOK, Session
      <4>2. Exists(session[x].lastSeen)
        BY <2>2, <4>1 DEF SessionsInv, RowsInv
      <4> QED
        BY <1>10, <4>1, <4>2, ExistsStays DEF Exists
    <3> QED
      BY <3>1, <3>2
  <2> QED
    BY <2>1, <2>2 DEF RowsInv, Exists
<1>13. ReusedInv'
  BY <1>1, <1>4, <1>6 DEF SessionsInv, TypeOK, ReusedInv
<1>14. ASSUME NEW u \in Tokens, Live(u)', u # next
       PROVE  Live(u) /\ token'[u].session = token[u].session /\ token[u].session # s
  <2>1. u # t /\ token'[u] = token[u]
    BY <1>7, <1>8, <1>14 DEF Live
  <2>2. Live(u)
    BY <1>14, <2>1 DEF Live, Exists
  <2> QED
    BY <1>3, <1>4, <2>1, <2>2 DEF SessionsInv, OneLiveToken
<1>15. OneLiveToken'
  <2>1. ASSUME NEW u \in Tokens, NEW v \in Tokens, Live(u)', Live(v)',
               token'[u].session = token'[v].session
        PROVE  u = v
    BY <1>8, <1>14, <2>1 DEF SessionsInv, OneLiveToken
  <2> QED
    BY <2>1 DEF OneLiveToken
<1>16. RevokedSessionIsDead'
  <2>1. ASSUME NEW u \in Tokens, Live(u)'
        PROVE  session'[token'[u].session].state = "live"
    <3>1. CASE u = next
      BY <1>6, <1>8, <3>1
    <3>2. CASE u # next
      <4>1. Live(u) /\ token'[u].session = token[u].session
        BY <1>14, <2>1, <3>2
      <4>2. token[u].session \in Sessions \ {s}
        BY <1>14, <2>1, <3>2 DEF SessionsInv, TypeOK, RefreshToken, Live, Exists
      <4> QED
        BY <1>6, <4>1, <4>2 DEF SessionsInv, RevokedSessionIsDead
    <3> QED
      BY <3>1, <3>2
  <2> QED
    BY <2>1 DEF RevokedSessionIsDead
<1> QED
  BY <1>1, <1>9, <1>10, <1>12, <1>13, <1>15, <1>16, CommitStep

\* A commit that revokes sessions S, which it has locked, and tokens T that
\* include all their unrevoked ones.
Revokes(r, S, T) ==
    /\ S \subseteq Sessions /\ \A s \in S : sessionLock[s] = r
    /\ T \subseteq Tokens /\ \A t \in T : Exists(t) /\ tokenLock[t] = NoRequest
    /\ \A t \in Tokens : token[t].session \in S /\ ~token[t].revoked => t \in T
    /\ session' = [s \in Sessions |->
                     IF s \in S THEN [session[s] EXCEPT !.state = "revoked"]
                     ELSE session[s]]
    /\ token' = [t \in Tokens |->
                   IF t \in T THEN [token[t] EXCEPT !.revoked = TRUE]
                   ELSE token[t]]

\* Such a commit keeps the invariant.
LEMMA RevokesStays ==
    ASSUME SessionsInv, NEW r \in Requests, NEW S, NEW T, Revokes(r, S, T),
           Unlock(r), End(r), active' \in BOOLEAN, expired' = expired,
           reused' \subseteq Sessions, ReusedInv'
    PROVE  SessionsInv'
<1>1. /\ session' \in [Sessions -> Session]
      /\ \A s \in S : s \in Sessions /\ session'[s].state = "revoked"
      /\ \A s \in Sessions : session'[s].lastSeen = session[s].lastSeen
      /\ \A s \in Sessions \ S : session'[s] = session[s]
  BY DEF Revokes, SessionsInv, TypeOK, Session
<1>2. /\ token' \in [Tokens -> RefreshToken]
      /\ \A t \in T : t \in Tokens /\ token'[t].revoked
      /\ \A t \in Tokens : token'[t].session = token[t].session
      /\ \A t \in Tokens \ T : token'[t] = token[t]
  BY DEF Revokes, SessionsInv, TypeOK, RefreshToken
<1>3. TypeOK'
  BY <1>1, <1>2, UnlockType, EndType DEF SessionsInv, TypeOK
<1>4. RowsMove(r)
  <2>1. ASSUME NEW t \in Tokens
        PROVE  TokenMove(r, t)
    BY <1>2 DEF TokenMove, Revokes
  <2>2. ASSUME NEW s \in Sessions
        PROVE  SessionMove(r, s)
    BY <1>1 DEF SessionMove, Revokes
  <2> QED
    BY <2>1, <2>2 DEF RowsMove
<1>5. RowsInv'
  <2>1. ASSUME NEW t \in Tokens, token'[t].session # NoSession
        PROVE  session'[token'[t].session].state # "none"
    <3>1. Exists(t) /\ token[t].session \in Sessions
      BY <1>2, <2>1 DEF SessionsInv, TypeOK, RefreshToken, Exists
    <3>2. session[token[t].session].state # "none"
      BY <3>1 DEF SessionsInv, RowsInv
    <3> QED
      BY <1>1, <1>2, <3>1, <3>2
  <2>2. ASSUME NEW s \in Sessions, session'[s].lastSeen # NoToken
        PROVE  token'[session'[s].lastSeen].session # NoSession
    <3>1. session'[s].lastSeen \in Tokens
      BY <1>1, <2>2 DEF Session
    <3> QED
      BY <1>1, <1>2, <2>2, <3>1 DEF SessionsInv, RowsInv, Exists
  <2> QED
    BY <2>1, <2>2 DEF RowsInv, Exists
<1>6. ASSUME NEW t \in Tokens, Live(t)'
      PROVE  Live(t) /\ t \notin T /\ token[t].session \in Sessions \ S
  <2>1. t \notin T /\ token'[t] = token[t]
    BY <1>2, <1>6 DEF Live
  <2>2. Live(t)
    BY <1>6, <2>1 DEF Live, Exists
  <2> QED
    BY <2>1, <2>2 DEF Revokes, SessionsInv, TypeOK, RefreshToken, Live, Exists
<1>7. OneLiveToken'
  BY <1>2, <1>6 DEF SessionsInv, OneLiveToken
<1>8. RevokedSessionIsDead'
  BY <1>1, <1>2, <1>6 DEF SessionsInv, RevokedSessionIsDead
<1> QED
  BY <1>3, <1>4, <1>5, <1>7, <1>8, CommitStep

\* The reuse of a token revokes its session and every token of it: the session
\* is as the snapshot shows it, so the snapshot shows all its tokens.
LEMMA CommitReuseStays ==
    ASSUME SessionsInv, NEW r \in Requests, CommitReuse(r)
    PROVE  SessionsInv'
<1> DEFINE s == PresentedSession(r)
           me == request[r]
           T == ReuseTokens(r)
           S == IF sessionLock[s] = r THEN {s} ELSE {}
<1>1. /\ me.step = "reuseTokens"
      /\ \A t \in T : tokenLock[t] = NoRequest
      /\ session' = IF sessionLock[s] = r
                    THEN [session EXCEPT ![s].state = "revoked"]
                    ELSE session
      /\ token' = [t \in Tokens |->
                     IF t \in T THEN [token[t] EXCEPT !.revoked = TRUE]
                     ELSE token[t]]
      /\ Unlock(r) /\ End(r)
      /\ reused' = reused \cup {s}
      /\ UNCHANGED <<active, expired>>
  BY DEF CommitReuse, At
<1>2. StepOK(r) /\ SnapshotOK(r)
  BY <1>1 DEF SessionsInv, StepOK, Rotating
<1>3. me.token \in Tokens /\ s \in Sessions
  BY <1>2 DEF SnapshotOK, PresentedSession, SessionsInv, TypeOK, RefreshToken
<1>4. T \subseteq Tokens /\ \A t \in T : Exists(t)
  BY <1>2, <1>3, NoneAssumption DEF ReuseTokens, SnapshotOK, Exists
<1>5. ASSUME sessionLock[s] = r, NEW t \in Tokens, token[t].session = s, ~token[t].revoked
      PROVE  t \in T
  <2>1. session[s].state = "live"
    BY <1>3, <1>5 DEF SessionsInv, LocksInv, SessionLockOK
  <2>2. session[s] = me.seenSession
    BY <1>1, <1>2, <2>1 DEF StepOK, SnapshotOK
  <2>3. me.seenTokens[t].session = s
    BY <1>2, <1>5, <2>2 DEF SnapshotOK
  <2>4. ~me.seenTokens[t].revoked
    BY <1>2, <1>3, <1>5, <2>3, NoneAssumption DEF SnapshotOK
  <2> QED
    BY <2>3, <2>4 DEF ReuseTokens
<1>6. session' = [x \in Sessions |->
                    IF x \in S THEN [session[x] EXCEPT !.state = "revoked"]
                    ELSE session[x]]
  BY <1>1, <1>3 DEF SessionsInv, TypeOK
<1> HIDE DEF T
<1>7. Revokes(r, S, T)
  BY <1>1, <1>3, <1>4, <1>5, <1>6 DEF Revokes
<1>8. session'[s].state = "revoked"
  <2>1. CASE sessionLock[s] = r
    BY <1>3, <1>6, <2>1 DEF SessionsInv, TypeOK, Session
  <2>2. CASE sessionLock[s] # r
    BY <1>1, <1>2, <2>2 DEF StepOK, SnapshotOK
  <2> QED
    BY <2>1, <2>2
<1>9. ReusedInv' /\ reused' \subseteq Sessions
  <2>1. ASSUME NEW x \in reused
        PROVE  x \in Sessions /\ session'[x].state = "revoked"
    BY <1>6, <1>8 DEF SessionsInv, TypeOK, ReusedInv
  <2> QED
    BY <1>1, <1>3, <1>8, <2>1 DEF ReusedInv
<1>10. active' \in BOOLEAN
  BY <1>1 DEF SessionsInv, TypeOK
<1> HIDE DEF S
<1> QED
  BY <1>1, <1>7, <1>9, <1>10, RevokesStays

\* A revocation revokes the sessions it has locked, and every token of theirs.
LEMMA CommitRevocationStays ==
    ASSUME SessionsInv, NEW r \in Requests, CommitRevocation(r)
    PROVE  SessionsInv'
<1> DEFINE T == request[r].tokenTargets
           S == {s \in Sessions : sessionLock[s] = r}
<1>1. /\ request[r].step = "revokeTokens"
      /\ \A t \in T : tokenLock[t] = NoRequest
      /\ session' = [s \in Sessions |->
                       IF sessionLock[s] = r
                       THEN [session[s] EXCEPT !.state = "revoked"]
                       ELSE session[s]]
      /\ token' = [t \in Tokens |->
                     IF t \in T THEN [token[t] EXCEPT !.revoked = TRUE]
                     ELSE token[t]]
      /\ active' = (active /\ ~request[r].deactivates)
      /\ Unlock(r) /\ End(r) /\ expired' = expired /\ reused' = reused
  BY DEF CommitRevocation, At
<1>2. StepOK(r) /\ T \subseteq Tokens
  BY DEF SessionsInv, TypeOK, Request
<1>3. /\ \A t \in T : Exists(t)
      /\ \A t \in Tokens : token[t].session \in S /\ ~token[t].revoked => t \in T
  BY <1>1, <1>2, NoneAssumption DEF StepOK, Exists
<1>4. session' = [s \in Sessions |->
                    IF s \in S THEN [session[s] EXCEPT !.state = "revoked"]
                    ELSE session[s]]
  BY <1>1
<1>5. Revokes(r, S, T)
  BY <1>1, <1>2, <1>3, <1>4 DEF Revokes
<1>6. ReusedInv' /\ reused' \subseteq Sessions
  <2>1. ASSUME NEW s \in reused
        PROVE  session'[s].state = "revoked"
    BY <1>4 DEF SessionsInv, TypeOK, Session, ReusedInv
  <2> QED
    BY <1>1, <2>1 DEF ReusedInv, SessionsInv, TypeOK
<1>7. active' \in BOOLEAN
  BY <1>1 DEF SessionsInv, TypeOK
<1> QED
  BY <1>1, <1>5, <1>6, <1>7, RevokesStays

-----------------------------------------------------------------------------
(* The theorems.                                                            *)

\* The empty tables satisfy the invariant.
LEMMA InitInv == Init => SessionsInv
<1> SUFFICES ASSUME Init PROVE SessionsInv
  OBVIOUS
<1>1. TypeOK
  BY InitType
<1>2. \A t \in Tokens : ~Exists(t) /\ ~Live(t)
  BY DEF Init, NoTokens, NewToken, Exists, Live
<1>3. RowsInv
  BY <1>2 DEF Init, RowsInv, NewSession
<1>4. \A r \in Requests : StepOK(r)
  BY DEF Init, StepOK, Rotating, Idle
<1>5. LocksInv
  BY NoneAssumption DEF Init, LocksInv
<1> QED
  BY <1>1, <1>2, <1>3, <1>4, <1>5
     DEF Init, SessionsInv, ReusedInv, OneLiveToken, RevokedSessionIsDead

\* Time and reactivation touch neither sessions, tokens nor transactions.
LEMMA ClockStays ==
    ASSUME SessionsInv, UNCHANGED <<session, token, locks, request, reused>>,
           expired' \subseteq Sessions, active' \in BOOLEAN
    PROVE  SessionsInv'
<1>1. TypeOK' /\ RowsInv' /\ ReusedInv' /\ OneLiveToken' /\ RevokedSessionIsDead'
  BY DEF SessionsInv, TypeOK, locks, RowsInv, ReusedInv, OneLiveToken,
     RevokedSessionIsDead, Live, Exists
<1>2. ASSUME NEW r \in Requests
      PROVE  StepOK(r)'
  BY DEF SessionsInv, locks, StepOK, Rotating, SnapshotOK, PresentedSession, Exists
<1>3. LocksInv'
  BY DEF SessionsInv, locks, LocksInv, TokenLockOK, SessionLockOK, PresentedSession
<1> QED
  BY <1>1, <1>2, <1>3 DEF SessionsInv

\* Every step of every request keeps the invariant.
LEMMA NextInv == SessionsInv /\ [Next]_vars => SessionsInv'
<1> SUFFICES ASSUME SessionsInv, [Next]_vars PROVE SessionsInv'
  OBVIOUS
<1>1. ASSUME NEW r \in Requests, LoginStep(r)
      PROVE  SessionsInv'
  BY <1>1, LoginStays, CreateSessionStays DEF LoginStep
<1>2. ASSUME NEW r \in Requests, RotationStep(r)
      PROVE  SessionsInv'
  <2>1. CASE RotationConflict(r)
    BY <2>1, AbortStep DEF RotationConflict
  <2>2. CASE ReuseSessionConflict(r)
    BY <2>2, AbortStep DEF ReuseSessionConflict
  <2>3. CASE ReuseTokensConflict(r)
    BY <2>3, AbortStep DEF ReuseTokensConflict
  <2> QED
    BY <1>2, <2>1, <2>2, <2>3, RotateReadStays, ConsumeTokenStays, CommitRotationStays,
       ReuseRevokeSessionStays, CommitReuseStays DEF RotationStep
<1>3. ASSUME NEW r \in Requests, RevocationStep(r)
      PROVE  SessionsInv'
  BY <1>3, BeginRevocationStays, RevokeSessionsStays, FindTokensStays,
     CommitRevocationStays DEF RevocationStep
<1>4. ASSUME NEW r \in Requests, DeadlockVictim(r)
      PROVE  SessionsInv'
  BY <1>4, AbortStep DEF DeadlockVictim
<1>5. ASSUME NEW s \in Sessions, PassExpiry(s)
      PROVE  SessionsInv'
  BY <1>5, ClockStays DEF PassExpiry, SessionsInv, TypeOK
<1>6. CASE Reactivate
  BY <1>6, ClockStays DEF Reactivate, SessionsInv, TypeOK
<1>7. CASE UNCHANGED vars
  BY <1>7, ClockStays DEF vars, rows, SessionsInv, TypeOK
<1> QED
  BY <1>1, <1>2, <1>3, <1>4, <1>5, <1>6, <1>7 DEF Next

\* The invariant holds in every state of every behaviour.
THEOREM SessionsInvariant == Spec => []SessionsInv
BY InitInv, NextInv, PTL DEF Spec

\* However many requests present a refresh token at once, its session never has
\* two tokens that can be rotated again.
THEOREM OneTokenPerSession == Spec => []SessionInv
<1>1. SessionsInv => SessionInv
  BY DEF SessionsInv, SessionInv
<1> QED
  BY <1>1, SessionsInvariant, PTL

\* No rotation under way leaves a revoked session a usable token.
THEOREM RevocationWins == Spec => []RevokedSessionIsDead
<1>1. SessionsInv => RevokedSessionIsDead
  BY DEF SessionsInv
<1> QED
  BY <1>1, SessionsInvariant, PTL

\* A request that answers REUSE has revoked the session and every token of it.
THEOREM ReuseIsFinal == Spec => []ReuseRevokesSession
<1>1. SessionsInv => ReuseRevokesSession
  BY DEF SessionsInv, TypeOK, ReusedInv, RevokedSessionIsDead, ReuseRevokesSession
<1> QED
  BY <1>1, SessionsInvariant, PTL

-----------------------------------------------------------------------------
(* The permission guard.                                                    *)

\* The key has the epochs of the tables, or had them once.
Current(key) == /\ key.userEpoch = userEpoch[key.user]
                /\ key.org => key.orgEpoch = orgEpoch
Past(key) == /\ key.userEpoch <= userEpoch[key.user]
             /\ key.org => key.orgEpoch <= orgEpoch

Edit == [role: Roles, holders: SUBSET Users]

TablesOK ==
    /\ alive \subseteq Users /\ pinned \subseteq alive
    /\ member \in [Users -> Roles \cup {NoRole}]
    /\ userEpoch \in [Users -> 0..MaxEpoch] /\ orgEpoch \in 0..MaxOrgEpoch
    /\ grants \in [Roles -> BOOLEAN]
    /\ userRole \in [Users -> SUBSET (Roles \ OrgRoles)]
    /\ missed \subseteq Users
    /\ edit = NoEdit \/ edit \in Edit

\* What a request in flight knows.
CallerOK(c) ==
    LET q == caller[c]
    IN  /\ Waiting(c) => /\ Past(q.key)
                         /\ Granted(q.key) => TRUE \in q.seen
                         /\ q.key.scope = "organization" => q.key.org
        /\ q.step = "global" => q.key.scope # "organization"
        /\ q.step = "organization" => q.key.scope # "global" /\ q.key.org
        /\ q.step = "allowed" /\ q.key.user \notin missed => TRUE \in q.seen

CallersOK ==
    /\ caller \in [Callers -> Caller \cup {NoCaller}]
    /\ \A c \in Callers : CallerOK(c)

\* What a decision is worth, in Redis or on its way.
DecisionOK(d) ==
    /\ Past(d.key)
    /\ d.allowed /\ d.key.user \notin missed =>
          /\ Current(d.key) /\ d.key.user \in alive => Granted(d.key)
          /\ \A c \in Callers : Waiting(c) /\ caller[c].key = d.key =>
                                   TRUE \in caller[c].seen

DecisionsOK ==
    /\ cache \subseteq Decision /\ writes \subseteq Decision
    /\ \A d \in cache \cup writes : DecisionOK(d)

GuardInv == TablesOK /\ CallersOK /\ DecisionsOK


-----------------------------------------------------------------------------
(* Steps of the tables.                                                     *)

\* What a step of the tables promises the guard: epochs only grow, accounts do
\* not come back, and a user whose key is still current, who is alive and not
\* missed, has the same grants.
TablesMove ==
    /\ TablesOK'
    /\ alive' \subseteq alive /\ missed \subseteq missed'
    /\ \A u \in Users : userEpoch[u] <= userEpoch'[u]
    /\ orgEpoch <= orgEpoch'
    /\ \A key \in PermissionCacheKey :
          Past(key) /\ Current(key)' /\ key.user \in alive' \ missed' =>
             (Granted(key)' <=> Granted(key))

\* The fields of a key.
LEMMA KeyFacts ==
    ASSUME NEW key \in PermissionCacheKey
    PROVE  /\ key.user \in Users /\ key.userEpoch \in Nat /\ key.org \in BOOLEAN
           /\ key.orgEpoch \in Nat /\ key.scope \in Scopes
BY AccessAssumption DEF PermissionCacheKey

\* The epochs are numbers.
LEMMA EpochFacts ==
    ASSUME TablesOK
    PROVE  /\ \A u \in Users : userEpoch[u] \in Nat
           /\ orgEpoch \in Nat
BY AccessAssumption DEF TablesOK

\* The epoch of one user grows, and nothing else of the epochs changes.
LEMMA BumpMoves ==
    ASSUME TablesOK, NEW u \in Users, BumpEpoch(u)
    PROVE  /\ userEpoch' \in [Users -> 0..MaxEpoch] /\ orgEpoch' = orgEpoch /\ missed' = missed
           /\ userEpoch'[u] = userEpoch[u] + 1
           /\ \A v \in Users \ {u} : userEpoch'[v] = userEpoch[v]
           /\ \A v \in Users : userEpoch[v] <= userEpoch'[v]
           /\ \A key \in PermissionCacheKey : Past(key) /\ Current(key)' => key.user # u
<1> DEFINE n == userEpoch[u] + 1
<1>1. /\ userEpoch \in [Users -> 0..MaxEpoch] /\ MaxEpoch \in Nat
      /\ userEpoch[u] < MaxEpoch /\ userEpoch' = [userEpoch EXCEPT ![u] = n]
      /\ orgEpoch' = orgEpoch /\ missed' = missed
  BY AccessAssumption DEF TablesOK, BumpEpoch
<1>2. n \in 0..MaxEpoch /\ userEpoch[u] \in Nat /\ userEpoch[u] < n
  BY <1>1
<1> HIDE DEF n
<1>3. /\ userEpoch' \in [Users -> 0..MaxEpoch] /\ userEpoch'[u] = n
      /\ \A v \in Users \ {u} : userEpoch'[v] = userEpoch[v]
  BY <1>1, <1>2
<1>4. \A v \in Users : userEpoch[v] <= userEpoch'[v]
  BY <1>2, <1>3, EpochFacts
<1>5. ASSUME NEW key \in PermissionCacheKey, Past(key), Current(key)', key.user = u PROVE FALSE
  BY <1>2, <1>3, <1>5, KeyFacts DEF Past, Current
<1> QED
  BY <1>1, <1>3, <1>4, <1>5 DEF n

\* Grants of a user whose rows stay.
LEMMA SameGrants ==
    ASSUME NEW key \in PermissionCacheKey, grants' = grants,
           userRole'[key.user] = userRole[key.user], member'[key.user] = member[key.user]
    PROVE  Granted(key)' <=> Granted(key)
BY DEF Granted, HasGlobalGrant, HasOrganizationGrant

\* One user's rows change with the user's epoch.
LEMMA UserMoves ==
    ASSUME TablesOK, NEW u \in Users, BumpEpoch(u), UNCHANGED <<alive, grants, edit>>,
           pinned' \subseteq alive,
           member' \in [Users -> Roles \cup {NoRole}],
           userRole' \in [Users -> SUBSET (Roles \ OrgRoles)],
           \A v \in Users \ {u} : member'[v] = member[v] /\ userRole'[v] = userRole[v]
    PROVE  TablesMove
<1>1. /\ userEpoch' \in [Users -> 0..MaxEpoch] /\ orgEpoch' = orgEpoch /\ missed' = missed
      /\ \A v \in Users : userEpoch[v] <= userEpoch'[v]
      /\ \A key \in PermissionCacheKey : Past(key) /\ Current(key)' => key.user # u
  BY BumpMoves
<1>2. TablesOK'
  BY <1>1 DEF TablesOK
<1>3. ASSUME NEW key \in PermissionCacheKey, Past(key), Current(key)'
      PROVE  Granted(key)' <=> Granted(key)
  <2>1. key.user \in Users \ {u}
    BY <1>1, <1>3, KeyFacts
  <2> QED
    BY <2>1, SameGrants
<1>4. orgEpoch <= orgEpoch'
  BY <1>1, EpochFacts
<1> QED
  BY <1>1, <1>2, <1>3, <1>4 DEF TablesMove

\* Roles that users hold, and memberships.
LEMMA UserStepsMove ==
    ASSUME TablesOK, NEW u \in Users
    PROVE  /\ \A role \in Roles : AssignRole(u, role) => TablesMove
           /\ \A role \in Roles : RevokeRole(u, role) => TablesMove
           /\ \A role \in Roles : SetMembership(u, role) => TablesMove
           /\ RemoveMember(u) => TablesMove
<1>1. /\ userRole \in [Users -> SUBSET (Roles \ OrgRoles)] /\ pinned \subseteq alive
      /\ member \in [Users -> Roles \cup {NoRole}]
  BY DEF TablesOK
<1>2. ASSUME NEW role \in Roles, AssignRole(u, role) PROVE TablesMove
  <2> DEFINE s == userRole[u] \cup {role}
  <2>1. /\ role \notin OrgRoles /\ userRole' = [userRole EXCEPT ![u] = s] /\ BumpEpoch(u)
        /\ UNCHANGED <<alive, member, pinned, grants, edit>>
    BY <1>2 DEF AssignRole, memberVars
  <2>2. s \in SUBSET (Roles \ OrgRoles)
    BY <1>1, <2>1
  <2> HIDE DEF s
  <2>3. /\ userRole' \in [Users -> SUBSET (Roles \ OrgRoles)]
        /\ \A v \in Users \ {u} : userRole'[v] = userRole[v]
    BY <1>1, <2>1, <2>2
  <2> QED
    BY <1>1, <2>1, <2>3, UserMoves
<1>3. ASSUME NEW role \in Roles, RevokeRole(u, role) PROVE TablesMove
  <2> DEFINE s == userRole[u] \ {role}
  <2>1. /\ userRole' = [userRole EXCEPT ![u] = s] /\ BumpEpoch(u)
        /\ UNCHANGED <<alive, member, pinned, grants, edit>>
    BY <1>3 DEF RevokeRole, memberVars
  <2>2. s \in SUBSET (Roles \ OrgRoles)
    BY <1>1
  <2> HIDE DEF s
  <2>3. /\ userRole' \in [Users -> SUBSET (Roles \ OrgRoles)]
        /\ \A v \in Users \ {u} : userRole'[v] = userRole[v]
    BY <1>1, <2>1, <2>2
  <2> QED
    BY <1>1, <2>1, <2>3, UserMoves
<1>4. ASSUME NEW role \in Roles, SetMembership(u, role) PROVE TablesMove
  <2>1. /\ member' = [member EXCEPT ![u] = role] /\ BumpEpoch(u)
        /\ UNCHANGED <<alive, pinned, grants, userRole, edit>>
    BY <1>4 DEF SetMembership, roleVars
  <2>2. /\ member' \in [Users -> Roles \cup {NoRole}]
        /\ \A v \in Users \ {u} : member'[v] = member[v]
    BY <1>1, <2>1
  <2> QED
    BY <1>1, <2>1, <2>2, UserMoves
<1>5. ASSUME RemoveMember(u) PROVE TablesMove
  <2>1. /\ member' = [member EXCEPT ![u] = NoRole] /\ BumpEpoch(u) /\ pinned' = pinned \ {u}
        /\ UNCHANGED <<alive, grants, userRole, edit>>
    BY <1>5 DEF RemoveMember, roleVars
  <2>2. /\ member' \in [Users -> Roles \cup {NoRole}] /\ pinned' \subseteq alive
        /\ \A v \in Users \ {u} : member'[v] = member[v]
    BY <1>1, <2>1
  <2> QED
    BY <1>1, <2>1, <2>2, UserMoves
<1> QED
  BY <1>2, <1>3, <1>4, <1>5

\* Steps that leave the epochs alone.
LEMMA QuietMoves ==
    ASSUME TablesOK, TablesOK', UNCHANGED <<userEpoch, orgEpoch, grants>>,
           alive' \subseteq alive, missed \subseteq missed',
           \A v \in alive' \ missed' : member'[v] = member[v] /\ userRole'[v] = userRole[v]
    PROVE  TablesMove
<1>1. orgEpoch <= orgEpoch' /\ \A u \in Users : userEpoch[u] <= userEpoch'[u]
  BY EpochFacts
<1>2. ASSUME NEW key \in PermissionCacheKey, key.user \in alive' \ missed'
      PROVE  Granted(key)' <=> Granted(key)
  BY <1>2, SameGrants
<1> QED
  BY <1>1, <1>2 DEF TablesMove

\* Sessions, deletions, logins that restore a membership, and the first half of
\* an edit.
LEMMA QuietStepsMove ==
    ASSUME TablesOK
    PROVE  /\ \A u \in Users, role \in Roles : RejoinDefault(u, role) => TablesMove
           /\ \A u \in Users : PinSession(u) => TablesMove
           /\ \A u \in Users : DeleteAccount(u) => TablesMove
           /\ \A role \in Roles : BumpPermissionEpochForRoleHolders(role) => TablesMove
<1>1. /\ userRole \in [Users -> SUBSET (Roles \ OrgRoles)] /\ pinned \subseteq alive
      /\ member \in [Users -> Roles \cup {NoRole}] /\ alive \subseteq Users
  BY DEF TablesOK
<1>2. ASSUME NEW u \in Users, NEW role \in Roles, RejoinDefault(u, role) PROVE TablesMove
  <2>1. /\ u \in alive /\ member' = [member EXCEPT ![u] = role] /\ pinned' = pinned \cup {u}
        /\ missed' = missed \cup {u}
        /\ UNCHANGED <<alive, grants, userRole, edit, userEpoch, orgEpoch>>
    BY <1>2 DEF RejoinDefault, roleVars
  <2>2. /\ member' \in [Users -> Roles \cup {NoRole}]
        /\ \A v \in Users \ {u} : member'[v] = member[v]
    BY <1>1, <2>1
  <2>3. TablesOK'
    BY <2>1, <2>2 DEF TablesOK
  <2> QED
    BY <1>1, <2>1, <2>2, <2>3, QuietMoves
<1>3. ASSUME NEW u \in Users, PinSession(u) PROVE TablesMove
  <2>1. /\ u \in alive /\ pinned' = pinned \cup {u}
        /\ UNCHANGED <<alive, member, grants, userRole, edit, userEpoch, orgEpoch, missed>>
    BY <1>3 DEF PinSession, roleVars, epochVars
  <2>2. TablesOK'
    BY <2>1 DEF TablesOK
  <2> QED
    BY <2>1, <2>2, QuietMoves
<1>4. ASSUME NEW u \in Users, DeleteAccount(u) PROVE TablesMove
  <2>1. /\ alive' = alive \ {u} /\ pinned' = pinned \ {u}
        /\ member' = [member EXCEPT ![u] = NoRole] /\ userRole' = [userRole EXCEPT ![u] = {}]
        /\ UNCHANGED <<grants, edit, userEpoch, orgEpoch, missed>>
    BY <1>4 DEF DeleteAccount, epochVars
  <2>2. /\ member' \in [Users -> Roles \cup {NoRole}]
        /\ \A v \in Users \ {u} : member'[v] = member[v]
    BY <1>1, <2>1
  <2>3. /\ userRole' \in [Users -> SUBSET (Roles \ OrgRoles)]
        /\ \A v \in Users \ {u} : userRole'[v] = userRole[v]
    BY <1>1, <2>1
  <2>4. TablesOK'
    BY <2>1, <2>2, <2>3 DEF TablesOK
  <2> QED
    BY <1>1, <2>1, <2>2, <2>3, <2>4, QuietMoves
<1>5. ASSUME NEW role \in Roles, BumpPermissionEpochForRoleHolders(role)
      PROVE  TablesMove
  <2>1. /\ edit' = [role |-> role, holders |-> {v \in alive : role \in userRole[v]}]
        /\ UNCHANGED <<alive, member, pinned, userEpoch, orgEpoch, missed, grants, userRole>>
    BY <1>5 DEF BumpPermissionEpochForRoleHolders, memberVars, epochVars
  <2>2. edit' \in Edit
    BY <1>1, <2>1 DEF Edit
  <2>3. TablesOK'
    BY <2>1, <2>2 DEF TablesOK
  <2> QED
    BY <2>1, <2>3, QuietMoves
<1> QED
  BY <1>2, <1>3, <1>4, <1>5


\* A role of the organization changes with the organization's epoch.
LEMMA OrgRoleMoves ==
    ASSUME TablesOK, NEW role \in Roles, UpdateOrgRole(role)
    PROVE  TablesMove
<1> DEFINE b == ~grants[role]
<1>1. /\ role \in OrgRoles /\ orgEpoch < MaxOrgEpoch
      /\ grants' = [grants EXCEPT ![role] = b] /\ orgEpoch' = orgEpoch + 1
      /\ UNCHANGED <<alive, member, pinned, userRole, edit, userEpoch, missed>>
      /\ grants \in [Roles -> BOOLEAN]
  BY DEF UpdateOrgRole, memberVars, TablesOK
<1>2. b \in BOOLEAN
  OBVIOUS
<1> HIDE DEF b
<1>3. grants' \in [Roles -> BOOLEAN] /\ \A s \in Roles \ {role} : grants'[s] = grants[s]
  BY <1>1, <1>2
<1>4. orgEpoch' \in 0..MaxOrgEpoch /\ orgEpoch < orgEpoch' /\ orgEpoch \in Nat /\ orgEpoch' \in Nat
  BY <1>1, AccessAssumption, EpochFacts
<1>5. TablesOK'
  BY <1>1, <1>3, <1>4 DEF TablesOK
<1>6. ASSUME NEW key \in PermissionCacheKey, Past(key), Current(key)'
      PROVE  Granted(key)' <=> Granted(key)
  <2>1. key.user \in Users /\ userRole[key.user] \subseteq Roles \ OrgRoles
    BY KeyFacts DEF TablesOK
  <2>2. HasGlobalGrant(key.user)' <=> HasGlobalGrant(key.user)
    <3>1. \A s \in userRole[key.user] : grants'[s] = grants[s]
      BY <1>1, <1>3, <2>1
    <3>2. userRole' = userRole
      BY <1>1
    <3> QED
      BY <3>1, <3>2 DEF HasGlobalGrant
  <2>3. ~key.org
    BY <1>4, <1>6, KeyFacts DEF Past, Current
  <2> QED
    BY <2>2, <2>3 DEF Granted
<1>7. \A u \in Users : userEpoch[u] <= userEpoch'[u]
  BY <1>1, EpochFacts
<1> QED
  BY <1>1, <1>4, <1>5, <1>6, <1>7 DEF TablesMove

\* A global role changes with the epochs of its holders; whoever else has it is
\* missed.
LEMMA GlobalRoleMoves ==
    ASSUME TablesOK, CommitGlobalRole
    PROVE  TablesMove
<1> DEFINE role == edit.role
           holders == edit.holders
           b == ~grants[role]
<1>1. /\ \A u \in holders : userEpoch[u] < MaxEpoch
      /\ grants' = [grants EXCEPT ![role] = b]
      /\ userEpoch' = [u \in Users |-> userEpoch[u] + (IF u \in holders THEN 1 ELSE 0)]
      /\ missed' = missed \cup {u \in Users \ holders : role \in userRole[u] \cup {member[u]}}
      /\ edit' = NoEdit
      /\ UNCHANGED <<alive, member, pinned, userRole, orgEpoch>>
      /\ grants \in [Roles -> BOOLEAN] /\ userEpoch \in [Users -> 0..MaxEpoch]
  BY DEF CommitGlobalRole, memberVars, TablesOK
<1>2. b \in BOOLEAN /\ role \in Roles /\ holders \subseteq Users
  BY DEF CommitGlobalRole, TablesOK, Edit
<1> HIDE DEF b, role, holders
<1>3. grants' \in [Roles -> BOOLEAN] /\ \A s \in Roles \ {role} : grants'[s] = grants[s]
  BY <1>1, <1>2
<1>4. ASSUME NEW u \in Users
      PROVE  /\ userEpoch'[u] \in 0..MaxEpoch /\ userEpoch[u] <= userEpoch'[u]
             /\ u \in holders => userEpoch[u] < userEpoch'[u]
  <2>1. userEpoch[u] \in 0..MaxEpoch /\ MaxEpoch \in Nat
    BY <1>1, AccessAssumption
  <2>2. userEpoch'[u] = userEpoch[u] + (IF u \in holders THEN 1 ELSE 0)
    BY <1>1
  <2> QED
    BY <1>1, <2>1, <2>2
<1>5. userEpoch' \in [Users -> 0..MaxEpoch]
  BY <1>1, <1>4
<1>6. TablesOK'
  BY <1>1, <1>3, <1>5 DEF TablesOK
<1>7. ASSUME NEW key \in PermissionCacheKey, Past(key), Current(key)', key.user \in alive' \ missed'
      PROVE  Granted(key)' <=> Granted(key)
  <2>1. key.user \in Users /\ userRole[key.user] \subseteq Roles
        /\ member[key.user] \in Roles \cup {NoRole} /\ NoRole \notin Roles
    BY KeyFacts, AccessAssumption DEF TablesOK
  <2>2. key.user \notin holders
    <3>1. /\ key.userEpoch <= userEpoch[key.user] /\ key.userEpoch = userEpoch'[key.user]
          /\ key.userEpoch \in Nat /\ userEpoch[key.user] \in Nat
      BY <1>7, <2>1, KeyFacts, EpochFacts DEF Past, Current
    <3> QED
      BY <1>4, <2>1, <3>1
  <2>3. role \notin userRole[key.user] /\ role # member[key.user]
    BY <1>1, <1>7, <2>1, <2>2
  <2>4. HasGlobalGrant(key.user)' <=> HasGlobalGrant(key.user)
    <3>1. \A s \in userRole[key.user] : grants'[s] = grants[s]
      BY <1>3, <2>1, <2>3
    <3>2. userRole' = userRole
      BY <1>1
    <3> QED
      BY <3>1, <3>2 DEF HasGlobalGrant
  <2>5. HasOrganizationGrant(key.user)' <=> HasOrganizationGrant(key.user)
    BY <1>1, <1>3, <2>1, <2>3 DEF HasOrganizationGrant
  <2> QED
    BY <2>4, <2>5 DEF Granted
<1>8. orgEpoch <= orgEpoch' /\ alive' \subseteq alive /\ missed \subseteq missed'
  BY <1>1, EpochFacts
<1> QED
  BY <1>4, <1>6, <1>7, <1>8 DEF TablesMove

\* All steps of the tables.
LEMMA TableStepMoves ==
    ASSUME TablesOK, TableStep
    PROVE  TablesMove
BY UserStepsMove, QuietStepsMove, OrgRoleMoves, GlobalRoleMoves DEF TableStep

-----------------------------------------------------------------------------
(* Requests live through the steps of the tables.                           *)

\* What a request observes.
LEMMA Observed ==
    ASSUME CallersOK, Observe, NEW c \in Callers
    PROVE  /\ caller'[c] \in Caller \cup {NoCaller}
           /\ caller'[c].step = caller[c].step
           /\ ~Waiting(c) => caller'[c] = caller[c]
           /\ Waiting(c) => /\ caller'[c].key = caller[c].key
                            /\ caller[c].seen \subseteq caller'[c].seen
                            /\ \A k \in {caller[c].key} :
                                  Granted(k)' => TRUE \in caller'[c].seen
<1>1. caller[c] \in Caller \cup {NoCaller}
  BY DEF CallersOK
<1>2. CASE ~Waiting(c)
  BY <1>1, <1>2 DEF Observe
<1>3. CASE Waiting(c)
  <2>1. caller[c] \in Caller
    BY <1>1, <1>3 DEF Waiting, Pending, NoCaller
  <2>2. PICK key \in PermissionCacheKey : key = caller[c].key
    BY <2>1 DEF Caller
  <2> DEFINE g == Granted(key)'
             s == caller[c].seen \cup {g}
  <2>3. caller'[c] = [caller[c] EXCEPT !.seen = s]
    <3>1. caller'[c] = [caller[c] EXCEPT !.seen = @ \cup {Granted(k)' : k \in {caller[c].key}}]
      BY <1>3 DEF Observe
    <3>2. {Granted(k)' : k \in {caller[c].key}} = {g}
      BY <2>2
    <3> QED
      BY <3>1, <3>2
  <2>4. g \in BOOLEAN
    BY DEF Granted
  <2>5. s \in SUBSET BOOLEAN /\ (g => TRUE \in s) /\ caller[c].seen \subseteq s
    BY <2>1, <2>4 DEF Caller
  <2> HIDE DEF s, g
  <2>6. /\ caller'[c] \in Caller /\ caller'[c].seen = s /\ caller'[c].key = key
        /\ caller'[c].step = caller[c].step
    BY <2>1, <2>2, <2>3, <2>5 DEF Caller
  <2> QED
    BY <1>3, <2>2, <2>5, <2>6 DEF g
<1> QED
  BY <1>2, <1>3

\* A key that had the epochs of the tables once did so before or does so now.
LEMMA PastStays ==
    ASSUME TablesOK, TablesMove, NEW key \in PermissionCacheKey, Past(key)
    PROVE  Past(key)' /\ (Current(key)' => Current(key))
<1>1. /\ key.user \in Users /\ key.userEpoch \in Nat /\ key.orgEpoch \in Nat
      /\ userEpoch[key.user] \in Nat /\ userEpoch'[key.user] \in Nat
      /\ orgEpoch \in Nat /\ orgEpoch' \in Nat
      /\ userEpoch[key.user] <= userEpoch'[key.user] /\ orgEpoch <= orgEpoch'
  BY KeyFacts, EpochFacts, AccessAssumption DEF TablesMove, TablesOK
<1> QED
  BY <1>1 DEF Past, Current

\* The invariant lives through a step of the tables.
LEMMA TablesKeep ==
    ASSUME GuardInv, TableStep, Observe, UNCHANGED <<cache, writes>>
    PROVE  GuardInv'
<1>1. TablesOK /\ CallersOK /\ DecisionsOK /\ TablesMove
  BY TableStepMoves DEF GuardInv
<1>2. TablesOK' /\ alive' \subseteq alive /\ missed \subseteq missed'
  BY <1>1 DEF TablesMove
<1>3. ASSUME NEW c \in Callers PROVE CallerOK(c)'
  <2>1. CallerOK(c) /\ caller[c] \in Caller \cup {NoCaller}
    BY <1>1 DEF CallersOK
  <2>2. CASE ~Waiting(c)
    <3>1. caller'[c] = caller[c] /\ ~Waiting(c)'
      BY <1>1, <2>2, Observed DEF Waiting
    <3> QED
      BY <1>2, <2>1, <2>2, <3>1 DEF CallerOK, Waiting, Pending
  <2>3. CASE Waiting(c)
    <3>1. caller[c].key \in PermissionCacheKey
      BY <2>1, <2>3 DEF Waiting, Pending, NoCaller, Caller
    <3>2. PICK key \in PermissionCacheKey : key = caller[c].key
      BY <3>1
    <3>3. /\ caller'[c].key = key /\ caller'[c].step = caller[c].step
          /\ Granted(key)' => TRUE \in caller'[c].seen
      BY <1>1, <2>3, <3>2, Observed
    <3>4. Past(key)'
      BY <1>1, <2>1, <2>3, <3>2, PastStays DEF CallerOK
    <3>5. (Waiting(c) =>
              /\ Past(caller[c].key)
              /\ Granted(caller[c].key) => TRUE \in caller[c].seen)'
      BY <3>3, <3>4
    <3> QED
      BY <2>1, <2>3, <3>2, <3>3, <3>5 DEF CallerOK, Waiting, Pending
  <2> QED
    BY <2>2, <2>3
<1>4. caller' \in [Callers -> Caller \cup {NoCaller}]
  BY <1>1, Observed DEF Observe
<1>5. ASSUME NEW d \in cache \cup writes PROVE DecisionOK(d)'
  <2>1. DecisionOK(d) /\ d \in Decision /\ d.key \in PermissionCacheKey
    BY <1>1 DEF DecisionsOK, Decision
  <2>2. PICK key \in PermissionCacheKey : key = d.key
    BY <2>1
  <2>3. Past(key) /\ Past(key)' /\ (Current(key)' => Current(key))
    BY <1>1, <2>1, <2>2, PastStays DEF DecisionOK
  <2>4. d.allowed /\ key.user \notin missed' /\ Current(key)' /\ key.user \in alive' => Granted(key)'
    BY <1>1, <1>2, <2>1, <2>2, <2>3 DEF DecisionOK, TablesMove
  <2>5. ASSUME d.allowed, key.user \notin missed', NEW c \in Callers, Waiting(c)', caller'[c].key = key
        PROVE  TRUE \in caller'[c].seen
    <3>1. Waiting(c) /\ caller[c].key = key
      BY <1>1, <2>5, Observed DEF Waiting
    <3>2. TRUE \in caller[c].seen
      BY <1>2, <2>1, <2>2, <2>5, <3>1 DEF DecisionOK
    <3> QED
      BY <1>1, <3>1, <3>2, Observed
  <2> QED
    BY <2>2, <2>3, <2>4, <2>5 DEF DecisionOK
<1> QED
  BY <1>1, <1>2, <1>3, <1>4, <1>5 DEF GuardInv, CallersOK, DecisionsOK


-----------------------------------------------------------------------------
(* Steps of the requests.                                                   *)

\* A request that stays knows the same under the same tables.
LEMMA CallerStays ==
    ASSUME UNCHANGED tables, NEW c \in Callers, CallerOK(c), caller'[c] = caller[c]
    PROVE  CallerOK(c)'
<1>1. UNCHANGED <<alive, member, pinned, grants, userRole, edit, userEpoch, orgEpoch, missed>>
  BY DEF tables, memberVars, roleVars, epochVars
<1>2. Past(caller[c].key)' <=> Past(caller[c].key)
  BY <1>1 DEF Past
<1>3. Granted(caller[c].key)' <=> Granted(caller[c].key)
  BY <1>1 DEF Granted, HasGlobalGrant, HasOrganizationGrant
<1>4. (Waiting(c)' <=> Waiting(c)) /\ missed' = missed
  BY <1>1 DEF Waiting
<1> QED
  BY <1>2, <1>3, <1>4 DEF CallerOK

\* One request moves under the same tables; decisions stay.
LEMMA OneMoves ==
    ASSUME GuardInv, UNCHANGED tables, NEW c \in Callers, NEW v \in Caller \cup {NoCaller},
           caller' = [caller EXCEPT ![c] = v], caller'[c] = v => CallerOK(c)'
    PROVE  TablesOK' /\ CallersOK'
<1>1. caller \in [Callers -> Caller \cup {NoCaller}] /\ \A b \in Callers : CallerOK(b)
  BY DEF GuardInv, CallersOK
<1>2. UNCHANGED <<alive, member, pinned, grants, userRole, edit, userEpoch, orgEpoch, missed>>
  BY DEF tables, memberVars, roleVars, epochVars
<1>3. /\ caller' \in [Callers -> Caller \cup {NoCaller}] /\ caller'[c] = v
      /\ \A b \in Callers \ {c} : caller'[b] = caller[b]
  BY <1>1
<1>4. \A b \in Callers : CallerOK(b)'
  BY <1>1, <1>3, CallerStays
<1>5. TablesOK'
  BY <1>2 DEF GuardInv, TablesOK
<1> QED
  BY <1>3, <1>4, <1>5 DEF CallersOK

\* A decision keeps its worth when a request moves with the key it has, or ends.
LEMMA DecisionStays ==
    ASSUME UNCHANGED tables, NEW d, DecisionOK(d),
           \A c \in Callers : Waiting(c)' /\ caller'[c].key = d.key =>
              \/ /\ Waiting(c) /\ caller[c].key = d.key
                 /\ caller'[c].seen = caller[c].seen
              \/ d.allowed /\ d.key.user \notin missed => TRUE \in caller'[c].seen
    PROVE  DecisionOK(d)'
<1>1. UNCHANGED <<alive, member, pinned, grants, userRole, edit, userEpoch, orgEpoch, missed>>
  BY DEF tables, memberVars, roleVars, epochVars
<1>2. Past(d.key)' /\ (Current(d.key)' <=> Current(d.key)) /\ (Granted(d.key)' <=> Granted(d.key))
  BY <1>1 DEF DecisionOK, Past, Current, Granted, HasGlobalGrant, HasOrganizationGrant
<1> QED
  BY <1>1, <1>2 DEF DecisionOK

\* A request moves on without a decision of its own, with the key it has, or ends.
LEMMA GoOn ==
    ASSUME GuardInv, UNCHANGED tables, UNCHANGED <<cache, writes>>, NEW c \in Callers,
           NEW v \in Caller \cup {NoCaller},
           caller' = [caller EXCEPT ![c] = v], caller'[c] = v => CallerOK(c)',
           \/ v.step \notin Pending
           \/ v.key = caller[c].key /\ v.seen = caller[c].seen /\ Waiting(c)
    PROVE  GuardInv'
<1>1. TablesOK' /\ CallersOK'
  BY OneMoves
<1>2. /\ caller'[c] = v /\ \A q \in Callers \ {c} : caller'[q] = caller[q]
  BY DEF GuardInv, CallersOK
<1>3. ASSUME NEW d \in cache \cup writes PROVE DecisionOK(d)'
  <2>1. DecisionOK(d)
    BY DEF GuardInv, DecisionsOK
  <2>2. ASSUME NEW q \in Callers, Waiting(q)', caller'[q].key = d.key
        PROVE  Waiting(q) /\ caller[q].key = d.key /\ caller'[q].seen = caller[q].seen
    BY <1>2, <2>2 DEF Waiting
  <2> QED
    BY <2>1, <2>2, DecisionStays
<1> QED
  BY <1>1, <1>3 DEF GuardInv, DecisionsOK

\* The record of a request that moves.
LEMMA Moved ==
    ASSUME GuardInv, NEW c \in Callers, Waiting(c), NEW s \in Pending \cup {"allowed", "denied"},
           Move(c, s)
    PROVE  \E v \in Caller : /\ caller' = [caller EXCEPT ![c] = v] /\ v.step = s
                             /\ v.key = caller[c].key /\ v.seen = caller[c].seen
<1>1. caller \in [Callers -> Caller \cup {NoCaller}]
  BY DEF GuardInv, CallersOK
<1>2. caller[c] \in Caller
  BY <1>1 DEF Waiting, Pending, NoCaller
<1> DEFINE v == [caller[c] EXCEPT !.step = s]
<1>3. caller' = [caller EXCEPT ![c] = v]
  BY <1>1 DEF Move
<1>4. v \in Caller /\ v.step = s /\ v.key = caller[c].key /\ v.seen = caller[c].seen
  BY <1>2 DEF Caller
<1> QED
  BY <1>3, <1>4

\* The session is resolved.
LEMMA AuthenticateKeeps ==
    ASSUME GuardInv, NEW c \in Callers, NEW u \in Users, NEW scope \in Scopes,
           Authenticate(c, u, scope)
    PROVE  GuardInv'
<1> DEFINE n == IF u \in pinned THEN orgEpoch ELSE 0
           o == u \in pinned
           k == [scope |-> scope, user |-> u, userEpoch |-> userEpoch[u], org |-> o, orgEpoch |-> n]
           s == IF o THEN "membership" ELSE "cache"
<1>1. TablesOK /\ CallersOK /\ DecisionsOK
  BY DEF GuardInv
<1>2. n \in 0..MaxOrgEpoch /\ o \in BOOLEAN /\ (o => n = orgEpoch) /\ s \in {"membership", "cache"}
  BY <1>1, AccessAssumption DEF TablesOK
<1>3. /\ caller[c] = NoCaller /\ u \in alive /\ (scope = "organization" => o)
      /\ caller' = [caller EXCEPT ![c] = [step |-> s, key |-> k, seen |-> {Granted(k)}]]
      /\ UNCHANGED tables /\ UNCHANGED <<cache, writes>>
  BY DEF Authenticate
<1> HIDE DEF n, o, s
<1>4. /\ k \in PermissionCacheKey /\ k.user = u /\ k.userEpoch = userEpoch[u] /\ k.org = o
      /\ k.orgEpoch = n /\ k.scope = scope
  BY <1>1, <1>2 DEF PermissionCacheKey, TablesOK
<1>5. PICK key \in PermissionCacheKey : key = k
  BY <1>4
<1> HIDE DEF k
<1> DEFINE g == Granted(key)
           v == [step |-> s, key |-> key, seen |-> {g}]
<1>6. g \in BOOLEAN
  BY DEF Granted
<1>7. caller' = [caller EXCEPT ![c] = v]
  BY <1>3, <1>5
<1> HIDE DEF g
<1>8. v \in Caller /\ v.step = s /\ v.key = key /\ v.seen = {g}
  BY <1>2, <1>6 DEF Caller, Pending
<1> HIDE DEF v
<1>9. Past(key) /\ Current(key)
  BY <1>2, <1>4, <1>5, <1>1, EpochFacts DEF Past, Current
<1>10. UNCHANGED <<alive, member, pinned, grants, userRole, edit, userEpoch, orgEpoch, missed>>
  BY <1>3 DEF tables, memberVars, roleVars, epochVars
<1>11. Past(key)' /\ (Granted(key)' => g)
  BY <1>9, <1>10 DEF g, Past, Granted, HasGlobalGrant, HasOrganizationGrant
<1>12. caller'[c] = v => CallerOK(c)'
  BY <1>2, <1>3, <1>4, <1>5, <1>8, <1>11 DEF CallerOK
<1>13. TablesOK' /\ CallersOK'
  BY <1>3, <1>7, <1>8, <1>12, OneMoves
<1>14. caller'[c] = v /\ \A q \in Callers \ {c} : caller'[q] = caller[q]
  BY <1>1, <1>7 DEF CallersOK
<1>15. ASSUME NEW d \in cache \cup writes PROVE DecisionOK(d)'
  <2>1. DecisionOK(d)
    BY <1>1 DEF DecisionsOK
  <2>2. ASSUME NEW q \in Callers, Waiting(q)', caller'[q].key = d.key
        PROVE  \/ Waiting(q) /\ caller[q].key = d.key /\ caller'[q].seen = caller[q].seen
               \/ d.allowed /\ d.key.user \notin missed => TRUE \in caller'[q].seen
    <3>1. CASE q # c
      BY <1>14, <2>2, <3>1 DEF Waiting
    <3>2. CASE q = c /\ d.allowed /\ d.key.user \notin missed
      <4>1. d.key = key /\ key.user = u
        BY <1>4, <1>5, <1>8, <1>14, <2>2, <3>2
      <4>2. Granted(key)
        BY <1>3, <1>9, <2>1, <3>2, <4>1 DEF DecisionOK
      <4>3. g = TRUE
        BY <1>6, <4>2 DEF g
      <4> QED
        BY <1>8, <1>14, <3>2, <4>3
    <3> QED
      BY <3>1, <3>2
  <2> QED
    BY <1>3, <2>1, <2>2, DecisionStays
<1> QED
  BY <1>1, <1>3, <1>13, <1>15 DEF GuardInv, DecisionsOK


\* A request goes on with the key it has.
LEMMA StepsOn ==
    ASSUME GuardInv, NEW c \in Callers, UNCHANGED tables, UNCHANGED <<cache, writes>>, Waiting(c),
           NEW s \in Pending \cup {"allowed", "denied"}, Move(c, s),
           s = "global" => caller[c].key.scope # "organization",
           s = "organization" => caller[c].key.scope # "global" /\ caller[c].key.org,
           s = "allowed" /\ caller[c].key.user \notin missed => TRUE \in caller[c].seen
    PROVE  GuardInv'
<1>1. PICK v \in Caller : /\ caller' = [caller EXCEPT ![c] = v] /\ v.step = s
                          /\ v.key = caller[c].key /\ v.seen = caller[c].seen
  BY Moved
<1>2. UNCHANGED <<alive, member, pinned, grants, userRole, edit, userEpoch, orgEpoch, missed>>
  BY DEF tables, memberVars, roleVars, epochVars
<1>3. ASSUME caller'[c] = v PROVE CallerOK(c)'
  <2>1. /\ Past(caller[c].key) /\ (Granted(caller[c].key) => TRUE \in caller[c].seen)
        /\ caller[c].key.scope = "organization" => caller[c].key.org
    BY DEF GuardInv, CallersOK, CallerOK
  <2>2. /\ caller'[c].key = caller[c].key /\ caller'[c].seen = caller[c].seen
        /\ caller'[c].step = s
    BY <1>1, <1>3
  <2>3. Past(caller[c].key)' <=> Past(caller[c].key)
    BY <1>2, <2>2 DEF Past
  <2>4. Granted(caller[c].key)' <=> Granted(caller[c].key)
    BY <1>2, <2>2 DEF Granted, HasGlobalGrant, HasOrganizationGrant
  <2> QED
    BY <1>2, <2>1, <2>2, <2>3, <2>4 DEF CallerOK
<1> QED
  BY <1>1, <1>3, GoOn

\* The steps of a request that make no decision.
LEMMA CheckKeeps ==
    ASSUME GuardInv, NEW c \in Callers
    PROVE  /\ CheckMembership(c) => GuardInv'
           /\ CacheHit(c) => GuardInv'
           /\ CacheMiss(c) => GuardInv'
           /\ Respond(c) => GuardInv'
<1>1. TablesOK /\ CallersOK /\ DecisionsOK /\ CallerOK(c)
  BY DEF GuardInv, CallersOK
<1>2. NoCaller \in Caller \cup {NoCaller} /\ NoCaller.step = "idle" /\ NoCaller.step \notin Pending
  BY DEF NoCaller, Pending
<1>3. ASSUME UNCHANGED tables, UNCHANGED <<cache, writes>>,
             caller' = [caller EXCEPT ![c] = NoCaller]
      PROVE  GuardInv'
  <2>1. caller'[c] = NoCaller => CallerOK(c)'
    BY <1>2 DEF CallerOK, Waiting
  <2> QED
    BY <1>2, <1>3, <2>1, GoOn
<1>5. ASSUME CheckMembership(c) PROVE GuardInv'
  <2>1. /\ UNCHANGED tables /\ UNCHANGED <<cache, writes>> /\ caller[c].step = "membership"
        /\ Move(c, "cache") \/ caller' = [caller EXCEPT ![c] = NoCaller]
    BY <1>5 DEF CheckMembership
  <2>2. Waiting(c) /\ "cache" \in Pending
    BY <2>1 DEF Waiting, Pending
  <2> QED
    BY <1>3, <2>1, <2>2, StepsOn
<1>6. ASSUME CacheHit(c) PROVE GuardInv'
  <2>1. PICK d \in cache : /\ d.key = caller[c].key
                           /\ Move(c, IF d.allowed THEN "allowed" ELSE "denied")
    BY <1>6 DEF CacheHit
  <2>2. /\ UNCHANGED tables /\ UNCHANGED <<cache, writes>> /\ caller[c].step = "cache"
    BY <1>6 DEF CacheHit
  <2>3. Waiting(c)
    BY <2>2 DEF Waiting, Pending
  <2>4. DecisionOK(d)
    BY <1>1 DEF DecisionsOK
  <2>5. d.allowed /\ caller[c].key.user \notin missed => TRUE \in caller[c].seen
    BY <2>1, <2>3, <2>4 DEF DecisionOK
  <2> QED
    BY <2>1, <2>2, <2>3, <2>5, StepsOn
<1>7. ASSUME CacheMiss(c) PROVE GuardInv'
  <2> DEFINE s == IF caller[c].key.scope = "organization" THEN "organization" ELSE "global"
  <2>1. /\ UNCHANGED tables /\ UNCHANGED <<cache, writes>> /\ caller[c].step = "cache"
        /\ Move(c, s)
    BY <1>7 DEF CacheMiss
  <2>2. Waiting(c) /\ s \in Pending
    BY <2>1 DEF Waiting, Pending
  <2>3. /\ s = "global" => caller[c].key.scope # "organization"
        /\ s = "organization" => caller[c].key.scope # "global" /\ caller[c].key.org
        /\ s # "allowed"
    BY <1>1, <2>2 DEF CallerOK
  <2> HIDE DEF s
  <2> QED
    BY <2>1, <2>2, <2>3, StepsOn
<1>8. ASSUME Respond(c) PROVE GuardInv'
  BY <1>3, <1>8 DEF Respond
<1> QED
  BY <1>5, <1>6, <1>7, <1>8

\* A decision that follows from the tables as they are.
LEMMA DecideKeeps ==
    ASSUME GuardInv, NEW c \in Callers, Waiting(c), NEW allowed \in BOOLEAN, Decide(c, allowed),
           allowed => Granted(caller[c].key)
    PROVE  GuardInv'
<1> DEFINE s == IF allowed THEN "allowed" ELSE "denied"
           d == [key |-> caller[c].key, allowed |-> allowed]
<1>1. TablesOK /\ CallersOK /\ DecisionsOK /\ CallerOK(c) /\ caller[c] \in Caller \cup {NoCaller}
  BY DEF GuardInv, CallersOK
<1>2. /\ Move(c, s) /\ UNCHANGED tables /\ cache' = cache
      /\ writes' = writes \cup {d} \/ writes' = writes
  BY DEF Decide
<1>3. s \in {"allowed", "denied"} /\ (s = "allowed" <=> allowed)
  OBVIOUS
<1> HIDE DEF s
<1>4. PICK v \in Caller : /\ caller' = [caller EXCEPT ![c] = v] /\ v.step = s
                          /\ v.key = caller[c].key /\ v.seen = caller[c].seen
  BY <1>2, <1>3, Moved
<1>5. Past(caller[c].key) /\ (allowed => TRUE \in caller[c].seen)
  BY <1>1 DEF CallerOK
<1>6. caller'[c] = v => CallerOK(c)'
  BY <1>3, <1>4, <1>5 DEF CallerOK, Waiting, Pending
<1>7. TablesOK' /\ CallersOK'
  BY <1>2, <1>4, <1>6, OneMoves
<1>8. /\ caller'[c] = v /\ \A q \in Callers \ {c} : caller'[q] = caller[q]
  BY <1>1, <1>4 DEF CallersOK
<1>9. \A q \in Callers : Waiting(q)' => Waiting(q) /\ caller'[q] = caller[q]
  BY <1>3, <1>4, <1>8 DEF Waiting, Pending
<1>10. d \in Decision /\ d.key = caller[c].key /\ d.allowed = allowed
  BY <1>1 DEF Decision, Caller, NoCaller, Waiting, Pending
<1> HIDE DEF d
<1>11. DecisionOK(d)
  <2>1. ASSUME allowed, NEW q \in Callers, Waiting(q), caller[q].key = d.key
        PROVE  TRUE \in caller[q].seen
    <3>1. CallerOK(q) /\ Granted(caller[q].key)
      BY <1>1, <1>10, <2>1 DEF CallersOK
    <3> QED
      BY <2>1, <3>1 DEF CallerOK
  <2> QED
    BY <1>5, <1>10, <2>1 DEF DecisionOK
<1>12. ASSUME NEW e \in cache \cup writes \cup {d} PROVE DecisionOK(e)'
  <2>1. DecisionOK(e)
    BY <1>1, <1>11 DEF DecisionsOK
  <2> QED
    BY <1>2, <1>9, <2>1, DecisionStays
<1>13. cache' \subseteq Decision /\ writes' \subseteq Decision
       /\ cache' \cup writes' \subseteq cache \cup writes \cup {d}
  BY <1>1, <1>2, <1>10 DEF DecisionsOK, d
<1> QED
  BY <1>7, <1>12, <1>13 DEF GuardInv, DecisionsOK


\* The queries of the guard.
LEMMA QueriesKeep ==
    ASSUME GuardInv, NEW c \in Callers
    PROVE  /\ QueryGlobalGrant(c) => GuardInv'
           /\ QueryOrganizationGrant(c) => GuardInv'
<1>1. CallerOK(c)
  BY DEF GuardInv, CallersOK
<1>2. ASSUME QueryGlobalGrant(c) PROVE GuardInv'
  <2> DEFINE a == HasGlobalGrant(caller[c].key.user)
  <2>1. caller[c].step = "global" /\ Waiting(c)
    BY <1>2 DEF QueryGlobalGrant, Waiting, Pending
  <2>2. a \in BOOLEAN /\ (a => Granted(caller[c].key))
    BY <1>1, <2>1 DEF HasGlobalGrant, Granted, CallerOK
  <2>3. CASE Decide(c, a)
    BY <2>1, <2>2, <2>3, DecideKeeps
  <2>4. CASE /\ caller[c].key.scope # "global" /\ caller[c].key.org
             /\ Move(c, "organization") /\ UNCHANGED <<tables, cache, writes>>
    BY <2>1, <2>4, StepsOn DEF Pending
  <2> QED
    BY <1>2, <2>3, <2>4 DEF QueryGlobalGrant
<1>3. ASSUME QueryOrganizationGrant(c) PROVE GuardInv'
  <2> DEFINE a == HasOrganizationGrant(caller[c].key.user)
  <2>1. caller[c].step = "organization" /\ Waiting(c) /\ Decide(c, a)
    BY <1>3 DEF QueryOrganizationGrant, Waiting, Pending
  <2>2. a \in BOOLEAN
    <3>1. TablesOK /\ caller[c] \in Caller /\ NoRole \notin Roles
      BY <2>1, AccessAssumption DEF GuardInv, CallersOK, Caller, NoCaller, Waiting, Pending
    <3>2. caller[c].key.user \in Users
      BY <3>1, KeyFacts DEF Caller
    <3> QED
      BY <3>1, <3>2 DEF HasOrganizationGrant, TablesOK
  <2>3. a => Granted(caller[c].key)
    BY <1>1, <2>1 DEF Granted, CallerOK
  <2> QED
    BY <2>1, <2>2, <2>3, DecideKeeps
<1> QED
  BY <1>2, <1>3

\* Redis executes a command, or an entry ends.
LEMMA RedisKeeps ==
    ASSUME GuardInv, UNCHANGED <<tables, caller>>, cache' \cup writes' \subseteq cache \cup writes
    PROVE  GuardInv'
<1>1. TablesOK /\ CallersOK /\ DecisionsOK
  BY DEF GuardInv
<1>2. UNCHANGED <<alive, member, pinned, grants, userRole, edit, userEpoch, orgEpoch, missed>>
  BY DEF tables, memberVars, roleVars, epochVars
<1>3. TablesOK'
  BY <1>1, <1>2 DEF TablesOK
<1>4. \A c \in Callers : CallerOK(c)'
  BY <1>1, CallerStays DEF CallersOK
<1>5. ASSUME NEW d \in cache \cup writes PROVE DecisionOK(d)'
  <2>1. DecisionOK(d)
    BY <1>1 DEF DecisionsOK
  <2>2. \A c \in Callers : Waiting(c)' => Waiting(c) /\ caller'[c] = caller[c]
    BY DEF Waiting
  <2> QED
    BY <2>1, <2>2, DecisionStays
<1> QED
  BY <1>1, <1>3, <1>4, <1>5 DEF GuardInv, CallersOK, DecisionsOK

-----------------------------------------------------------------------------
(* The theorem.                                                             *)

\* The invariant holds in the beginning.
LEMMA GuardInit == AccessInit => GuardInv
<1> SUFFICES ASSUME AccessInit PROVE GuardInv
  OBVIOUS
<1>1. TablesOK
  BY AccessAssumption DEF AccessInit, TablesOK
<1>2. NoCaller.step = "idle"
  BY DEF NoCaller
<1>3. CallersOK
  BY <1>2 DEF AccessInit, CallersOK, CallerOK, Waiting, Pending
<1>4. DecisionsOK
  BY DEF AccessInit, DecisionsOK
<1> QED
  BY <1>1, <1>3, <1>4 DEF GuardInv

\* No step breaks it.
LEMMA GuardStep == GuardInv /\ [AccessNext]_accessVars => GuardInv'
<1> SUFFICES ASSUME GuardInv, [AccessNext]_accessVars PROVE GuardInv'
  OBVIOUS
<1>1. CASE TableStep /\ Observe /\ UNCHANGED <<cache, writes>>
  BY <1>1, TablesKeep
<1>2. ASSUME NEW c \in Callers, CallerStep(c) PROVE GuardInv'
  BY <1>2, AuthenticateKeeps, CheckKeeps, QueriesKeep DEF CallerStep
<1>3. ASSUME NEW d \in writes, ExecuteSet(d) PROVE GuardInv'
  BY <1>3, RedisKeeps DEF ExecuteSet
<1>4. ASSUME NEW d \in cache, ExpireEntry(d) PROVE GuardInv'
  BY <1>4, RedisKeeps DEF ExpireEntry
<1>5. CASE UNCHANGED accessVars
  BY <1>5, RedisKeeps DEF accessVars
<1> QED
  BY <1>1, <1>2, <1>3, <1>4, <1>5 DEF AccessNext

\* The permission guard allows nothing that was not granted at some moment of
\* the request (permissionGuard): no decision in Redis outlives the change of a
\* role, of a membership or of what a role grants, for any number of users, roles
\* and requests, except to users whose grants changed under the same epochs.
THEOREM AccessTheorem == AccessSpec => []AccessInv
<1>1. GuardInv => AccessInv
  BY DEF GuardInv, TablesOK, CallersOK, CallerOK, DecisionsOK, AccessInv, AccessTypeOK, AllowedWasGranted
<1> QED
  BY <1>1, GuardInit, GuardStep, PTL DEF AccessSpec

=============================================================================
