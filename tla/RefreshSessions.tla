-------------------------- MODULE RefreshSessions ---------------------------
(***************************************************************************)
(* Sessions and refresh tokens of one user: login (createSession), rotation *)
(* of refresh tokens with reuse detection (rotateRefreshToken), and the     *)
(* transactions that revoke sessions: logout, logout of all sessions,       *)
(* password change and reset, email change, suspension, account deletion.   *)
(*                                                                          *)
(* Transactions interleave by statement.  PostgreSQL is modelled as far as   *)
(* the code relies on it: an update locks its row until the commit; under    *)
(* SERIALIZABLE (rotation) all reads see the snapshot of the first one, and  *)
(* an update of a row that was committed since then aborts the transaction   *)
(* (P2034, which nobody retries); under READ COMMITTED (revocation) an       *)
(* update that had to wait goes on with the row's new version; a cycle of    *)
(* waiting transactions is broken by aborting one of them.                   *)
(***************************************************************************)
EXTENDS Integers, FiniteSets

CONSTANTS
    Requests,             \* HTTP requests in flight
    Sessions, Tokens,     \* rows of sessions and of refresh_tokens
    NoRequest, NoSession, NoToken

ASSUME NoneAssumption ==
    /\ NoRequest \notin Requests
    /\ NoSession \notin Sessions
    /\ NoToken \notin Tokens

VARIABLES
    active,        \* the user's status is ACTIVE
    expired,       \* sessions whose expiresAt has passed
    session,       \* committed rows
    token,
    sessionLock,   \* row locks of running transactions
    tokenLock,
    request,       \* per request: its transaction
    reused         \* history: sessions for which a committed request has
                   \* answered REUSE

rows == <<active, expired, session, token>>
locks == <<sessionLock, tokenLock>>
vars == <<rows, locks, request, reused>>

\* lastSeen: the token of the rotation that wrote lastSeenAt last.
Session == [state: {"none", "live", "revoked"},
            lastSeen: Tokens \cup {NoToken}]
NewSession == [state |-> "none", lastSeen |-> NoToken]

\* replacedByTokenId is set together with consumedAt.  A row that does not
\* exist has no session.
RefreshToken == [session: Sessions \cup {NoSession},
                 consumed: BOOLEAN,
                 revoked: BOOLEAN]
NewToken == [session |-> NoSession, consumed |-> FALSE, revoked |-> FALSE]

Steps == {"idle", "create", "consume", "touch", "reuseSession",
          "reuseTokens", "revokeSessions", "findTokens", "revokeTokens"}

\* A rotation remembers the snapshot of its first read; a revocation the
\* sessions its WHERE clauses cover and the rows its updates matched.
Request == [step: Steps,
            token: Tokens \cup {NoToken},
            seenSession: Session,
            seenTokens: [Tokens -> RefreshToken],
            scope: SUBSET Sessions,
            targets: SUBSET Sessions,
            tokenTargets: SUBSET Tokens,
            deactivates: BOOLEAN]
NoTokens == [t \in Tokens |-> NewToken]
Idle == [step |-> "idle", token |-> NoToken, seenSession |-> NewSession,
         seenTokens |-> NoTokens, scope |-> {}, targets |-> {},
         tokenTargets |-> {}, deactivates |-> FALSE]

Init ==
    /\ active = TRUE
    /\ expired = {}
    /\ session = [s \in Sessions |-> NewSession]
    /\ token = NoTokens
    /\ sessionLock = [s \in Sessions |-> NoRequest]
    /\ tokenLock = [t \in Tokens |-> NoRequest]
    /\ request = [r \in Requests |-> Idle]
    /\ reused = {}

At(r, step) == request[r].step = step
Goto(r, step) == request' = [request EXCEPT ![r].step = step]
End(r) == request' = [request EXCEPT ![r] = Idle]

LockSessions(r, S) ==
    sessionLock' = [s \in Sessions |-> IF s \in S THEN r ELSE sessionLock[s]]
LockToken(r, t) == tokenLock' = [tokenLock EXCEPT ![t] = r]

\* Commit and abort release every lock of the transaction.
Unlock(r) ==
    /\ sessionLock' = [s \in Sessions |->
                         IF sessionLock[s] = r THEN NoRequest
                         ELSE sessionLock[s]]
    /\ tokenLock' = [t \in Tokens |->
                       IF tokenLock[t] = r THEN NoRequest ELSE tokenLock[t]]

Exists(t) == token[t].session # NoSession

\* A row id no committed row and no running rotation uses.
FreshToken(t) == ~Exists(t)

-----------------------------------------------------------------------------
(* Login and time.                                                          *)

\* The credentials are verified and the status is read ...
Login(r) ==
    /\ At(r, "idle")
    /\ active
    /\ Goto(r, "create")
    /\ UNCHANGED <<rows, locks, reused>>

\* ... and createSession inserts the session without looking again.
CreateSession(r, s, t) ==
    /\ At(r, "create")
    /\ session[s].state = "none" /\ FreshToken(t)
    /\ session' = [session EXCEPT ![s].state = "live"]
    /\ token' = [token EXCEPT ![t].session = s]
    /\ End(r)
    /\ UNCHANGED <<active, expired, locks, reused>>

PassExpiry(s) ==
    /\ session[s].state # "none" /\ s \notin expired
    /\ expired' = expired \cup {s}
    /\ UNCHANGED <<active, session, token, locks, request, reused>>

Reactivate ==
    /\ ~active
    /\ active' = TRUE
    /\ UNCHANGED <<expired, session, token, locks, request, reused>>

-----------------------------------------------------------------------------
(* rotateRefreshToken.                                                      *)

\* The token's expiresAt is its session's.
Unusable(t) ==
    LET s == token[t].session
    IN  \/ token[t].consumed \/ token[t].revoked
        \/ session[s].state = "revoked" \/ s \in expired
        \/ ~active

\* findFirst by the token's hash takes the snapshot.
RotateRead(r, t) ==
    /\ At(r, "idle")
    /\ Exists(t)
    /\ request' = [request EXCEPT ![r] =
                     [Idle EXCEPT !.step = IF Unusable(t) THEN "reuseSession"
                                           ELSE "consume",
                                  !.token = t,
                                  !.seenSession = session[token[t].session],
                                  !.seenTokens = token]]
    /\ UNCHANGED <<rows, locks, reused>>

PresentedSession(r) == token[request[r].token].session

\* Mutant: the transaction runs at the default isolation level.
NeverFails(row, seen) == FALSE

\* A SERIALIZABLE update fails when the row is not the one of the snapshot.
\* (So the branch for consumed.count !== 1 is never taken.)
SerializationFailure(row, seen) == row # seen

SessionChanged(r) ==
    SerializationFailure(session[PresentedSession(r)], request[r].seenSession)
TokenChanged(r, t) ==
    SerializationFailure(token[t], request[r].seenTokens[t])

\* The presented token is marked consumed.
ConsumeToken(r) ==
    LET t == request[r].token
    IN  /\ At(r, "consume")
        /\ tokenLock[t] = NoRequest
        /\ ~TokenChanged(r, t)
        /\ LockToken(r, t)
        /\ Goto(r, "touch")
        /\ UNCHANGED <<rows, sessionLock, reused>>

\* Mutant: lastSeenAt is not written, so the session row is not touched.
CommitUntouched(r, next) ==
    /\ At(r, "touch")
    /\ FreshToken(next)
    /\ token' = [token EXCEPT ![request[r].token].consumed = TRUE,
                              ![next].session = PresentedSession(r)]
    /\ Unlock(r) /\ End(r)
    /\ UNCHANGED <<active, expired, session, reused>>

\* lastSeenAt is written and the transaction commits, with the next token.
CommitRotation(r, next) ==
    LET s == PresentedSession(r)
    IN  /\ At(r, "touch")
        /\ sessionLock[s] = NoRequest
        /\ ~SessionChanged(r)
        /\ FreshToken(next)
        /\ session' = [session EXCEPT ![s].lastSeen = next]
        /\ token' = [token EXCEPT ![request[r].token].consumed = TRUE,
                                  ![next].session = s]
        /\ Unlock(r) /\ End(r)
        /\ UNCHANGED <<active, expired, reused>>

\* Either update fails, and the transaction with it.
RotationConflict(r) ==
    LET t == request[r].token
    IN  /\ request[r].step \in {"consume", "touch"}
        /\ IF At(r, "consume")
           THEN tokenLock[t] = NoRequest /\ TokenChanged(r, t)
           ELSE sessionLock[token[t].session] = NoRequest /\ SessionChanged(r)
        /\ Unlock(r) /\ End(r)
        /\ UNCHANGED <<rows, reused>>

\* An unusable token revokes its session, unless the snapshot says it is ...
ReuseRevokeSession(r) ==
    LET s == PresentedSession(r)
    IN  /\ At(r, "reuseSession")
        /\ \/ /\ request[r].seenSession.state = "revoked"
              /\ UNCHANGED sessionLock
           \/ /\ request[r].seenSession.state # "revoked"
              /\ sessionLock[s] = NoRequest
              /\ ~SessionChanged(r)
              /\ LockSessions(r, {s})
        /\ Goto(r, "reuseTokens")
        /\ UNCHANGED <<rows, tokenLock, reused>>

ReuseSessionConflict(r) ==
    /\ At(r, "reuseSession")
    /\ request[r].seenSession.state # "revoked"
    /\ sessionLock[PresentedSession(r)] = NoRequest
    /\ SessionChanged(r)
    /\ Unlock(r) /\ End(r)
    /\ UNCHANGED <<rows, reused>>

\* The tokens of the session that the snapshot shows unrevoked.
ReuseTokens(r) ==
    {t \in Tokens : /\ request[r].seenTokens[t].session = PresentedSession(r)
                    /\ ~request[r].seenTokens[t].revoked}

\* ... and revokes the tokens of the session.
CommitReuse(r) ==
    LET s == PresentedSession(r)
    IN  /\ At(r, "reuseTokens")
        /\ \A t \in ReuseTokens(r) :
               tokenLock[t] = NoRequest /\ ~TokenChanged(r, t)
        /\ session' = IF sessionLock[s] = r
                      THEN [session EXCEPT ![s].state = "revoked"]
                      ELSE session
        /\ token' = [t \in Tokens |->
                       IF t \in ReuseTokens(r)
                       THEN [token[t] EXCEPT !.revoked = TRUE]
                       ELSE token[t]]
        /\ Unlock(r) /\ End(r)
        /\ reused' = reused \cup {s}
        /\ UNCHANGED <<active, expired>>

ReuseTokensConflict(r) ==
    /\ At(r, "reuseTokens")
    /\ \E t \in ReuseTokens(r) : tokenLock[t] = NoRequest /\ TokenChanged(r, t)
    /\ Unlock(r) /\ End(r)
    /\ UNCHANGED <<rows, reused>>

-----------------------------------------------------------------------------
(* Revocation: every transaction updates the sessions, then the tokens.     *)

\* logout, or the deletion of one session from the list, has one session in
\* its WHERE clauses; a password change all but the caller's own; the others
\* all.  Suspension and account deletion also change the user's status.
RevocationScopes ==
    {{s} : s \in Sessions} \cup {Sessions \ {s} : s \in Sessions} \cup {Sessions}

\* The first update finds the rows it has to lock.
BeginRevocation(r, scope, deactivates) ==
    /\ At(r, "idle")
    /\ deactivates => scope = Sessions
    /\ request' = [request EXCEPT ![r] =
                     [Idle EXCEPT !.step = "revokeSessions",
                                  !.scope = scope,
                                  !.targets = {s \in scope :
                                                 session[s].state = "live"},
                                  !.deactivates = deactivates]]
    /\ UNCHANGED <<rows, locks, reused>>

RevokeSessions(r) ==
    /\ At(r, "revokeSessions")
    /\ \A s \in request[r].targets : sessionLock[s] = NoRequest
    /\ LockSessions(r, {s \in request[r].targets : session[s].state = "live"})
    /\ Goto(r, "findTokens")
    /\ UNCHANGED <<rows, tokenLock, reused>>

\* The second update finds the committed tokens of the scope.
FindTokens(r) ==
    /\ At(r, "findTokens")
    /\ request' = [request EXCEPT
                     ![r].step = "revokeTokens",
                     ![r].tokenTargets =
                        {t \in Tokens : /\ token[t].session \in request[r].scope
                                        /\ ~token[t].revoked}]
    /\ UNCHANGED <<rows, locks, reused>>

CommitRevocation(r) ==
    /\ At(r, "revokeTokens")
    /\ \A t \in request[r].tokenTargets : tokenLock[t] = NoRequest
    /\ session' = [s \in Sessions |->
                     IF sessionLock[s] = r
                     THEN [session[s] EXCEPT !.state = "revoked"]
                     ELSE session[s]]
    /\ token' = [t \in Tokens |->
                   IF t \in request[r].tokenTargets
                   THEN [token[t] EXCEPT !.revoked = TRUE]
                   ELSE token[t]]
    /\ active' = (active /\ ~request[r].deactivates)
    /\ Unlock(r) /\ End(r)
    /\ UNCHANGED <<expired, reused>>

-----------------------------------------------------------------------------
(* Waiting transactions.                                                    *)

WaitsFor(r, q) ==
    \/ At(r, "consume") /\ tokenLock[request[r].token] = q
    \/ At(r, "touch") /\ sessionLock[PresentedSession(r)] = q
    \/ /\ At(r, "reuseSession") /\ request[r].seenSession.state # "revoked"
       /\ sessionLock[PresentedSession(r)] = q
    \/ At(r, "reuseTokens") /\ \E t \in ReuseTokens(r) : tokenLock[t] = q
    \/ At(r, "revokeSessions")
       /\ \E s \in request[r].targets : sessionLock[s] = q
    \/ At(r, "revokeTokens")
       /\ \E t \in request[r].tokenTargets : tokenLock[t] = q

\* A rotation locks its token first and its session last, a revocation the
\* other way round: PostgreSQL aborts either of the two.
DeadlockVictim(r) ==
    /\ \E q \in Requests : WaitsFor(r, q) /\ WaitsFor(q, r)
    /\ Unlock(r) /\ End(r)
    /\ UNCHANGED <<rows, reused>>

-----------------------------------------------------------------------------
LoginStep(r) ==
    \/ Login(r)
    \/ \E s \in Sessions, t \in Tokens : CreateSession(r, s, t)

RotationStep(r) ==
    \/ \E t \in Tokens : RotateRead(r, t)
    \/ ConsumeToken(r)
    \/ \E t \in Tokens : CommitRotation(r, t)
    \/ RotationConflict(r)
    \/ ReuseRevokeSession(r)
    \/ ReuseSessionConflict(r)
    \/ CommitReuse(r)
    \/ ReuseTokensConflict(r)

RevocationStep(r) ==
    \/ \E scope \in RevocationScopes, deactivates \in BOOLEAN :
          BeginRevocation(r, scope, deactivates)
    \/ RevokeSessions(r)
    \/ FindTokens(r)
    \/ CommitRevocation(r)

Next ==
    \/ \E r \in Requests :
          \/ LoginStep(r)
          \/ RotationStep(r)
          \/ RevocationStep(r)
          \/ DeadlockVictim(r)
    \/ \E s \in Sessions : PassExpiry(s)
    \/ Reactivate

Spec == Init /\ [][Next]_vars

-----------------------------------------------------------------------------
\* Rows, locks and transactions keep their types.
TypeOK ==
    /\ active \in BOOLEAN
    /\ expired \subseteq Sessions
    /\ session \in [Sessions -> Session]
    /\ token \in [Tokens -> RefreshToken]
    /\ sessionLock \in [Sessions -> Requests \cup {NoRequest}]
    /\ tokenLock \in [Tokens -> Requests \cup {NoRequest}]
    /\ request \in [Requests -> Request]
    /\ reused \subseteq Sessions

Live(t) == Exists(t) /\ ~token[t].consumed /\ ~token[t].revoked

\* However many requests present the same refresh token at once, rotation
\* leaves a session at most one token that can be rotated again.
OneLiveToken ==
    \A t, u \in Tokens :
        Live(t) /\ Live(u) /\ token[t].session = token[u].session => t = u

\* Revocation wins over a rotation that is under way: no token of a revoked
\* session is left live, even one the rotation was about to issue.
RevokedSessionIsDead ==
    \A t \in Tokens :
        Live(t) => session[token[t].session].state = "live"

\* "Reusing any consumed token revokes its whole session": once a request has
\* answered REUSE, the session is revoked and no token of it is left live, even
\* one that a rotation was issuing at the same time.
ReuseRevokesSession ==
    \A s \in reused :
        /\ session[s].state = "revoked"
        /\ \A t \in Tokens : token[t].session = s => ~Live(t)

\* The invariant of the tables: types, and one token of a session that can be
\* rotated, however many requests present the same one at once.
SessionInv == TypeOK /\ OneLiveToken

=============================================================================
