-------------------------- MODULE IdempotencyLease --------------------------
(***************************************************************************)
(* runIdempotent: requests that carry the same Idempotency-Key, in any      *)
(* number of processes, around one call to an external provider.  The row   *)
(* of idempotency_records binds the key to one request, leases the          *)
(* operation to one caller at a time and keeps the response for replays.    *)
(*                                                                          *)
(* One key is modelled: rows of different keys never meet.  Times are        *)
(* abstracted to the comparisons made with them: lease is "lapsed" when      *)
(* lockedUntil <= now, expired is expiresAt <= now.                          *)
(***************************************************************************)
EXTENDS Integers

CONSTANTS
    Callers,          \* requests in flight
    Requests,         \* request fingerprints sent under the key
    Tokens, NoToken,  \* lock tokens (randomUUID); also name a run's response
    NoRequest,
    MaxRecords,       \* bound: how often the row is created anew
    MaxCrashes        \* bound: how many processes crash

ASSUME NoneAssumption == NoToken \notin Tokens /\ NoRequest \notin Requests
ASSUME BoundAssumption == MaxRecords \in Nat /\ MaxCrashes \in Nat

VARIABLES
    dedupes,   \* the provider deduplicates on the forwarded key: fixed, unknown
    record,    \* the row; id 0 when there is none
    lastId,    \* the id of the row created last
    call,      \* per caller: where runIdempotent is
    provider,  \* what the provider remembers under the key
    effects,   \* history: the effects performed, with row and request
    answers,   \* history: <<row id, response>> of every response returned
    saved,     \* history: <<row id, response>> of every response stored
    erased,    \* history: rows deleted together with their account
    crashes

history == <<effects, answers, saved, erased>>
vars == <<dedupes, record, lastId, call, provider, history, crashes>>

Ids == 0..MaxRecords
Responses == Tokens

IdempotencyRecord ==
    [id: Ids,
     request: Requests \cup {NoRequest},
     response: Responses \cup {NoToken},   \* NoToken: statusCode is null
     lockToken: Tokens \cup {NoToken},
     lease: {"none", "held", "lapsed"},
     expired: BOOLEAN]
NoRecord == [id |-> 0, request |-> NoRequest, response |-> NoToken,
             lockToken |-> NoToken, lease |-> "none", expired |-> FALSE]

Calls ==
    [step: {"idle", "find", "purge", "acquire", "create", "operate", "save",
            "release"},
     request: Requests \cup {NoRequest},
     token: Tokens \cup {NoToken},
     id: Ids,                              \* record.id, once it is read
     response: Responses \cup {NoToken}]
NoCall == [step |-> "idle", request |-> NoRequest, token |-> NoToken,
           id |-> 0, response |-> NoToken]

Nothing == [request |-> NoRequest, response |-> NoToken]
Remembered == [request: Requests, response: Responses] \cup {Nothing}

Init ==
    /\ dedupes \in BOOLEAN
    /\ record = NoRecord
    /\ lastId = 0
    /\ call = [c \in Callers |-> NoCall]
    /\ provider = Nothing
    /\ effects = {}
    /\ answers = {}
    /\ saved = {}
    /\ erased = {}
    /\ crashes = 0

At(c, step) == call[c].step = step
Goto(c, step) == call' = [call EXCEPT ![c].step = step]
Return(c) == call' = [call EXCEPT ![c] = NoCall]

RowExists == record.id # 0
Completed == record.response # NoToken

-----------------------------------------------------------------------------
(* runIdempotent.                                                           *)

\* randomUUID: nothing that still exists carries the token.
Fresh(token) ==
    /\ token \notin {record.lockToken, record.response, provider.response}
    /\ \A c \in Callers : token \notin {call[c].token, call[c].response}
    /\ \A f \in effects : f.response # token
    /\ \A pair \in saved : pair[2] # token

\* A request arrives; its lock token is new.
Begin(c, request, token) ==
    /\ At(c, "idle")
    /\ Fresh(token)
    /\ call' = [call EXCEPT ![c] =
                  [step |-> "find", request |-> request, token |-> token,
                   id |-> 0, response |-> NoToken]]
    /\ UNCHANGED <<record, lastId, provider, history, crashes>>

\* findFirst, and what it leads to: create, purge, conflict, replay, acquire.
FindNothing(c) ==
    /\ At(c, "find") /\ ~RowExists
    /\ Goto(c, "create")
    /\ UNCHANGED <<record, lastId, provider, history, crashes>>

FindExpired(c) ==
    /\ At(c, "find") /\ RowExists /\ record.expired /\ Completed
    /\ call' = [call EXCEPT ![c] = [@ EXCEPT !.step = "purge",
                                             !.id = record.id]]
    /\ UNCHANGED <<record, lastId, provider, history, crashes>>

AssertSameRequest(c) == record.request = call[c].request

FindDifferentRequest(c) ==
    /\ At(c, "find") /\ RowExists /\ ~(record.expired /\ Completed)
    /\ ~AssertSameRequest(c)
    /\ Return(c)
    /\ UNCHANGED <<record, lastId, provider, history, crashes>>

Replay(c) ==
    /\ At(c, "find") /\ RowExists /\ ~record.expired
    /\ AssertSameRequest(c)
    /\ Completed
    /\ answers' = answers \cup {<<record.id, record.response>>}
    /\ Return(c)
    /\ UNCHANGED <<record, lastId, provider, effects, saved, erased, crashes>>

FindUnfinished(c) ==
    /\ At(c, "find") /\ RowExists /\ ~Completed
    /\ AssertSameRequest(c)
    /\ call' = [call EXCEPT ![c] = [@ EXCEPT !.step = "acquire",
                                             !.id = record.id]]
    /\ UNCHANGED <<record, lastId, provider, history, crashes>>

\* deleteMany repeats the condition, by id.
PurgeExpired(c) ==
    /\ At(c, "purge")
    /\ record' = IF record.id = call[c].id /\ record.expired /\ Completed
                 THEN NoRecord ELSE record
    /\ Goto(c, "create")
    /\ UNCHANGED <<lastId, provider, history, crashes>>

\* statusCode is null and lockedUntil has passed.
Acquirable == ~Completed /\ record.lease # "held"

Acquire(c) ==
    /\ At(c, "acquire")
    /\ record.id = call[c].id /\ Acquirable
    /\ record' = [record EXCEPT !.lockToken = call[c].token,
                                !.lease = "held",
                                !.expired = FALSE]
    /\ Goto(c, "operate")
    /\ UNCHANGED <<lastId, provider, history, crashes>>

\* The comparison uses the caller's clock at its arrival, so a lease that
\* lapsed since then still conflicts.
AcquireConflict(c) ==
    /\ At(c, "acquire")
    /\ record.id # call[c].id \/ Completed \/ record.lease # "none"
    /\ Return(c)
    /\ UNCHANGED <<record, lastId, provider, history, crashes>>

\* The unique key (actorKey, scope, keyHash) makes one create win.
Create(c) ==
    /\ At(c, "create") /\ ~RowExists
    /\ lastId < MaxRecords
    /\ lastId' = lastId + 1
    /\ record' = [id |-> lastId + 1, request |-> call[c].request,
                  response |-> NoToken, lockToken |-> call[c].token,
                  lease |-> "held", expired |-> FALSE]
    /\ call' = [call EXCEPT ![c] = [@ EXCEPT !.step = "operate",
                                             !.id = lastId + 1]]
    /\ UNCHANGED <<provider, history, crashes>>

CreateConflict(c) ==
    /\ At(c, "create") /\ RowExists
    /\ Return(c)
    /\ UNCHANGED <<record, lastId, provider, history, crashes>>

\* Mutant: every attempt sends the provider a key of its own.
RecallsNothing == FALSE

\* The provider: a remembered key returns its first response, or an error when
\* the parameters differ.
Recalls == dedupes /\ provider # Nothing

Perform(c) ==
    IF Recalls
    THEN UNCHANGED <<provider, effects>>
    ELSE /\ provider' = [request |-> call[c].request,
                         response |-> call[c].token]
         /\ effects' = effects \cup {[id |-> call[c].id,
                                     request |-> call[c].request,
                                     response |-> call[c].token]}

OperationSucceeds(c) ==
    /\ At(c, "operate")
    /\ Recalls => provider.request = call[c].request
    /\ Perform(c)
    /\ call' = [call EXCEPT ![c] = [@ EXCEPT !.step = "save",
                                             !.response = provider'.response]]
    /\ UNCHANGED <<record, lastId, answers, saved, erased, crashes>>

\* It refuses, or its answer is lost after it has acted.
OperationFails(c) ==
    /\ At(c, "operate")
    /\ \/ UNCHANGED <<provider, effects>>
       \/ Perform(c)
    /\ Goto(c, "release")
    /\ UNCHANGED <<record, lastId, answers, saved, erased, crashes>>

\* Mutant: the lock token is not compared.
HoldsAnyLease(c) == record.id = call[c].id /\ ~Completed

\* Mutant: the row is addressed by its id alone.
HoldsRow(c) == record.id = call[c].id

\* id, lockToken and statusCode null.
HoldsLease(c) ==
    /\ record.id = call[c].id
    /\ record.lockToken = call[c].token
    /\ ~Completed

StoreResponse(c) ==
    /\ record' = [record EXCEPT !.response = call[c].response,
                                !.lockToken = NoToken,
                                !.lease = "none"]
    /\ saved' = saved \cup {<<call[c].id, call[c].response>>}

Save(c) ==
    /\ At(c, "save") /\ HoldsLease(c)
    /\ StoreResponse(c)
    /\ answers' = answers \cup {<<call[c].id, call[c].response>>}
    /\ Return(c)
    /\ UNCHANGED <<lastId, provider, effects, erased, crashes>>

\* The row is written but the caller never learns it.
SaveUnacknowledged(c) ==
    /\ At(c, "save") /\ HoldsLease(c)
    /\ StoreResponse(c)
    /\ Goto(c, "release")
    /\ UNCHANGED <<lastId, provider, effects, answers, erased, crashes>>

\* "Idempotency ownership lease was lost", or the statement fails.
SaveFails(c) ==
    /\ At(c, "save")
    /\ Goto(c, "release")
    /\ UNCHANGED <<record, lastId, provider, history, crashes>>

\* The catch block keeps the fingerprint and gives the lease up.
Release(c) ==
    /\ At(c, "release")
    /\ record' = IF HoldsLease(c)
                 THEN [record EXCEPT !.lockToken = NoToken, !.lease = "lapsed"]
                 ELSE record
    /\ Return(c)
    /\ UNCHANGED <<lastId, provider, history, crashes>>

-----------------------------------------------------------------------------
(* Time, maintenance, failures.                                             *)

LapseLease ==
    /\ record.lease = "held"
    /\ record' = [record EXCEPT !.lease = "lapsed"]
    /\ UNCHANGED <<lastId, call, provider, history, crashes>>

PassExpiry ==
    /\ RowExists /\ ~record.expired
    /\ record' = [record EXCEPT !.expired = TRUE]
    /\ UNCHANGED <<lastId, call, provider, history, crashes>>

\* Mutant: retention looks at expiresAt alone.
RetentionPurgesUnfinished ==
    /\ RowExists /\ record.expired
    /\ record' = NoRecord
    /\ UNCHANGED <<lastId, call, provider, history, crashes>>

\* Retention deletes completed rows only.
RetentionPurge ==
    /\ RowExists /\ record.expired /\ Completed
    /\ record' = NoRecord
    /\ UNCHANGED <<lastId, call, provider, history, crashes>>

\* deleteAccount deletes every row of the user.
EraseAccount ==
    /\ RowExists
    /\ record' = NoRecord
    /\ erased' = erased \cup {record.id}
    /\ UNCHANGED <<lastId, call, provider, effects, answers, saved, crashes>>

\* The provider keeps a key while a request may still retry under it.
ProviderForgets ==
    /\ provider # Nothing
    /\ ~RowExists \/ Completed
    /\ \A c \in Callers : At(c, "idle")
    /\ provider' = Nothing
    /\ UNCHANGED <<record, lastId, call, history, crashes>>

Crash(c) ==
    /\ ~At(c, "idle")
    /\ crashes < MaxCrashes
    /\ crashes' = crashes + 1
    /\ Return(c)
    /\ UNCHANGED <<record, lastId, provider, history>>

-----------------------------------------------------------------------------
CallerStep(c) ==
    \/ FindNothing(c)
    \/ FindExpired(c)
    \/ FindDifferentRequest(c)
    \/ Replay(c)
    \/ FindUnfinished(c)
    \/ PurgeExpired(c)
    \/ Acquire(c)
    \/ AcquireConflict(c)
    \/ Create(c)
    \/ CreateConflict(c)
    \/ OperationSucceeds(c)
    \/ OperationFails(c)
    \/ Save(c)
    \/ SaveUnacknowledged(c)
    \/ SaveFails(c)
    \/ Release(c)

Step ==
    \/ \E c \in Callers, request \in Requests, token \in Tokens :
          Begin(c, request, token)
    \/ \E c \in Callers : CallerStep(c) \/ Crash(c)
    \/ LapseLease
    \/ PassExpiry
    \/ RetentionPurge
    \/ EraseAccount
    \/ ProviderForgets

Next == Step /\ UNCHANGED dedupes

Spec == Init /\ [][Next]_vars

-----------------------------------------------------------------------------
\* A call in flight has a request and a token, and a response to save.
CallsOK ==
    /\ call \in [Callers -> Calls]
    /\ \A c \in Callers :
          /\ ~At(c, "idle") => call[c].request \in Requests /\ call[c].token \in Tokens
          /\ At(c, "save") => call[c].response \in Responses

ProviderOK == dedupes \in BOOLEAN

\* The row, the callers' local state and the histories keep their types.
TypeOK ==
    /\ ProviderOK
    /\ record \in IdempotencyRecord
    /\ lastId \in Ids
    /\ CallsOK
    /\ provider \in Remembered
    /\ effects \subseteq [id: Ids, request: Requests, response: Responses]
    /\ answers \subseteq (Ids \X Responses)
    /\ saved \subseteq (Ids \X Responses)
    /\ erased \subseteq Ids
    /\ crashes \in 0..MaxCrashes

\* Whoever asks under one row gets one answer, and it is the stored one: a
\* caller that lost its lease, however late, neither answers nor overwrites.
SameAnswer ==
    /\ answers \subseteq saved
    /\ \A p, q \in saved : p[1] = q[1] => p = q

\* The key is bound to one request from the first attempt on, through
\* failures, crashes and takeovers: no other request acts under its row.
OneRequestPerRow ==
    \A f, g \in effects : f.id = g.id => f.request = g.request

\* An effect the provider may have performed is never forgotten: its row is
\* still there for the retry, or has its response, or went with the account.
EffectsAccountedFor ==
    \A f \in effects :
        \/ f.id = record.id
        \/ f.id \in erased
        \/ \E p \in saved : p[1] = f.id

EffectsUnique == \A f, g \in effects : f.id = g.id => f = g

\* "The same business key must be forwarded to that provider": with that, one
\* row leads to one effect, whatever crashes, lapses and retries.
OneEffectPerRow == dedupes => EffectsUnique

\* A lease that has not lapsed ends by its holder's own step, or with the
\* account: a stale caller's failure does not open it to a third one.
LeaseRespected ==
    [][(/\ record.lease = "held"
        /\ record'.lockToken # record.lockToken
        /\ erased' = erased) =>
            \E c \in Callers : /\ call[c].token = record.lockToken
                               /\ call'[c] # call[c]]_vars

=============================================================================
