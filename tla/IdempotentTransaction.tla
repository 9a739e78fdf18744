----------------------- MODULE IdempotentTransaction -----------------------
(***************************************************************************)
(* runIdempotentTransaction: requests under one Idempotency-Key whose        *)
(* operation is a database mutation, committed in one SERIALIZABLE           *)
(* transaction together with the row that replays its response.              *)
(*                                                                          *)
(* One key is modelled.  PostgreSQL is modelled as far as the code relies on *)
(* it: reads see the snapshot of the transaction's first one; the key's      *)
(* index entry belongs to one uncommitted writer at a time; a deletion of a  *)
(* row that is no longer the snapshot's fails with P2034, an insertion where *)
(* another row has been committed with P2002 or P2034; and PostgreSQL may    *)
(* abort any transaction with P2034.  The unit of the clock is the life of   *)
(* a row (ttlHours).                                                         *)
(***************************************************************************)
EXTENDS Integers

CONSTANTS
    Clients, NoClient,   \* requests in flight; each also names its response
    Bodies, NoBody,      \* request fingerprints sent under the key
    MaxClock             \* bound: how often a life of a row passes

ASSUME ClientAssumption == NoClient \notin Clients
ASSUME ClockAssumption == MaxClock \in Nat

VARIABLES
    clock,
    stored,      \* the committed row
    writer,      \* the transaction that has deleted or inserted the row
    execution,   \* per client: where runIdempotentTransaction is
    mutations    \* history: the operations that were committed

txVars == <<clock, stored, writer, execution, mutations>>

\* A row names the client whose response it stores; a client that does not
\* exist stands for no row.
Stored == [by: Clients \cup {NoClient}, body: Bodies \cup {NoBody},
           expiresAt: 0..MaxClock + 1]
NotStored == [by |-> NoClient, body |-> NoBody, expiresAt |-> 0]

Outcomes == {"none", "created", "replayed", "refused", "failed", "unknown"}

Execution == [step: {"idle", "find", "delete", "create", "operate", "commit",
                     "winner", "done"},
              body: Bodies \cup {NoBody},
              now: 0..MaxClock,            \* taken once, before the attempts
              attempt: 0..2,
              seen: Stored,                \* the snapshot
              outcome: Outcomes,
              response: Clients \cup {NoClient}]
NotStarted == [step |-> "idle", body |-> NoBody, now |-> 0, attempt |-> 0,
               seen |-> NotStored, outcome |-> "none", response |-> NoClient]

TxInit ==
    /\ clock = 0
    /\ stored = NotStored
    /\ writer = NoClient
    /\ execution = [c \in Clients |-> NotStarted]
    /\ mutations = {}

Running(c) == execution[c].step \notin {"idle", "done"}
Reaches(c, step) == execution' = [execution EXCEPT ![c].step = step]
Answer(c, outcome, response) ==
    execution' = [execution EXCEPT ![c] =
                    [@ EXCEPT !.step = "done", !.outcome = outcome,
                              !.response = response]]
RollBack(c) == writer' = IF writer = c THEN NoClient ELSE writer

-----------------------------------------------------------------------------
(* Time and retention.                                                      *)

\* No request lives as long as a row.
Tick ==
    /\ clock < MaxClock
    /\ \A c \in Clients : Running(c) => execution[c].now = clock
    /\ clock' = clock + 1
    /\ UNCHANGED <<stored, writer, execution, mutations>>

\* runRetentionCleanup waits for a transaction that deletes the row.
PurgeStored ==
    /\ stored # NotStored /\ stored.expiresAt < clock
    /\ writer = NoClient
    /\ stored' = NotStored
    /\ UNCHANGED <<clock, writer, execution, mutations>>

-----------------------------------------------------------------------------
(* runIdempotentTransaction.                                                *)

Submit(c, body) ==
    /\ execution[c].step = "idle"
    /\ execution' = [execution EXCEPT ![c] =
                       [@ EXCEPT !.step = "find", !.body = body, !.now = clock]]
    /\ UNCHANGED <<clock, stored, writer, mutations>>

\* The row is compared with the time at which the request came.
Expired(row, c) == row.expiresAt <= execution[c].now

\* Mutant: a row that is found is replayed to whoever asks.
ReplayAny(c, row) == Answer(c, "replayed", row.by)

\* assertSameRequest and completedResult.  (A row without a response cannot be
\* found here: it is only ever committed with one.)
ReplayStored(c, row) ==
    IF row.body = execution[c].body
    THEN Answer(c, "replayed", row.by)
    ELSE Answer(c, "refused", NoClient)

\* findFirst takes the snapshot; a live row ends the call.
FindStored(c) ==
    /\ execution[c].step = "find"
    /\ IF stored # NotStored /\ ~Expired(stored, c)
       THEN ReplayStored(c, stored)
       ELSE execution' = [execution EXCEPT ![c] =
                            [@ EXCEPT !.step = IF stored = NotStored
                                               THEN "create" ELSE "delete",
                                      !.seen = stored]]
    /\ UNCHANGED <<clock, stored, writer, mutations>>

DeleteExpired(c) ==
    /\ execution[c].step = "delete"
    /\ writer = NoClient /\ stored = execution[c].seen
    /\ writer' = c
    /\ Reaches(c, "create")
    /\ UNCHANGED <<clock, stored, mutations>>

\* Mutant: the key has no unique index.
NeverTaken(c) == FALSE

\* The unique index: another transaction has committed a row under the key.
KeyTaken(c) == writer # c /\ stored # NotStored

CreateStored(c) ==
    /\ execution[c].step = "create"
    /\ writer \in {c, NoClient}
    /\ ~KeyTaken(c)
    /\ writer' = c
    /\ Reaches(c, "operate")
    /\ UNCHANGED <<clock, stored, mutations>>

\* P2002: the winner has committed, and is read outside the transaction.
CreateTaken(c) ==
    /\ execution[c].step = "create"
    /\ writer \in {c, NoClient}
    /\ KeyTaken(c)
    /\ Reaches(c, "winner")
    /\ UNCHANGED <<clock, stored, writer, mutations>>

ReadWinner(c) ==
    /\ execution[c].step = "winner"
    /\ IF stored = NotStored THEN Answer(c, "failed", NoClient)
       ELSE ReplayStored(c, stored)
    /\ UNCHANGED <<clock, stored, writer, mutations>>

\* The operation runs inside the transaction, and may throw.
Operate(c) ==
    /\ execution[c].step = "operate"
    /\ \/ Reaches(c, "commit") /\ UNCHANGED writer
       \/ Answer(c, "failed", NoClient) /\ RollBack(c)
    /\ UNCHANGED <<clock, stored, mutations>>

\* The response is written into the row and everything is committed; the
\* answer of the commit may be lost.
CommitStored(c) ==
    LET row == [by |-> c, body |-> execution[c].body,
                expiresAt |-> execution[c].now + 1]
    IN  /\ execution[c].step = "commit"
        /\ stored' = row
        /\ mutations' = mutations \cup {[row |-> row, now |-> execution[c].now]}
        /\ writer' = NoClient
        /\ Answer(c, "created", c) \/ Answer(c, "unknown", NoClient)
        /\ UNCHANGED clock

\* P2034 rolls everything back; the third one is the client's to deal with.
SerializationAbort(c) ==
    /\ execution[c].step \in {"find", "delete", "create", "operate", "commit"}
    /\ IF execution[c].attempt < 2
       THEN execution' = [execution EXCEPT ![c] =
                            [@ EXCEPT !.step = "find",
                                      !.attempt = execution[c].attempt + 1,
                                      !.seen = NotStored]]
       ELSE Answer(c, "failed", NoClient)
    /\ RollBack(c)
    /\ UNCHANGED <<clock, stored, mutations>>

\* The process dies, or the connection is lost before the commit.
ProcessDies(c) ==
    /\ Running(c)
    /\ Answer(c, "failed", NoClient)
    /\ RollBack(c)
    /\ UNCHANGED <<clock, stored, mutations>>

TxStep(c) ==
    \/ FindStored(c) \/ DeleteExpired(c)
    \/ CreateStored(c) \/ CreateTaken(c) \/ ReadWinner(c)
    \/ Operate(c) \/ CommitStored(c) \/ SerializationAbort(c)
    \/ ProcessDies(c)

TxNext ==
    \/ Tick \/ PurgeStored
    \/ \E c \in Clients : TxStep(c) \/ \E body \in Bodies : Submit(c, body)

TxSpec == TxInit /\ [][TxNext]_txVars

-----------------------------------------------------------------------------
\* The row, the transactions and the history keep their types.
TxTypeOK ==
    /\ clock \in 0..MaxClock
    /\ stored \in Stored
    /\ writer \in Clients \cup {NoClient}
    /\ execution \in [Clients -> Execution]
    /\ mutations \subseteq [row: Stored, now: 0..MaxClock]

\* The mutation is performed once per life of the key, however many requests
\* race for it and are aborted and retried: two mutations are a row's life
\* apart.
OneMutationPerLife ==
    \A m, n \in mutations :
        m # n => \/ m.row.expiresAt <= n.now
                 \/ n.row.expiresAt <= m.now

Own(c) == {m \in mutations : m.row.by = c}

\* "A crash commits both or neither", and "a bounded retry cannot duplicate its
\* database mutation": a client that was refused or failed has changed nothing,
\* one that was told of success has changed the database once, and a replayed
\* answer is that of a committed mutation of the same request.
AnswersTellTheTruth ==
    \A c \in Clients :
        /\ execution[c].outcome \in {"refused", "failed", "replayed"} => Own(c) = {}
        /\ execution[c].outcome \in {"created", "unknown"} =>
               \E m \in mutations : Own(c) = {m}
        /\ execution[c].outcome = "replayed" =>
               \E m \in mutations : /\ m.row.by = execution[c].response
                                     /\ m.row.body = execution[c].body

=============================================================================
