--------------------------- MODULE OutboxDelivery ---------------------------
(***************************************************************************)
(* The transactional outbox: rows of outbox_events, the relay replicas     *)
(* that claim them and add BullMQ jobs, the notification workers that       *)
(* process the jobs, and the notification_deliveries row that remembers a   *)
(* provider's success.                                                      *)
(*                                                                          *)
(* Every await of the code that reaches the database, Redis or a provider   *)
(* is a step of its own, so relays, workers, redrives, account erasure and  *)
(* retention interleave between them.  Times are abstracted to the          *)
(* comparison the code makes with them: lapsed is claimExpiresAt <= now,     *)
(* available is availableAt <= now, expired is expiresAt <= now.            *)
(***************************************************************************)
EXTENDS Integers, FiniteSets

CONSTANTS
    Events,                \* ids of outbox_events rows
    Relays,                \* processes that run startOutboxRelay
    Workers,               \* concurrency slots of the BullMQ workers
    Tokens,                \* claim tokens (randomUUID)
    NoToken, NoEvent, NoWorker,
    Expirable,             \* the events inserted with an expiresAt
    MaxGeneration,         \* bound: how often an event is redriven
    MaxAttempts,           \* OUTBOX_MAX_DELIVERY_ATTEMPTS
    MaxStalledCount,       \* BullMQ: stalls before a job is failed
    EmailEventsConfigured, \* EMAIL_EVENT_WEBHOOK_SECRET is set
    FaultBudget            \* bound: how many faults of each kind happen

\* relay: a relay dies, or its call of Redis or of the database fails; database:
\* a statement of a worker fails.
FaultKinds == {"relay", "workerCrash", "stall", "database"}

ASSUME NullsAssumption ==
    NoToken \notin Tokens /\ NoEvent \notin Events /\ NoWorker \notin Workers
ASSUME BoundsAssumption ==
    /\ MaxGeneration \in Nat
    /\ MaxAttempts \in Nat \ {0}
    /\ MaxStalledCount \in Nat
    /\ FaultBudget \in [FaultKinds -> Nat]
ASSUME ConfigAssumption ==
    Expirable \subseteq Events /\ EmailEventsConfigured \in BOOLEAN

VARIABLES
    row,          \* outbox_events
    delivery,     \* notification_deliveries, one row per event
    job,          \* BullMQ jobs by outboxJobId: event and generation
    reconciling,  \* exhausted jobs whose 'failed' handler has not finished
    task,         \* per replica and event: where enqueueClaimedEvent is
    worker,       \* per slot: where processNotification is
    faults,       \* what is left of FaultBudget
    handled,      \* history: events some provider accepted or suppressed
    recorded      \* history: events whose success reached the delivery row

vars == <<row, delivery, job, reconciling, task, worker, faults,
          handled, recorded>>

-----------------------------------------------------------------------------
Generations == 0..MaxGeneration

\* outboxJobId: one job per event and generation.
JobIds == Events \X Generations

\* A relay works on its whole batch at once, one task per event.
TaskIds == Relays \X Events

\* FAILED is in the enum and in two guards, but no code writes it any more.
OutboxStatus == {"PENDING", "CLAIMED", "ENQUEUED", "PROCESSING",
                 "DELIVERED", "DEAD_LETTER", "FAILED"}
Terminal == {"DELIVERED", "DEAD_LETTER"}

\* "NONE": not inserted yet.  "PURGED": deleted by retention.
OutboxEvent == [status: OutboxStatus \cup {"NONE", "PURGED"},
                gen: Generations,
                token: Tokens \cup {NoToken},
                lapsed: BOOLEAN,
                available: BOOLEAN,
                expired: BOOLEAN]

\* RECORDED stands for SENT, SUPPRESSED, DELIVERED, BOUNCED and COMPLAINED,
\* which recordDeliveryStarted treats alike.
DeliveryStatus == {"NONE", "PROCESSING", "RECORDED", "FAILED"}

\* "REMOVED": finished, and BullMQ has forgotten its id.
JobStates == {"ABSENT", "WAITING", "ACTIVE", "COMPLETED", "FAILED",
              "REMOVED"}
Job == [state: JobStates,
        attemptsMade: Nat,
        stalls: Nat,
        holder: Workers \cup {NoWorker}]
NoJob == [state |-> "ABSENT", attemptsMade |-> 0, stalls |-> 0,
          holder |-> NoWorker]

RelayTask == [step: {"idle", "add", "mark", "release"},
              gen: Generations,
              token: Tokens \cup {NoToken}]
NoTask == [step |-> "idle", gen |-> 0, token |-> NoToken]

\* Steps after the compare-and-set of StartProcessing has succeeded.
OwningSteps == {"lookup", "upsert", "finishRecorded", "send", "record",
                "finalize", "recordError", "recordFailure"}
WorkerSteps == OwningSteps \cup
               {"idle", "read", "expire", "start", "return", "throw"}
WorkerState == [step: WorkerSteps,
                event: Events \cup {NoEvent},
                gen: Generations,
                attemptsMade: Nat]
IdleWorker == [step |-> "idle", event |-> NoEvent, gen |-> 0,
               attemptsMade |-> 0]

Exists(e) == row[e].status \notin {"NONE", "PURGED"}

At(w, step) == worker[w].step = step
Goto(w, step) == worker' = [worker EXCEPT ![w].step = step]

Spend(kind) ==
    /\ faults[kind] > 0
    /\ faults' = [faults EXCEPT ![kind] = @ - 1]

-----------------------------------------------------------------------------
NewRow == [status |-> "NONE", gen |-> 0, token |-> NoToken,
           lapsed |-> FALSE, available |-> FALSE, expired |-> FALSE]

Init ==
    /\ row = [e \in Events |-> NewRow]
    /\ delivery = [e \in Events |-> "NONE"]
    /\ job = [id \in JobIds |-> NoJob]
    /\ reconciling = {}
    /\ task = [k \in TaskIds |-> NoTask]
    /\ worker = [w \in Workers |-> IdleWorker]
    /\ faults = FaultBudget
    /\ handled = {}
    /\ recorded = {}

-----------------------------------------------------------------------------
(* The business side, operators and time.                                   *)

\* The business transaction commits the row; availableAt may be in the future.
AddOutboxEvent(e, available) ==
    /\ row[e].status = "NONE"
    /\ row' = [row EXCEPT ![e].status = "PENDING",
                          ![e].available = available]
    /\ UNCHANGED <<delivery, job, reconciling, task, worker, faults,
                   handled, recorded>>

BecomeAvailable(e) ==
    /\ Exists(e) /\ ~row[e].available
    /\ row' = [row EXCEPT ![e].available = TRUE]
    /\ UNCHANGED <<delivery, job, reconciling, task, worker, faults,
                   handled, recorded>>

PassExpiry(e) ==
    /\ e \in Expirable
    /\ Exists(e) /\ ~row[e].expired
    /\ row' = [row EXCEPT ![e].expired = TRUE]
    /\ UNCHANGED <<delivery, job, reconciling, task, worker, faults,
                   handled, recorded>>

LapseLease(e) ==
    /\ row[e].status = "CLAIMED" /\ ~row[e].lapsed
    /\ row' = [row EXCEPT ![e].lapsed = TRUE]
    /\ UNCHANGED <<delivery, job, reconciling, task, worker, faults,
                   handled, recorded>>

RedriveDeadLetterEvent(e) ==
    /\ row[e].status = "DEAD_LETTER"
    /\ ~row[e].expired
    /\ row[e].gen < MaxGeneration
    /\ row' = [row EXCEPT ![e].status = "PENDING",
                          ![e].gen = @ + 1,
                          ![e].available = TRUE,
                          ![e].token = NoToken,
                          ![e].lapsed = FALSE]
    /\ UNCHANGED <<delivery, job, reconciling, task, worker, faults,
                   handled, recorded>>

\* deleteAccount: every event of the user expires now, live ones are dead
\* lettered whoever holds them.
EraseAccount(e) ==
    /\ Exists(e)
    /\ row' = IF row[e].status \in Terminal
              THEN [row EXCEPT ![e].expired = TRUE]
              ELSE [row EXCEPT ![e] =
                      [@ EXCEPT !.expired = TRUE, !.status = "DEAD_LETTER",
                                !.token = NoToken, !.lapsed = FALSE]]
    /\ UNCHANGED <<delivery, job, reconciling, task, worker, faults,
                   handled, recorded>>

\* Retention deletes terminal rows; the delivery row goes with them.
PurgeTerminal(e) ==
    /\ row[e].status \in Terminal
    /\ row' = [row EXCEPT ![e].status = "PURGED"]
    /\ delivery' = [delivery EXCEPT ![e] = "NONE"]
    /\ UNCHANGED <<job, reconciling, task, worker, faults, handled, recorded>>

\* An email event for the destination marks every delivery row that has the
\* same message id or the same destination hash.
ProcessEmailProviderEvent(e) ==
    /\ EmailEventsConfigured
    /\ delivery[e] # "NONE"
    /\ delivery' = [delivery EXCEPT ![e] = "RECORDED"]
    /\ UNCHANGED <<row, job, reconciling, task, worker, faults, handled,
                   recorded>>

-----------------------------------------------------------------------------
(* The relay.                                                               *)

\* Mutant: a claim whose lease lapsed is never taken again.
ClaimablePending(e) ==
    row[e].available /\ ~row[e].expired /\ row[e].status = "PENDING"

Claimable(e) ==
    /\ row[e].available /\ ~row[e].expired
    /\ \/ row[e].status = "PENDING"
       \/ row[e].status = "CLAIMED" /\ row[e].lapsed

\* The relaying flag of the process.
Relaying(r) == \E e \in Events : task[<<r, e>>].step # "idle"

\* randomUUID: no row and no running task has the token.
Fresh(token) ==
    /\ \A e \in Events : row[e].token # token
    /\ \A r \in Relays, e \in Events : task[<<r, e>>].token # token

\* SKIP LOCKED may leave out rows another transaction holds, so the batch is
\* any non-empty set of claimable rows.
ClaimOutboxBatch(r, batch, token) ==
    /\ ~Relaying(r)
    /\ batch # {}
    /\ \A e \in batch : Claimable(e)
    /\ Fresh(token)
    /\ row' = [e \in Events |->
                 IF e \in batch
                 THEN [row[e] EXCEPT !.status = "CLAIMED", !.token = token,
                                     !.lapsed = FALSE]
                 ELSE row[e]]
    /\ task' = [k \in TaskIds |->
                  IF k[1] = r /\ k[2] \in batch
                  THEN [step |-> "add", gen |-> row[k[2]].gen, token |-> token]
                  ELSE task[k]]
    /\ UNCHANGED <<delivery, job, reconciling, worker, faults, handled,
                   recorded>>

\* queue.add: a job id BullMQ still knows, finished or not, is not added again.
Added(e, g) ==
    IF job[<<e, g>>].state \in {"ABSENT", "REMOVED"}
    THEN [job EXCEPT ![<<e, g>>] = [NoJob EXCEPT !.state = "WAITING"]]
    ELSE job

AddJob(r, e) ==
    /\ task[<<r, e>>].step = "add"
    /\ job' = Added(e, task[<<r, e>>].gen)
    /\ task' = [task EXCEPT ![<<r, e>>].step = "mark"]
    /\ UNCHANGED <<row, delivery, reconciling, worker, faults, handled,
                   recorded>>

\* Redis fails, before or after it has taken the job.
AddJobFails(r, e) ==
    /\ task[<<r, e>>].step = "add"
    /\ Spend("relay")
    /\ job' \in {job, Added(e, task[<<r, e>>].gen)}
    /\ task' = [task EXCEPT ![<<r, e>>].step = "release"]
    /\ UNCHANGED <<row, delivery, reconciling, worker, handled, recorded>>

\* Mutant: the claim token is not compared.
HoldsAnyClaim(r, e) == row[e].status = "CLAIMED"

HoldsClaim(r, e) ==
    row[e].status = "CLAIMED" /\ row[e].token = task[<<r, e>>].token

MarkEnqueued(r, e) ==
    /\ task[<<r, e>>].step = "mark"
    /\ row' = IF HoldsClaim(r, e)
              THEN [row EXCEPT ![e].status = "ENQUEUED",
                               ![e].token = NoToken,
                               ![e].lapsed = FALSE]
              ELSE row
    /\ task' = [task EXCEPT ![<<r, e>>] = NoTask]
    /\ UNCHANGED <<delivery, job, reconciling, worker, faults, handled,
                   recorded>>

MarkEnqueuedFails(r, e) ==
    /\ task[<<r, e>>].step = "mark"
    /\ Spend("relay")
    /\ task' = [task EXCEPT ![<<r, e>>].step = "release"]
    /\ UNCHANGED <<row, delivery, job, reconciling, worker, handled, recorded>>

ReleaseClaimAfterEnqueueFailure(r, e) ==
    /\ task[<<r, e>>].step = "release"
    /\ row' = IF HoldsClaim(r, e)
              THEN [row EXCEPT ![e] =
                      [@ EXCEPT !.status = "PENDING", !.available = FALSE,
                                !.token = NoToken, !.lapsed = FALSE]]
              ELSE row
    /\ task' = [task EXCEPT ![<<r, e>>] = NoTask]
    /\ UNCHANGED <<delivery, job, reconciling, worker, faults, handled,
                   recorded>>

ReleaseClaimFails(r, e) ==
    /\ task[<<r, e>>].step = "release"
    /\ Spend("relay")
    /\ task' = [task EXCEPT ![<<r, e>>] = NoTask]
    /\ UNCHANGED <<row, delivery, job, reconciling, worker, handled, recorded>>

RelayCrash(r) ==
    /\ Relaying(r)
    /\ Spend("relay")
    /\ task' = [k \in TaskIds |-> IF k[1] = r THEN NoTask ELSE task[k]]
    /\ UNCHANGED <<row, delivery, job, reconciling, worker, handled, recorded>>

-----------------------------------------------------------------------------
(* BullMQ.                                                                  *)

TakeJob(w, e, g) ==
    /\ At(w, "idle")
    /\ job[<<e, g>>].state = "WAITING"
    /\ job' = [job EXCEPT ![<<e, g>>].state = "ACTIVE", ![<<e, g>>].holder = w]
    /\ worker' = [worker EXCEPT ![w] =
                    [step |-> "read", event |-> e, gen |-> g,
                     attemptsMade |-> job[<<e, g>>].attemptsMade]]
    /\ UNCHANGED <<row, delivery, reconciling, task, faults, handled,
                   recorded>>

\* The processor returned: the job completes unless its lock was lost.
CompleteJob(w) ==
    LET e == worker[w].event
        g == worker[w].gen
    IN  /\ At(w, "return")
        /\ job' = IF job[<<e, g>>].holder = w
                  THEN [job EXCEPT ![<<e, g>>].state = "COMPLETED",
                                   ![<<e, g>>].holder = NoWorker]
                  ELSE job
        /\ worker' = [worker EXCEPT ![w] = IdleWorker]
        /\ UNCHANGED <<row, delivery, reconciling, task, faults, handled,
                       recorded>>

\* The processor threw: back to the queue (after the backoff), or failed for
\* good, which calls the 'failed' handler.
FailJob(w) ==
    LET e == worker[w].event
        g == worker[w].gen
        made == worker[w].attemptsMade + 1
    IN  /\ At(w, "throw")
        /\ IF job[<<e, g>>].holder # w
           THEN UNCHANGED <<job, reconciling>>
           ELSE /\ job' = [job EXCEPT ![<<e, g>>] =
                             [@ EXCEPT !.state = IF made >= MaxAttempts
                                                 THEN "FAILED" ELSE "WAITING",
                                       !.attemptsMade = made,
                                       !.holder = NoWorker]]
                /\ reconciling' = IF made >= MaxAttempts
                                  THEN reconciling \cup {<<e, g>>}
                                  ELSE reconciling
        /\ worker' = [worker EXCEPT ![w] = IdleWorker]
        /\ UNCHANGED <<row, delivery, task, faults, handled, recorded>>

\* The stalled-job check: the job goes back to the queue, or fails with
\* "job stalled more than allowable limit".
Stalled(e, g) ==
    IF job[<<e, g>>].stalls < MaxStalledCount
    THEN /\ job' = [job EXCEPT ![<<e, g>>].state = "WAITING",
                               ![<<e, g>>].stalls = @ + 1,
                               ![<<e, g>>].holder = NoWorker]
         /\ UNCHANGED reconciling
    ELSE /\ job' = [job EXCEPT ![<<e, g>>].state = "FAILED",
                               ![<<e, g>>].holder = NoWorker]
         /\ reconciling' = reconciling \cup {<<e, g>>}

\* Nobody renews the lock of a crashed worker's job.
StallOrphanedJob(e, g) ==
    /\ job[<<e, g>>].state = "ACTIVE" /\ job[<<e, g>>].holder = NoWorker
    /\ Stalled(e, g)
    /\ UNCHANGED <<row, delivery, task, worker, faults, handled, recorded>>

\* A worker that lives on loses its lock (a blocked event loop, a partition).
StallRunningJob(e, g) ==
    /\ job[<<e, g>>].state = "ACTIVE" /\ job[<<e, g>>].holder # NoWorker
    /\ Spend("stall")
    /\ Stalled(e, g)
    /\ UNCHANGED <<row, delivery, task, worker, handled, recorded>>

\* removeOnComplete and removeOnFail keep a finished job for a day or a week,
\* or for thousands of later jobs: its 'failed' handler has long finished.
RemoveFinishedJob(e, g) ==
    /\ job[<<e, g>>].state \in {"COMPLETED", "FAILED"}
    /\ <<e, g>> \notin reconciling
    /\ job' = [job EXCEPT ![<<e, g>>] = [NoJob EXCEPT !.state = "REMOVED"]]
    /\ UNCHANGED <<row, delivery, reconciling, task, worker, faults, handled,
                   recorded>>

WorkerCrash(w) ==
    LET e == worker[w].event
        g == worker[w].gen
    IN  /\ ~At(w, "idle")
        /\ Spend("workerCrash")
        /\ worker' = [worker EXCEPT ![w] = IdleWorker]
        /\ job' = IF job[<<e, g>>].holder = w
                  THEN [job EXCEPT ![<<e, g>>].holder = NoWorker]
                  ELSE job
        /\ UNCHANGED <<row, delivery, reconciling, task, handled, recorded>>

-----------------------------------------------------------------------------
(* processNotification.                                                     *)

\* The guard that the worker and the reconciler share.
Skip(e, g) == ~Exists(e) \/ row[e].status \in Terminal \/ row[e].gen # g

ReadEvent(w) ==
    LET e == worker[w].event
    IN  /\ At(w, "read")
        /\ \/ Skip(e, worker[w].gen) /\ Goto(w, "return")
           \/ ~Skip(e, worker[w].gen) /\ row[e].expired /\ Goto(w, "expire")
           \/ ~Skip(e, worker[w].gen) /\ ~row[e].expired /\ Goto(w, "start")
        /\ UNCHANGED <<row, delivery, job, reconciling, task, faults,
                       handled, recorded>>

ExpireEvent(w) ==
    LET e == worker[w].event
    IN  /\ At(w, "expire")
        /\ row' = IF /\ Exists(e)
                     /\ row[e].gen = worker[w].gen
                     /\ row[e].status # "DELIVERED"
                  THEN [row EXCEPT ![e].status = "DEAD_LETTER"]
                  ELSE row
        /\ Goto(w, "return")
        /\ UNCHANGED <<delivery, job, reconciling, task, faults, handled,
                       recorded>>

\* Mutant: a crashed attempt may be taken over.
StartableTakeover == {"ENQUEUED", "FAILED", "PROCESSING"}

\* The statuses from which an attempt may start.
Startable == {"ENQUEUED", "FAILED"}

\* The compare-and-set that makes the worker the owner of the generation; a
\* worker that loses it returns, and its job counts as completed.
StartProcessing(w) ==
    LET e == worker[w].event
        mine == row[e].gen = worker[w].gen /\ row[e].status \in Startable
    IN  /\ At(w, "start")
        /\ IF mine
           THEN /\ row' = [row EXCEPT ![e].status = "PROCESSING",
                                      ![e].token = NoToken,
                                      ![e].lapsed = FALSE]
                /\ Goto(w, "lookup")
           ELSE Goto(w, "return") /\ UNCHANGED row
        /\ UNCHANGED <<delivery, job, reconciling, task, faults, handled,
                       recorded>>

\* Mutant: any delivery row counts as a recorded success.
LookupAnyRow(w) ==
    /\ At(w, "lookup")
    /\ Goto(w, IF delivery[worker[w].event] # "NONE"
               THEN "finishRecorded" ELSE "upsert")
    /\ UNCHANGED <<row, delivery, job, reconciling, task, faults, handled,
                   recorded>>

\* Mutant: the delivery row is not consulted.
LookupNothing(w) ==
    /\ At(w, "lookup")
    /\ Goto(w, "upsert")
    /\ UNCHANGED <<row, delivery, job, reconciling, task, faults, handled,
                   recorded>>

\* recordDeliveryStarted reads the delivery row ...
LookupDelivery(w) ==
    /\ At(w, "lookup")
    /\ Goto(w, IF delivery[worker[w].event] = "RECORDED"
               THEN "finishRecorded" ELSE "upsert")
    /\ UNCHANGED <<row, delivery, job, reconciling, task, faults, handled,
                   recorded>>

\* ... and writes it in a second statement; the insert violates the foreign
\* key when the outbox row is gone.
UpsertDelivery(w) ==
    LET e == worker[w].event
    IN  /\ At(w, "upsert")
        /\ IF Exists(e)
           THEN /\ delivery' = [delivery EXCEPT ![e] = "PROCESSING"]
                /\ Goto(w, "send")
           ELSE Goto(w, "throw") /\ UNCHANGED delivery
        /\ UNCHANGED <<row, job, reconciling, task, faults, handled, recorded>>

\* Mutant: only the generation is compared.
CanFinalizeAnyStatus(w) == row[worker[w].event].gen = worker[w].gen

\* The compare-and-set from PROCESSING to DELIVERED.
CanFinalize(w) ==
    LET e == worker[w].event
    IN  row[e].gen = worker[w].gen /\ row[e].status = "PROCESSING"

Finalized(w) ==
    IF CanFinalize(w)
    THEN [row EXCEPT ![worker[w].event].status = "DELIVERED"]
    ELSE row

FinishRecorded(w) ==
    /\ At(w, "finishRecorded")
    /\ row' = Finalized(w)
    /\ Goto(w, "return")
    /\ UNCHANGED <<delivery, job, reconciling, task, faults, handled,
                   recorded>>

\* The provider accepts the message, or suppresses it.
SendAccepted(w) ==
    /\ At(w, "send")
    /\ handled' = handled \cup {worker[w].event}
    /\ Goto(w, "record")
    /\ UNCHANGED <<row, delivery, job, reconciling, task, faults, recorded>>

\* The rate limiter denies, the provider refuses, or its answer is lost after
\* it has accepted.
SendFails(w) ==
    /\ At(w, "send")
    /\ handled' \in {handled, handled \cup {worker[w].event}}
    /\ Goto(w, "recordError")
    /\ UNCHANGED <<row, delivery, job, reconciling, task, faults, recorded>>

\* prisma.update throws when the delivery row is gone.
RecordDeliveryResult(w) ==
    LET e == worker[w].event
    IN  /\ At(w, "record")
        /\ IF delivery[e] # "NONE"
           THEN /\ delivery' = [delivery EXCEPT ![e] = "RECORDED"]
                /\ recorded' = recorded \cup {e}
                /\ Goto(w, "finalize")
           ELSE Goto(w, "recordError") /\ UNCHANGED <<delivery, recorded>>
        /\ UNCHANGED <<row, job, reconciling, task, faults, handled>>

\* A count other than one throws inside the try block.
FinalizeDelivery(w) ==
    /\ At(w, "finalize")
    /\ row' = Finalized(w)
    /\ Goto(w, IF CanFinalize(w) THEN "return" ELSE "recordError")
    /\ UNCHANGED <<delivery, job, reconciling, task, faults, handled,
                   recorded>>

\* The catch block: the delivery row is marked FAILED whatever it says ...
RecordDeliveryError(w) ==
    LET e == worker[w].event
    IN  /\ At(w, "recordError")
        /\ delivery' = IF delivery[e] = "NONE" THEN delivery
                       ELSE [delivery EXCEPT ![e] = "FAILED"]
        /\ Goto(w, "recordFailure")
        /\ UNCHANGED <<row, job, reconciling, task, faults, handled, recorded>>

DeliveryFailureDisposition(attemptsMade) ==
    IF attemptsMade + 1 >= MaxAttempts THEN "DEAD_LETTER" ELSE "ENQUEUED"

\* Mutant: only the last failure is written.
FailedForGood(e, g, status) ==
    IF Skip(e, g) \/ status # "DEAD_LETTER"
    THEN row ELSE [row EXCEPT ![e].status = status]

\* The compare-and-set of recordDeliveryFailure.
Failed(e, g, status) ==
    IF Skip(e, g) THEN row ELSE [row EXCEPT ![e].status = status]

\* ... and the outbox row goes back to ENQUEUED or to DEAD_LETTER.
RecordDeliveryFailure(w) ==
    /\ At(w, "recordFailure")
    /\ row' = Failed(worker[w].event, worker[w].gen,
                     DeliveryFailureDisposition(worker[w].attemptsMade))
    /\ Goto(w, "throw")
    /\ UNCHANGED <<delivery, job, reconciling, task, faults, handled,
                   recorded>>

\* A statement fails: inside the try block the catch block runs, elsewhere the
\* processor throws.
DatabaseError(w) ==
    /\ Spend("database")
    /\ \/ /\ worker[w].step \in {"read", "expire", "start", "lookup", "upsert",
                                 "finishRecorded", "recordError",
                                 "recordFailure"}
          /\ Goto(w, "throw")
       \/ /\ worker[w].step \in {"record", "finalize"}
          /\ Goto(w, "recordError")
    /\ UNCHANGED <<row, delivery, job, reconciling, task, handled, recorded>>

\* The 'failed' handler of an exhausted job; its read and its compare-and-set
\* test the same condition.
ReconcileExhaustedJob(e, g) ==
    /\ <<e, g>> \in reconciling
    /\ row' = Failed(e, g, "DEAD_LETTER")
    /\ reconciling' = reconciling \ {<<e, g>>}
    /\ UNCHANGED <<delivery, job, task, worker, faults, handled, recorded>>

\* The handler only logs its own failure.
ReconcileFails(e, g) ==
    /\ <<e, g>> \in reconciling
    /\ Spend("database")
    /\ reconciling' = reconciling \ {<<e, g>>}
    /\ UNCHANGED <<row, delivery, job, task, worker, handled, recorded>>

-----------------------------------------------------------------------------
BusinessStep(e) ==
    \/ \E available \in BOOLEAN : AddOutboxEvent(e, available)
    \/ PassExpiry(e)
    \/ RedriveDeadLetterEvent(e)
    \/ EraseAccount(e)
    \/ PurgeTerminal(e)
    \/ ProcessEmailProviderEvent(e)

ClockStep(e) == BecomeAvailable(e) \/ LapseLease(e)

ClaimStep(r) ==
    \E batch \in SUBSET Events, token \in Tokens :
        ClaimOutboxBatch(r, batch, token)

TaskStep(r, e) ==
    \/ AddJob(r, e)
    \/ MarkEnqueued(r, e)
    \/ ReleaseClaimAfterEnqueueFailure(r, e)

TaskFault(r, e) ==
    \/ AddJobFails(r, e)
    \/ MarkEnqueuedFails(r, e)
    \/ ReleaseClaimFails(r, e)

TakeStep(w) == \E e \in Events, g \in Generations : TakeJob(w, e, g)

ProcessStep(w) ==
    \/ ReadEvent(w)
    \/ ExpireEvent(w)
    \/ StartProcessing(w)
    \/ LookupDelivery(w)
    \/ UpsertDelivery(w)
    \/ FinishRecorded(w)
    \/ SendAccepted(w)
    \/ SendFails(w)
    \/ RecordDeliveryResult(w)
    \/ FinalizeDelivery(w)
    \/ RecordDeliveryError(w)
    \/ RecordDeliveryFailure(w)
    \/ CompleteJob(w)
    \/ FailJob(w)

QueueStep(e, g) ==
    \/ StallOrphanedJob(e, g)
    \/ ReconcileExhaustedJob(e, g)

Next ==
    \/ \E e \in Events : BusinessStep(e) \/ ClockStep(e)
    \/ \E r \in Relays : ClaimStep(r) \/ RelayCrash(r)
    \/ \E r \in Relays, e \in Events : TaskStep(r, e) \/ TaskFault(r, e)
    \/ \E w \in Workers :
          TakeStep(w) \/ ProcessStep(w) \/ WorkerCrash(w) \/ DatabaseError(w)
    \/ \E e \in Events, g \in Generations :
          \/ QueueStep(e, g)
          \/ StallRunningJob(e, g)
          \/ RemoveFinishedJob(e, g)
          \/ ReconcileFails(e, g)

Spec == Init /\ [][Next]_vars

\* The relays poll every two seconds, BullMQ hands out waiting jobs and checks
\* for stalled ones, clocks advance, and a started await settles.  Users,
\* operators, retention and faults are never obliged to act.
Fairness ==
    /\ \A e \in Events : WF_vars(ClockStep(e))
    /\ \A r \in Relays : WF_vars(ClaimStep(r))
    /\ \A r \in Relays, e \in Events : WF_vars(TaskStep(r, e))
    /\ \A w \in Workers : WF_vars(TakeStep(w)) /\ WF_vars(ProcessStep(w))
    /\ \A e \in Events, g \in Generations : WF_vars(QueueStep(e, g))

FairSpec == Spec /\ Fairness

-----------------------------------------------------------------------------
WorkersOK ==
    /\ worker \in [Workers -> WorkerState]
    /\ \A w \in Workers : ~At(w, "idle") => worker[w].event \in Events

\* Every variable keeps the type the schema and BullMQ give it.
TypeOK ==
    /\ row \in [Events -> OutboxEvent]
    /\ delivery \in [Events -> DeliveryStatus]
    /\ job \in [JobIds -> Job]
    /\ reconciling \subseteq JobIds
    /\ task \in [TaskIds -> RelayTask]
    /\ WorkersOK
    /\ faults \in [FaultKinds -> Nat]
    /\ handled \subseteq Events
    /\ recorded \subseteq Events

\* A worker owns a generation of an event from the compare-and-set in
\* processNotification until its last write for that attempt.
Owns(w, e, g) ==
    worker[w].step \in OwningSteps /\ worker[w].event = e /\ worker[w].gen = g

\* However often a job is handed out again (stalls, crashes, retries, a
\* re-added job id), at most one worker processes a generation at a time.
SingleOwner ==
    \A w1, w2 \in Workers, e \in Events, g \in Generations :
        Owns(w1, e, g) /\ Owns(w2, e, g) => w1 = w2

\* The strengthening that makes SingleOwner inductive: no task, job or worker
\* is ahead of its row ...
NeverAhead ==
    /\ \A r \in Relays, e \in Events :
           task[<<r, e>>].step # "idle" => task[<<r, e>>].gen <= row[e].gen
    /\ \A e \in Events, g \in Generations :
           job[<<e, g>>].state # "ABSENT" => g <= row[e].gen
    /\ \A w \in Workers :
           ~At(w, "idle") => worker[w].gen <= row[worker[w].event].gen

\* ... and while a generation has an owner and is current, its row can only be
\* PROCESSING, or have been dead lettered (and purged) under the owner.
OwnedRowIsHeld ==
    \A w \in Workers, e \in Events :
        Owns(w, e, row[e].gen) =>
            row[e].status \in {"PROCESSING", "DEAD_LETTER", "PURGED"}

OwnershipInv == NeverAhead /\ OwnedRowIsHeld /\ SingleOwner

\* The queue job of the row's current generation has been added.
Queued(e) == job[<<e, row[e].gen>>].state # "ABSENT"

\* A row leaves the relay only with a job of its own generation behind it: a
\* relay that held an earlier claim (its lease lapsed, the event was dead
\* lettered and redriven meanwhile) cannot mark the row for a job that was
\* never added.
EnqueuedHasJob ==
    \A e \in Events :
        row[e].status \in {"ENQUEUED", "PROCESSING"} => Queued(e)

\* What makes it inductive: the holder of the current claim is on the current
\* generation, it has added the job before it marks the row, and every running
\* worker was given a job.
ClaimInv ==
    /\ \A r \in Relays, e \in Events :
          task[<<r, e>>].step # "idle" =>
             /\ task[<<r, e>>].token \in Tokens
             /\ task[<<r, e>>].token = row[e].token =>
                   task[<<r, e>>].gen = row[e].gen
             /\ task[<<r, e>>].step = "mark" =>
                   job[<<e, task[<<r, e>>].gen>>].state # "ABSENT"
    /\ \A w \in Workers :
          ~At(w, "idle") =>
             job[<<worker[w].event, worker[w].gen>>].state # "ABSENT"

\* An event counts as delivered only when a provider has accepted or
\* suppressed it: the shortcut for an already recorded delivery, retries and
\* redrives never finish an event nobody sent.
DeliveredMeansHandled ==
    \A e \in Events : row[e].status = "DELIVERED" => e \in handled

\* "A durable notification_deliveries row prevents a retry from sending again
\* after provider success was recorded": through crashes and stalls no worker is
\* about to send an event whose success has been recorded.  (Two behaviours of
\* the code are outside this claim, see the README: a statement that fails after
\* the success was recorded overwrites it, and once an event is redriven while a
\* stalled worker of the old generation still runs, both may send it.)
NoResendAfterRecord ==
    \A w \in Workers :
        /\ At(w, "send")
        /\ faults["database"] = FaultBudget["database"]
        /\ row[worker[w].event].gen = 0 \/ faults["stall"] = FaultBudget["stall"]
        => worker[w].event \notin recorded

\* No committed event is lost before the queue: through Redis failures,
\* database failures and relay crashes, a pending event gets its job unless it
\* expires or is erased first.
EventuallyQueued ==
    \A e \in Events :
        row[e].status = "PENDING" ~>
            Queued(e) \/ row[e].expired \/ row[e].status \in Terminal

Settled(e) == row[e].status \in Terminal \cup {"PURGED"}

\* A row that is ENQUEUED while its job waits is settled in the end: attempts
\* are bounded and the last failure dead letters it.
BackedDeliverySettles ==
    \A e \in Events :
        (row[e].status = "ENQUEUED" /\ job[<<e, row[e].gen>>].state = "WAITING")
            ~> Settled(e)

-----------------------------------------------------------------------------
\* The lifecycle an event shows to the rest of the system.
Phase(status) ==
    CASE status = "NONE" -> "absent"
      [] status \in {"PENDING", "CLAIMED", "ENQUEUED", "FAILED"} -> "waiting"
      [] status = "PROCESSING" -> "processing"
      [] status = "DELIVERED" -> "delivered"
      [] status = "DEAD_LETTER" -> "dead"
      [] status = "PURGED" -> "gone"

Lifecycle == INSTANCE OutboxLifecycle
                 WITH phase <- [e \in Events |-> Phase(row[e].status)],
                      generation <- [e \in Events |-> row[e].gen]

\* Relays, workers, redrives, erasure and retention together implement the
\* lifecycle: a delivered or dead event never moves again within its
\* generation, whatever stale process still writes to it.
ImplementsLifecycle == Lifecycle!Spec

=============================================================================
