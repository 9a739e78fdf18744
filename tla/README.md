# TLA+ models of production-backend-foundation

This directory specifies the parts of the backend whose correctness depends on
the order of steps of several processes: relays, workers, HTTP requests,
sockets, webhooks, scheduled jobs, crashes and retries. TLC checks each model on
small instances, and TLAPS proves the safety properties of all of them for every
size. Everything is translated from the TypeScript source; line numbers
are in `PROJECT.json` under `map`, and the hazards the properties are aimed at
under `hazards`.

## The system and its parts

The backend is a Node.js API over PostgreSQL (Prisma) and Redis, with worker
processes that run the outbox relay, the BullMQ workers and the scheduler. All
processes can be replicated. The database is the only shared state that
survives a crash; Redis holds queues, rate limits, permission epochs and locks.

| Part | State | Operations | How it meets the others | What is hard |
|---|---|---|---|---|
| Outbox and relay (`modules/outbox`) | `outbox_events`: status, generation, claim token and lease | add, claim, enqueue, release, redrive | business transactions insert; relay replicas claim and add BullMQ jobs | leases that lapse under a running relay, crash between queue and row, redrive against stale processes |
| Notification worker (`queues`) | `notification_deliveries`, BullMQ jobs | read, start, send, record, finalize, fail, reconcile | takes jobs, calls providers, or runs Stripe, upload and erasure handlers | stalled jobs run twice, crash after the provider accepted, retry after a recorded success |
| Email provider events (`notifications/email-events`) | delivery status, suppressions | process an event | changes delivery rows while workers run | rows addressed by destination |
| Idempotency (`lib/idempotency`) | `idempotency_records`: request, response, lock | `runIdempotent`, `runIdempotentTransaction` | wraps Stripe calls of the API | lease against slow operations, late failures, expiry and retention |
| Sessions (`auth.sessions`, passwords, reset, users) | `sessions`, `refresh_tokens` | create, rotate, revoke | revocation from logout, password change and reset, email change, suspension, deletion | rotation against rotation and against revocation, aborts of SERIALIZABLE transactions |
| Charges (`stripe.chargeable`, `stripe.charges`) | `chargeable_items` | reserve, create intent, record intent | forwards the business key to Stripe | two keys for one item, crash around the Stripe call |
| Stripe webhooks (`stripe.webhooks`) | `stripe_webhook_events`, `stripe_payments` | store, retrieve, project | stored with an outbox event, run by an INTERNAL worker, changes the item | events late, out of order, repeated; retrieval outside the lock |
| Refunds, subscriptions, payment methods | `stripe_refund_operations`, `stripe_subscriptions`, `payment_methods` | reserve an amount, change plan, default card | idempotency and webhooks | partial failure between Stripe and the row |
| OTP and password reset (`auth.otp`, `auth.password-reset`) | challenges, attempts, reset tokens | issue, verify, consume | outbox sends the code; reset revokes sessions | attempts counted under concurrency |
| Organizations and invitations | memberships, invitations | add, change role, remove, accept | permissions, chat | the last owner under concurrent changes |
| Roles and permission cache (`roles`, `middleware/access-control`) | role rows, epochs and cache in Redis | change, read through | every request | a cached value from before a change |
| Chat | conversations, sequence numbers, read marks, sockets | send, read, join, revoke | revocation from sessions and roles | order of numbers and events, sockets that outlive a revocation |
| Uploads | uploads, objects in storage | reserve, complete, scan, delete, clean up | scan is an INTERNAL event | cleanup against completion |
| Account erasure | user row and everything that hangs on it | delete, erase | outbox, idempotency, storage | steps that fail halfway |
| Scheduler, rate limits | locks and counters in Redis | run a job, count a request | retention, cleanup | lock renewal against timeouts |
| Audit log, tenant scope, configuration, docs, metrics | | | | sequential: nothing interleaves |

For each part the property that makes it correct:

- outbox: nothing committed is lost before the queue, one worker per generation,
  a settled event stays settled, a recorded success is not sent again;
- idempotency: one answer and one effect per record, one mutation per life of a
  row;
- sessions: one live token per session, none of a revoked one, and a reused
  token revokes its session;
- codes: wrong guesses are bounded, a code has one outcome, and none passes its
  check on a suspended account;
- charges: one payment per item, a paid item is consumed; refunds: one per key
  and never more than was recorded; cards and plans: the rows follow Stripe;
- organizations: always an owner; permissions: no cached decision outlives its
  revocation; chat: numbers without gaps, sockets end with their session;
- uploads: quotas hold, bytes that are served were scanned, what is deleted
  stays deleted and leaves storage; scheduler: one run within its time.

## Modules

| Module | Models | Source |
|---|---|---|
| `OutboxLifecycle` | the abstract promise about one outbox event | |
| `OutboxDelivery` | relay, queue, worker, redrive, erasure, retention | `outbox.relay.ts`, `outbox.service.ts`, `outbox.policy.ts`, `notification.worker.ts`, `notification.queue.ts`, `email-events.service.ts` |
| `IdempotencyLease` | `runIdempotent` around a provider | `lib/idempotency.ts` |
| `IdempotentTransaction` | `runIdempotentTransaction` | `lib/idempotency.ts` |
| `RefreshSessions` | sessions and refresh tokens, by SQL statement | `auth.sessions.service.ts` and its callers |
| `AuthChallenges` | codes, password reset, email change, social login | `auth.otp`, `auth.passwords`, `auth.password-reset`, `auth.account`, `auth.social-login` services, `auth.policy.ts`, `users.service.ts` |
| `ChargePayments` | `createCharge`, Stripe intents, webhook projection | `stripe.chargeable.ts`, `stripe.charges.service.ts`, `stripe.webhooks.service.ts` |
| `Billing` | customers, refunds, cards, subscription, checkout, their webhooks | `stripe.refunds`, `.payment-methods`, `.subscriptions`, `.checkout`, `.webhooks` services, `stripe.shared.ts` |
| `Memberships` | members, owners, invitations, switches | `organizations.service.ts`, `organizations.tenancy.ts`, `auth.account.service.ts` |
| `Access` | authentication, permission guard, its cache and epochs | `middleware/access-control.ts`, `roles.service.ts` |
| `Chat` | conversations, messages, read marks, socket gateway | `chat.service.ts`, `chat.gateway.ts`, `chat.revocations.ts` |
| `Scheduler` | one scheduled job under its Redis lock | `scheduler/scheduler.ts` |
| `Uploads` | uploads, storage, scans, cleanup, erasure; extends `Scheduler`, whose handler is the cleanup | `uploads.service.ts`, `upload-security.ts`, `uploads.provider.ts`, `upload-cleanup.ts`, `account-erasure.service.ts` |
| `OutboxDeliveryProofs`, `ChargePaymentsProofs`, `AuthChallengesProofs`, `BillingProofs` | theorems about the module of that name | |
| `IdempotencyProofs` | theorems about `IdempotencyLease` and `IdempotentTransaction` | |
| `AuthorizationProofs` | theorems about `RefreshSessions` and `Access` | |
| `OrganizationProofs` | theorems about `Memberships` and `Chat` | |
| `UploadsProofs` | theorems about `Uploads` and `Scheduler` | |
| `MC...` | symmetry sets, fault budgets and compositions for TLC | |

Every `await` that reaches the database, Redis, Stripe, storage or a provider is
one action; what runs between two awaits belongs to the action. A transaction is
one action where its isolation makes it atomic for the rows it touches, and one
action per statement where the order of statements, row locks or advisory locks
matters (`RefreshSessions`, `Memberships`, `AuthChallenges`,
`IdempotentTransaction`). Times are replaced by the comparisons made with them.
Payloads, hashes, encryption, logging and metrics are left out. The database is
PostgreSQL under READ COMMITTED unless the code says otherwise, and the Prisma
client hides rows with `deletedAt`, as `lib/prisma.ts` makes it do.

Components meet in three ways. `Uploads` extends `Scheduler`: the cleanup is the
job under the lock. `MCIdempotencyLease` puts the two functions of
`lib/idempotency.ts` side by side: a scope is served by one of them
(`servedBy`), and rows of different scopes never meet; `MCOrganization` does the
same with members and conversations, which share no state. `OutboxDelivery` is the
carrier of all INTERNAL work, and the models of that work (`ChargePayments`,
`Billing`, `Uploads`) take from it what its proofs establish: an event is handed
to one worker at a time in a generation, and again after a failure.

### OutboxDelivery

`row` is `outbox_events`, `delivery` the row of `notification_deliveries`,
`job` BullMQ's job of an event and generation, `task` the local state of
`enqueueClaimedEvent` per replica and event, `worker` that of
`processNotification` per slot, `reconciling` the exhausted jobs whose `failed`
handler is pending. `handled` and `recorded` are histories. Relay actions:
`ClaimOutboxBatch`, `AddJob`, `MarkEnqueued`, `ReleaseClaimAfterEnqueueFailure`
and their failures. Worker actions follow `processNotification` line by line:
`ReadEvent`, `ExpireEvent`, `StartProcessing`, `LookupDelivery`,
`UpsertDelivery`, `SendAccepted`, `SendFails`, `RecordDeliveryResult`,
`FinalizeDelivery`, `FinishRecorded`, and the catch block
`RecordDeliveryError`, `RecordDeliveryFailure`. `TakeJob`, `CompleteJob`,
`FailJob` and the two stall actions are BullMQ as the code configures it.
Faults (crash of a relay or worker, stall, Redis failure, failed statement) come
out of `FaultBudget`; a Redis failure may or may not have added the job.
What an INTERNAL event does inside is one send step here.

`Lifecycle` is the refinement: PENDING, CLAIMED and ENQUEUED are `waiting`,
PURGED is `gone`, the generation is itself.

### IdempotencyLease

`record` is the row of one key, `call` the local state of each `runIdempotent`,
`provider` what the external system remembers under the forwarded key,
`dedupes` whether it deduplicates at all (both are explored). The histories
`effects`, `answers`, `saved`, `erased` are what the properties speak about.
Callers pass `find`, `purge`, `acquire` or `create`, `operate`, `save`,
`release`; a save or a statement may fail, also after it took effect.

Assumption: the provider keeps a key as long as an unfinished record of it
exists. Stripe keeps keys for about a day, and unfinished records are kept
until they are retried; a retry after that is outside the model.

### IdempotentTransaction

`stored` is the committed row of one key, `writer` the transaction whose
insertion or deletion of it is not committed yet, `execution` where each call of
`runIdempotentTransaction` is: its snapshot, the time it took before the first of
its three attempts, and what it answered. The row, the mutation and the response
commit together; an insertion that meets another waits and is then told P2002 or
P2034, and PostgreSQL may abort any transaction. A commit may succeed and its
answer be lost (`unknown`). `mutations` is the history of what was committed.

The unit of the clock is the life of a row (`ttlHours`).
Assumption: no request lives as long as a row does.

### RefreshSessions

`session` and `token` are committed rows, `sessionLock` and `tokenLock` row
locks, `request` the running transaction with its snapshot. Rotation is
SERIALIZABLE: it aborts on an update of a row that changed since its snapshot.
Revocation is READ COMMITTED: an update waits and goes on. A cycle of waits
aborts one transaction. PostgreSQL's further serialization failures (read and
write dependencies without a row conflict) are not modelled: the properties
hold without their help. All revoking callers are one family of actions with the
sessions they cover as `scope`. `ReuseRevokesSession` says that once a reuse was
detected and its transaction went through, the session is revoked with all its
tokens.

### AuthChallenges

One account: `user` is its row, `challenge` the rows of `otp_challenges` in
their order, `token` the reset tokens, `request` where each request is. `Verify`
reads the challenge and compares the code; `RecordInvalidOtpAttempt`,
`ConsumeLogin`, `Activate`, `IssueToken`, `ResetPassword` and
`VerifyEmailChange` are the transactions that follow, with their conditional
updates. A login has its outcome in one more, `CreateSession`, which does not
look at the status again. `UpdateUser` and `DeleteAccount` come between at any point. `guesses`
and `outcomes` in a challenge are histories: comparisons made, effects had.

### Memberships and Access

`Memberships` has one organization in both tenancy modes: `member`,
`invitation`, `pinned` sessions, and `ownerLock`, the advisory lock that
`changeMemberRole`, `removeMember` and `deleteAccount` take and
`acceptInvitation` does not. `Access` takes the membership transactions as one
step and adds what they do to epochs: `Authenticate` reads the epochs,
`CacheHit`, `QueryGlobalGrant` and `QueryOrganizationGrant` are
`permissionGuard`, and `writes` are the SET commands that are sent without
waiting. `seen` in a caller collects what was granted at each moment of the
request; `missed` are users whose grants changed without a new epoch.

### Chat

`conversation`, `message` are rows, `task` the service calls between their
statements, `socket` the connections of one gateway with their rooms, `notices`
what is under way in Redis pub/sub, `sweep` the revalidation that runs on a
timer. A notice may be lost, and a socket that is still being authorised is not
in its room when the notice comes.

### ChargePayments

`item` is one row of `chargeable_items`, `call` the state of each
`createCharge`, `intent` and `answer` Stripe's PaymentIntent of a business key
and the response it replays, `event` the stored webhook events by intent and
kind, `handler` the INTERNAL worker slots, `payment` the `stripe_payments`
status. `ReadItem` and `ReserveItem` are the loop of `reserve`, `CreateIntent`
the Stripe call, `PersistIntent` `recordPaymentIntent`; each has its failure.
`RetrieveCurrentStripeObject` and `ProjectStripeEvent` are separate, as the
code retrieves before it opens the transaction. `ProjectThenFail` is a
projection that commits although the attempt is reported as failed, so that the
event is projected again.

Assumptions: Stripe replays a key's first answer for as long as the key is used;
the environment has a Stripe client (an event cannot be stored without one),
so every retrieval is authoritative and the cursor comparison in
`upsertPayment` is never reached; one item, since rows of two items never meet.
Behaviour the model shows and no document rules out: an item whose amount is out
of bounds is refused only after it was reserved and stays RESERVED; and after a
cancellation a retry under the same key reserves the item again, gets the
canceled intent replayed, and no further event frees the item.

### Billing

One user with one payment to refund, cards and a subscription. `customer`,
`operation`, `card`, `subscription` are rows; `customers`, `refund`, `refunded`,
`attached`, `preferred`, `plan`, `checkout` are Stripe's side. A request calls
Stripe and the database in turn and may die in between; what happens at Stripe,
by a request, in the portal or at the dashboard, leaves a stored event, and a
worker retrieves the object in one step and projects it in another. `topic`
chooses at the start what the user is about: refunds, cards or the
subscription. The three share the customer and the account's deletion and touch
no other row in common.

### Scheduler and Uploads

`lock` is the Redis key, `run` the job per slot: the timer ends the run, the
handler goes on until it looks at its signal. `upload` are rows, `object` what
storage holds, `signed` the URLs that still work, `job` the scan events by
dedupe key, `quotaLock` the advisory lock of the storage quota. Completion,
scan, download, deletion, cleanup and erasure are each split at their awaits.
The client may PUT whenever the URL is valid and the object absent. `erasure` is
the erasure event: `DeleteAccount` lists the uploads, `EraseUploads` marks the
listed ones, the worker deletes the object of each marked row and marks it
(`EraseObject`, `MarkErased`), and `EraseFails` is an attempt that throws
anywhere, at Stripe, for want of the right provider, at the deletion or after
it; the last of `MaxAttempts` leaves the event dead. The history `late` has the
uploads whose row was inserted after the listing, `revived` those brought back
from FAILED or REJECTED, `purged` those whose object was deleted once. All
uploads have size 1 and scanning is by webhook.

## Runs

| Run | Instance | Checks |
|---|---|---|
| `outbox_workers` | 1 event, 1 relay, 2 workers, 2 tokens, 2 generations, 2 attempts; 2 worker crashes, 1 stall, 1 database error | `OwnershipInv`, `DeliveredMeansHandled`, `NoResendAfterRecord`, `ImplementsLifecycle` |
| `outbox_live` | 2 relays, 1 worker, 2 generations, email events on; 2 faults of relays (crash, Redis or database failure) | `EnqueuedHasJob`, `EventuallyQueued`, `BackedDeliverySettles` |
| `idempotency` | 3 callers, 2 requests, 3 tokens, 2 records, 1 crash; or 3 clients, 2 bodies, 3 clock readings | `SameAnswer`, `EffectsAccountedFor`, `OneEffectPerRow`, `LeaseRespected`, `OneMutationPerLife`, `AnswersTellTheTruth` |
| `sessions` | 2 requests, 2 sessions, 3 tokens | `SessionInv` (types, `OneLiveToken`), `RevokedSessionIsDead`, `ReuseRevokesSession` |
| `auth` | 2 requests, 3 addresses, 2 challenges of 2 attempts, 5 calls, 1 change by an administrator, 1 crash | `AuthInv` (types, `LockedIsFinal`, `OneOutcome`), `GuessesBounded`, `EmailProven`, `SuspensionHolds` |
| `payments` | 2 requests, 2 keys, 1 worker, 1 failure | `PaymentHoldsItem`, `PaidOnce` |
| `payments_live` | 1 request at a time, 2 keys, 1 worker, 2 failures | `PaidIsConsumed` |
| `billing` | 2 requests, 2 workers, 2 keys, 2 cards, a payment of 2, 1 change at Stripe, 1 fault | `BillingInv` (types, `DefaultIsSaved`, `DefaultFollowsStripe`), `RefundOnce`, `CustomerStable`, `CancellationIsProjected`, `DeletionEndsPlan` |
| `access` | 1 user, 2 guarded requests, a global and an organization role, 3 user epochs, 2 organization epochs | `AccessInv` (types, `AllowedWasGranted`) |
| `organization` | 2 users, 2 requests, 1 invitation, both tenancy modes; or 2 users, 1 socket, 2 overlapping calls of 4, 3 conversations, 2 message ids, pages of 1, 1 room | `MembershipInv` (types, `OwnerKept`), `ChatInv` (types, `DirectAgreement`, `RoomLimit`), `DenseSequence`, `RevokedIsDisconnected` |
| `uploads` | 3 uploads, 2 requests, 2 scheduler slots, storage quota 2, bandwidth quota 1, 2 attempts of a scan and of the erasure, 2 PUTs, 1 fault beside the attempts of the erasure that throw | `UploadsInv` (types, `StorageWithinQuota`, `BandwidthWithinQuota`), `RunHoldsLock`, `ServesScannedBytes`, `DeletedStaysDeleted`, `MaliciousIsPurged`, `ErasureReachesStorage` |
| `chat_marks` | 2 users, 1 conversation, 2 overlapping calls of 5, 2 messages; a violation is expected | `ReadMarkMonotonic` |

`chat_marks` states what the repository says of itself, and TLC finds a behaviour
of the code that contradicts it. `chat.service.ts:333`: "Monotonic: an
out-of-order acknowledgement must not resurrect unread messages." `markRead`
compares with the row it has read and then updates by id. A client acknowledges
1 and 2 at once, both calls read mark 0, 2 is written, then 1: message 2 is
unread again.

The types of the outbox, idempotency, charge and session modules,
`OneRequestPerRow`, `ClaimInv` and `ReservationInv` are proved and not part of a
run of their own.

The bounds are the smallest that let each hazard happen: two relays, workers,
requests or slots make every race between replicas, a second generation or
epoch makes stale processes of the first, three callers make a third one that
could profit from a lease a stale one frees, three tokens a rotation of a
rotated token, two owners are two who remove each other, one invitation is
accepted by two requests and its row used again once purged, one more upload than
the quota and one more download than the bandwidth are the ones that must be
refused. One event, key, account or item is enough because the statements of the
code address rows by id and never compare two of them; where they do (owners of
an organization, cards of a customer, uploads of an account) there are several.
The proofs drop the bounds altogether. Symmetry is used for safety only.
`NothingMissed` in `access` cuts off states in which its only user is excluded
from the property. Deadlock is not checked where bounds on generations, records,
tokens, calls or epochs make the system stop. It is checked for payments, where
requests always come.

### What the properties exclude, and why

A property claims what the code does. Where the code has a gap, a history
variable marks that the gap was met and the property claims nothing further; or
the gap is outside the fault budget of the run. These are the places in which
the code does something else than a document or a reader would expect:

- Outbox. The job is in Redis before the row is ENQUEUED; a worker that takes it
  in between (`notification.worker.ts:240`) loses its compare-and-set, the job
  completes, and the row stays ENQUEUED without a job, although README line 423
  promises at-least-once delivery. `BackedDeliverySettles` therefore speaks of
  rows whose job waits.
- Outbox. A database error while a success is finalized makes the catch block
  overwrite SENT by FAILED, and the retry sends again; and once an event was
  redriven past a stalled worker, both may look up the delivery before either
  records it. README lines 423-425 say the delivery row prevents a second send.
  `NoResendAfterRecord` holds without a database error, and in the first
  generation or without stalls.
- Email events update deliveries by destination, not by provider message id
  (README lines 418-419), so an unsent delivery can be marked:
  `DeliveredMeansHandled` is checked and proved with email events off.
- Sessions. Reuse detection is aborted when a rotation commits first, and
  nobody repeats it (README line 184): `ReuseRevokesSession` speaks of
  detections that went through.
- Webhooks. The object is retrieved before the lock is taken, so an older look
  can be written to `stripe_payments` last (README lines 168-169). Items and
  canceled subscriptions are safe from it (`PaidOnce`, `CancellationIsProjected`).
- Social login updates the account it read before by id, and a suspension in
  between is undone (`auth.social-login.service.ts:49`, against
  `auth.policy.ts:10-13`): `SuspensionHolds` names this action.
- Logins. `createSession` is a transaction of its own after the one that checked
  the status (`auth.otp.service.ts:238`), and does not check it again: a login
  whose code was consumed just before the suspension gets a session and tokens
  after it, which the revocation of the suspension did not see. The same window
  is between the check and the session of a login by password or by a social
  identity. Such a session is refused while the account is suspended
  (`access-control.ts:23`), and a refresh tried then revokes it
  (`auth.sessions.service.ts:88`), but left alone it is good again when the
  account is reinstated. `SuspensionHolds` states how far this goes: no code
  passes its check once the account is suspended, and a deleted account gets no
  session, since updating `lastLoginAt` throws.
- Organizations. `acceptInvitation` can demote the last owner, and an account
  that became an owner while it was being deleted is not counted: `lapsed`.
- Permissions. Three kinds of users keep the old epoch, and a decision cached
  under it for its 60 seconds: `missed`. The largest is that of members who hold
  a global role through their membership: when its permissions change, only
  holders by a `UserRole` row get a new epoch (`roles.service.ts:25`), although
  the comment above (lines 14-18) says every active holder must. The others are
  users who are given a role while its holders are being listed (line 20), and
  users whose membership a login restores (`organizations.tenancy.ts:46`).
- Uploads. `completeUpload` and the scan write statuses without comparing, and
  can bring back a row that was FAILED or REJECTED: `revived`. A PUT after the
  object was deleted is possible while the URL lives: `purged`.
- Account erasure. `deleteAccount` lists the uploads before its transaction
  (`auth.account.service.ts:79`) and marks only those, and the worker deletes the
  objects of marked rows (README lines 765-767). An upload that another request of
  the user inserts after the listing is in `late`, and `ErasureReachesStorage`
  claims nothing of it: a completed one keeps its row and its object, one still
  PENDING is left to the cleanup. The same goes for rows brought back from FAILED
  or REJECTED. Rows that stay FAILED or REJECTED are not listed either; their
  URL was never handed out, or their objects were deleted before the row was
  marked, or are deleted after it as far as the attempts of the scan go
  (`MaliciousIsPurged`). A PUT with a URL that is
  still good can store an object again, and an erasure whose attempts are used up
  is dead until somebody redrives it. Rows with status DELETED are hidden from
  retention by the soft-delete filter and stay.
- Billing. A default card that Stripe has replaced meanwhile may be written
  last: `superseded`. A checkout that is completed after the deletion read the
  account leaves a plan: `late`. A refund request that failed may overwrite the
  status of an operation that another has completed; the refund itself is made
  once.
- Codes. Two requests at once can send two codes, each with its own attempts,
  and two reset codes can give two tokens.
- Charges. An item out of bounds is refused after it was reserved and stays
  RESERVED; after a cancellation a retry under the same key reserves the item
  again and gets the canceled intent replayed.

## Fairness

In `OutboxDelivery` the relay polls every two seconds, BullMQ hands out waiting
jobs and looks for stalled ones, clocks advance, and a started await settles:
weak fairness of each relay, task, slot and job. Redrives, erasure, retention,
expiry and faults are free. `BackedDeliverySettles` is checked without worker
faults because a crash leaves a row PROCESSING for good (the code has no
reaper). In `ChargePayments` Stripe repeats an event until it is stored, and a
stored event is given to a worker as often as it fails within `MaxFailures`,
fewer times than `OUTBOX_MAX_DELIVERY_ATTEMPTS`. `Billing` assumes
the same of its workers and of the erasure job, `Uploads` that scans go on until
they end or are dead, `Chat` that the sweep's timer
fires and the database answers it. Requests, clients, customers, notices, the
cleanup and the erasure of uploads are free to stop anywhere.

## Proofs

Every safety property of the passing runs, invariant or action property, is a
theorem.
The theorems hold for any number of processes, rows and messages and for every
bound; they use the named assumptions of the modules only. These say that null
values are not members of their sets and bounds are natural numbers (quotas,
limits and attempts positive), and that what is counted is finite: the users of
an organization (`Memberships`) and the uploads of an account (`Uploads`). Beside
that, `AuthChallenges` has at least one address, `Memberships` has the roles
owner and member that the code creates, and `Uploads` one upload that is sent.

Most invariants are not inductive, for one reason: a request decides from what
it read, and writes some awaits later. The strengthenings therefore say, step by
step of a request, what it may still rely on. The proofs are laid out alike. A
few lemmas say that a process that does not move keeps its knowledge while rows
change only in the ways named (`RowsKeep`, `OthersStay`, `OwnersStay`); one
lemma per kind of write shows that it changes rows in these ways; and each action
is then its own process's step.

- `OutboxDeliveryProofs`. `TypeCorrect`. `SingleOwnerAlways`: `OwnershipInv` is
  inductive: no task, job or worker is ahead of the row's generation, and an
  owned current row is PROCESSING or dead, so the compare-and-set of a second
  worker fails. `EnqueuedHasJobAlways`, through `ClaimInv`: whoever holds the
  current token is on the current generation and has added its job before it
  marks the row. Each action is first reduced to the few ways it can move a row,
  a worker, a job or a task (`RowStep`, `WorkerStep`, `JobStep`,
  `TaskStepMoves`), and the invariants are proved against these.
  `OutboxImplementsLifecycle` is the refinement, step by step.
  `DeliveredMeansHandledAlways` holds with email events off. `NoResendAlways`
  needs `RecordInv`. Without stalls every busy worker holds its job
  (`HolderInv`), so an event is redriven only after its last owner has gone
  (`CurrentInv`), and whoever starts it again finds the success in the delivery
  row (`SteadyInv`). With stalls this is so within the first generation, which
  has one owner (`FirstInv`).
- `IdempotencyProofs`, `runIdempotent`. `LeaseInv` relates the row to what was saved
  (`SavedInv`), the calls and effects to the request of their row
  (`RequestInv`), and every effect to a row that can still answer for it
  (`AccountInv`). It gives `SameAnswerAlways`, `OneRequestPerRowAlways`,
  `EffectsAccountedForAlways`, the action property `LeaseRespectedAlways`, and,
  with what the provider remembers, `OneEffectPerRowAlways`.
- `ChargePaymentsProofs`. `ChargeInv` adds `ReservationInv` to the properties:
  a request that may still create an intent holds the reservation, Stripe's
  replayed answers are true, and what a worker has seen of a settled intent,
  however long ago, is still so. The last part is why a stale projection can
  spoil `stripe_payments` but never the item. It gives
  `PaymentHoldsItemAlways` and `PaidOnceAlways`.
- `IdempotencyProofs`, `runIdempotentTransaction`. `TxInv` has five parts beside the properties: the
  writer is about to insert into an empty or expired slot (`WriterInv`), a
  running request came at most one life of a row ago and deletes only what it saw
  expired (`AgeInv`), every mutation has outlived its row or is not younger than
  the row there is (`LivesInv`), a row is committed with its mutation
  (`StoredInv`), and a client that was not answered has changed nothing
  (`OwnInv`). `LivesInv` is what makes it inductive: it remembers the lives whose
  row is gone. It gives `OneMutationPerLifeAlways` and
  `AnswersTellTheTruthAlways`.
- `AuthorizationProofs`, `RefreshSessions`. What a commit writes was decided from an earlier read,
  so `SessionsInv` says, for every step of a request, how its snapshot, the rows
  it found and its locks relate to the rows of now (`StepOK`, `LocksInv`). Its
  central part, in `SnapshotOK`: while `lastSeenAt` is the one of the snapshot,
  no token was added to the session, because a rotation writes both. So a reuse
  that was not aborted has seen every token it must revoke; a revocation finds
  them all because it holds the session's lock, which a rotation needs. That a
  step of one request leaves what the others know is proved once (`OthersStay`),
  from the few ways a step may move locks and rows (`LocksMove`, `RowsMove`). It
  gives `OneTokenPerSession`, `RevocationWins` and `ReuseIsFinal`.

- `AuthorizationProofs`, `Access`. A decision is cached under the epochs its
  request was authenticated with, and may have been computed under later ones.
  `GuardInv` says of a cached decision that it is right for whoever authenticates
  under the epochs of its key, and that every request under way with that key has
  seen the grant (`DecisionOK`), unless the user is in `missed`. It gives
  `AccessTheorem`.
- `AuthChallengesProofs`. A code is compared in one transaction and consumed in
  another. `CodesInv` has what a request knows of its challenge (`RequestOK`),
  that a transaction which has updated a challenge is alone with it
  (`ExclusiveInv`), and that a challenge which can still be guessed has counted
  every wrong code except those under way and those lost in a crash
  (`GuessInv`). A login that has consumed its code and has no session yet still
  owns the challenge's only outcome. It gives `AuthTheorem`, `GuessesTheorem`, `EmailTheorem` and the
  action property `SuspensionTheorem`.
- `BillingProofs`. `MoneyInv`: a key has one refund at most, which the operation
  in the database covers (`KeyOK`), a request carries an amount that is covered
  when it reaches Stripe (`RequestOK`), and the cards in the rows agree with
  Stripe unless an event is stored, or a worker on its way, that will make them
  agree (`FollowsInv`). It gives `BillingTheorem`, `RefundTheorem` and the action
  property `CustomerTheorem`.
- `OrganizationProofs`, `Memberships`. `OwnersInv`: a request that is about to
  take an owner away holds the advisory lock, and there is an owner beside its
  target (`RequestSafe`). The steps that take no lock only add owners, except
  those recorded in `lapsed`. It gives `MembershipTheorem`.
- `OrganizationProofs`, `Chat`. `RoomsInv`: existing conversations have different
  keys and every answer names the one of its pair (`KeysOK`), numbers and ids
  tell the messages of a conversation apart and the numbers are those up to
  `lastSeq` (`NumbersOK`), and a call under way knows its rows (`TaskOK`). The cardinalities in `DenseSequence`, those of a page
  included, follow by counting (`Numbered`, `PageFollows`). It gives
  `ChatTheorem` and `DenseTheorem`.
- `UploadsProofs`. `AccountInv`: the row a request or a scan works on by id is
  still there, except for the one that the holder of the quota lock will insert,
  and there is room for that one (`RequestOK`, `QuotaOK`); the object under it is
  the one that was looked at unless it was deleted since, because a PUT does not
  replace (`RequestOK`, `JobOK`, `RowOK`); every answered download is in the row
  of the month. It gives `UploadsTheorem`, `ScannedTheorem`, the action property
  `DeletedTheorem`, and, with the steps of the scheduler, `SchedulerTheorem`.
  For the erasure, `ErasureInv`: while a deletion is between its listing and its
  transaction every live row is in the list, `late` or `revived`, and whoever is
  about to mark a row, a request, a scan or the erasure, has deleted its object.
  All steps but those of `deleteAccount` and of the event are `Quiet`. It gives
  `ErasureTheorem`.

Only model-checked: the liveness properties (`EventuallyQueued`,
`BackedDeliverySettles`, `PaidIsConsumed`, `RevokedIsDisconnected`,
`MaliciousIsPurged`, `CancellationIsProjected`,
`DeletionEndsPlan`), since the provers do no fairness and no `ENABLED`.

## Not modelled

- Rate limiting: one atomic Redis script per request and a fallback within a
  process; a refused request is one that does not come, which every model allows.
- Worker runtime: start and stop of processes; a crash is a step of the models.
- Audit log: each row is signed and inserted in the transaction of its mutation.
- Tenant scope, preferences, templates and providers, configuration, crypto,
  HTTP plumbing, documentation, metrics: no state of their own that two
  processes could disagree about.
- Within modelled parts: names and profiles (`updateOrganization`,
  `createRole`), downloads by redirect, invoices, disputes and one-off
  checkouts, promotion codes, the suppression list, typing notices and fan-out
  between gateway replicas, and retention of sessions, webhook events, uploads
  and audit rows, which goes by age alone.

## Plan

The safety properties are proved. Next is the safety half of
`CancellationIsProjected` as a theorem (a subscription that was projected as
canceled is never written back), then the retention of sessions and webhook
events.
