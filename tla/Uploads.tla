------------------------------- MODULE Uploads -------------------------------
(***************************************************************************)
(* Uploads of one account: the rows, the objects in storage, the scan jobs   *)
(* of the outbox, the cleanup of expired uploads under the scheduler's lock, *)
(* and the erasure of the account.  A request is a step between two awaits.  *)
(* Every upload has size 1, and scanning is configured (UPLOAD_SCAN_MODE =   *)
(* webhook).                                                                *)
(***************************************************************************)
EXTENDS Scheduler, FiniteSets

CONSTANTS
    Ids, NoId,         \* upload ids
    Sent,              \* the uploads whose bytes the client sends
    Requests,          \* API requests under way at once
    StorageQuota,      \* UPLOAD_USER_STORAGE_QUOTA_BYTES
    BandwidthQuota,    \* UPLOAD_USER_MONTHLY_BANDWIDTH_QUOTA_BYTES
    MaxAttempts,       \* attempts of an event before it is dead lettered
    MaxLoad,           \* bound on 2 * requests + 3 * scheduled runs
    MaxPuts,           \* bound on the objects the client uploads
    MaxFaults          \* bound on failures of storage, scanner and processes

ASSUME UploadsAssumption ==
    /\ {StorageQuota, BandwidthQuota, MaxAttempts} \subseteq Nat \ {0}
    /\ {MaxLoad, MaxPuts, MaxFaults} \subseteq Nat
    /\ NoId \notin Ids /\ Sent \subseteq Ids /\ Sent # {}
    /\ IsFiniteSet(Ids)

VARIABLES
    upload,       \* rows
    object,       \* what storage holds under the object key of a row
    signed,       \* uploads with a presigned URL that has not expired
    expired,      \* uploads whose uploadExpiresAt has passed
    job,          \* scan events of the outbox, by dedupe key
    request,
    quotaLock,    \* holder of the advisory lock of the storage quota
    usage,        \* bytes of the bandwidth row; -1 without a row
    sweep,        \* per scheduler slot: the uploads its cleanup has to expire
    erasure,      \* the erasure event of the account
    calls, puts, faults,
    purged,       \* history: uploads whose object was deleted once
    revived,      \* history: uploads brought back from FAILED or REJECTED
    late,         \* history: uploads inserted once a deletion had listed the others
    downloads     \* history: downloads answered in this period

rows == <<upload, job, usage, erasure>>
storage == <<object, signed, expired, puts>>
history == <<purged, revived, late, downloads>>
vars == <<scheduler, rows, storage, request, quotaLock, sweep, calls, faults,
          history>>

\* Bytes as the provider, the signature check and the scanner tell them apart.
Contents == {"clean", "infected", "wrong"}
Counted == {"PENDING", "QUARANTINED", "SCANNING", "READY"}
Status == Counted \cup {"NONE", "REJECTED", "FAILED", "DELETED"}
Upload == [status: Status, storageDeleted: BOOLEAN,
           verdict: {"none", "CLEAN", "MALICIOUS", "SIGNATURE_MISMATCH", "ERROR"}]
NoUpload == [status |-> "NONE", storageDeleted |-> FALSE, verdict |-> "none"]

\* upload-scan:<id>:<checksum>.
JobIds == Ids \X Contents
Job == [step: {"none", "queued", "start", "scan", "finalize", "purge", "mark",
               "recover", "done", "dead"},
        verdict: {"none", "CLEAN", "MALICIOUS"},
        caught: BOOLEAN,            \* inside the try block
        attempts: 0..MaxAttempts]
NoJob == [step |-> "none", verdict |-> "none", caught |-> FALSE, attempts |-> 0]

Request == [step: {"idle", "insert", "sign", "inspect", "prefix", "discard",
                   "discardType", "fail", "reject", "quarantine", "enqueue", "delete", "gone",
                   "open", "charge", "erase"},
            id: Ids \cup {NoId}, content: Contents \cup {"none"},
            list: SUBSET Ids]
Idle == [step |-> "idle", id |-> NoId, content |-> "none", list |-> {}]
Erasure == [state: {"none", "requested", "done", "dead"}, id: Ids \cup {NoId},
            attempts: 0..MaxAttempts]      \* those of a requested one that threw
\* Outside its attempts an erasure needs no count.
Settled(state) == [state |-> state, id |-> NoId, attempts |-> 0]
NoSweep == [listed |-> FALSE, todo |-> {}, id |-> NoId]

\* One upload has been initiated before the calls begin.
First == CHOOSE u \in Sent : TRUE

Init ==
    /\ SchedulerInit
    /\ upload = [u \in Ids |->
                   IF u = First THEN [NoUpload EXCEPT !.status = "PENDING"]
                                ELSE NoUpload]
    /\ object = [u \in Ids |-> "none"]
    /\ signed = {First} /\ expired = {}
    /\ job = [j \in JobIds |-> NoJob]
    /\ request = [r \in Requests |-> Idle]
    /\ quotaLock = {}
    /\ usage = -1
    /\ sweep = [w \in Slots |-> NoSweep]
    /\ erasure = Settled("none")
    /\ calls = 0 /\ puts = 0 /\ faults = 0
    /\ purged = {} /\ revived = {} /\ late = {} /\ downloads = 0

At(r, step) == request[r].step = step
Goto(r, step) == request' = [request EXCEPT ![r].step = step]
End(r) == request' = [request EXCEPT ![r] = Idle]
Deleted(u) == upload[u].status = "DELETED"
Exists(u) == upload[u].status \notin {"NONE", "DELETED"}
Spend == faults < MaxFaults /\ faults' = faults + 1

\* Requests are alike, and so are new ids: the first free one is taken.
FreeRequest == CHOOSE r \in Requests : At(r, "idle")
Fresh(u) == upload[u].status = "NONE" /\ \A r \in Requests : request[r].id # u

Load == 2 * calls + 3 * ticks

\* A request of the account arrives.
Call(r, values) ==
    /\ At(r, "idle") /\ r = FreeRequest
    /\ Load + 2 <= MaxLoad
    /\ erasure.state = "none"
    /\ request' = [request EXCEPT ![r] = values]
    /\ calls' = calls + 1

\* What the provider answers to an inspection or a read, at the time of it.
StoredObject(u) == object[u]

\* provider.deleteObject.
DeleteObject(u) ==
    /\ object' = [object EXCEPT ![u] = "none"]
    /\ purged' = purged \cup {u}
    /\ UNCHANGED <<signed, expired, puts, revived, late, downloads>>

\* upload.update by id, which throws on a deleted row.
SetStatus(u, status, verdict) ==
    /\ upload' = [upload EXCEPT ![u].status = status, ![u].verdict = verdict]
    /\ revived' = IF upload[u].status \in {"FAILED", "REJECTED"} /\ status \in Counted
                  THEN revived \cup {u} ELSE revived

-----------------------------------------------------------------------------
(* The storage provider, used by the client directly.                       *)

\* Mutant: the presigned PUT may overwrite.
PutAgain(u, c) ==
    /\ u \in signed \cap Sent /\ puts < MaxPuts
    /\ object' = [object EXCEPT ![u] = c]
    /\ puts' = puts + 1
    /\ UNCHANGED <<scheduler, rows, signed, expired, request, quotaLock, sweep,
                   calls, faults, history>>

\* The URL is good for one object at a time: If-None-Match, or overwrite=false.
Put(u, c) ==
    /\ u \in signed \cap Sent /\ puts < MaxPuts
    /\ object[u] = "none"
    /\ object' = [object EXCEPT ![u] = c]
    /\ puts' = puts + 1
    /\ UNCHANGED <<scheduler, rows, signed, expired, request, quotaLock, sweep,
                   calls, faults, history>>

\* Time matters to rows that are pending and to URLs that will be used.
PassExpiry(u) ==
    /\ upload[u].status = "PENDING" \/ u \in signed \cap Sent
    /\ u \notin expired
    /\ expired' = expired \cup {u}
    /\ signed' = signed \ {u}
    /\ UNCHANGED <<scheduler, rows, object, puts, request, quotaLock, sweep, calls,
                   faults, history>>

-----------------------------------------------------------------------------
(* initiateUpload.                                                          *)

\* Mutant: the transaction does not take the advisory lock.
InitiateUnlocked(r, u) ==
    /\ Fresh(u) /\ u = CHOOSE v \in Ids : Fresh(v)
    /\ Cardinality({v \in Ids : upload[v].status \in Counted}) < StorageQuota
    /\ Call(r, [Idle EXCEPT !.step = "insert", !.id = u])
    /\ UNCHANGED <<scheduler, rows, storage, quotaLock, sweep, faults, history>>

\* Under the advisory lock of the account: the sum of what is stored, ...
InitiateUpload(r, u) ==
    /\ Fresh(u) /\ u = CHOOSE v \in Ids : Fresh(v)
    /\ quotaLock = {}
    /\ Cardinality({v \in Ids : upload[v].status \in Counted}) < StorageQuota
    /\ quotaLock' = {r}
    /\ Call(r, [Idle EXCEPT !.step = "insert", !.id = u])
    /\ UNCHANGED <<scheduler, rows, storage, sweep, faults, history>>

\* A deletion of the account has listed its uploads.
Listed == erasure.state # "none" \/ \E r \in Requests : At(r, "erase")

\* ... then the row, and the lock goes with the transaction.
InsertUpload(r) ==
    /\ At(r, "insert")
    /\ upload' = [upload EXCEPT ![request[r].id].status = "PENDING"]
    /\ quotaLock' = quotaLock \ {r}
    /\ Goto(r, "sign")
    /\ late' = IF Listed THEN late \cup {request[r].id} ELSE late
    /\ UNCHANGED <<scheduler, job, usage, erasure, storage, sweep, calls,
                   faults, purged, revived, downloads>>

\* provider.createUpload signs the URL, and its own expiry is stored; on an
\* error, the row being deleted included, the catch block marks it FAILED.
CreateUpload(r) ==
    LET u == request[r].id
    IN  /\ At(r, "sign")
        /\ \/ /\ ~Deleted(u)
              /\ signed' = signed \cup {u}
              /\ expired' = expired \ {u}
              /\ UNCHANGED <<upload, revived, faults>>
           \/ /\ Spend
              /\ IF Deleted(u) THEN UNCHANGED <<upload, revived>>
                 ELSE SetStatus(u, "FAILED", upload[u].verdict)
              /\ UNCHANGED <<signed, expired>>
           \/ Deleted(u) /\ UNCHANGED <<upload, revived, signed, expired, faults>>
        /\ End(r)
        /\ UNCHANGED <<scheduler, job, usage, erasure, object, puts, quotaLock, sweep,
                       calls, purged, late, downloads>>

-----------------------------------------------------------------------------
(* completeUpload.                                                          *)

CompleteUpload(r, u) ==
    /\ upload[u].status \in {"PENDING", "QUARANTINED"}
    /\ Call(r, [Idle EXCEPT !.step = "inspect", !.id = u])
    /\ UNCHANGED <<scheduler, rows, storage, quotaLock, sweep, faults, history>>

\* inspectObject: no object is an error; wrong bytes may have a wrong size or
\* type, or come to light by their signature only.
InspectObject(r) ==
    LET c == StoredObject(request[r].id)
    IN  /\ At(r, "inspect")
        /\ \/ c = "none" /\ End(r)
           \/ /\ c # "none"
              /\ request' = [request EXCEPT ![r].content = c, ![r].step = "prefix"]
           \/ /\ c = "wrong"
              /\ request' = [request EXCEPT ![r].content = c, ![r].step = "discard"]
        /\ UNCHANGED <<scheduler, rows, storage, quotaLock, sweep, calls, faults,
                       history>>

\* readObjectPrefix and detectContentType.
ReadObjectPrefix(r) ==
    LET c == StoredObject(request[r].id)
    IN  /\ At(r, "prefix")
        /\ CASE c = "none"  -> End(r)
             [] c = "wrong" -> Goto(r, "discardType")
             [] OTHER       -> Goto(r, "quarantine")
        /\ UNCHANGED <<scheduler, rows, storage, quotaLock, sweep, calls, faults,
                       history>>

\* A wrong object is deleted first ...
DiscardObject(r) ==
    /\ request[r].step \in {"discard", "discardType"}
    /\ DeleteObject(request[r].id)
    /\ Goto(r, IF At(r, "discard") THEN "fail" ELSE "reject")
    /\ UNCHANGED <<scheduler, rows, quotaLock, sweep, calls, faults>>

\* ... and its row marked after, by id alone.
MarkWrongObject(r) ==
    LET u == request[r].id
    IN  /\ request[r].step \in {"fail", "reject"}
        /\ IF Deleted(u) THEN UNCHANGED <<upload, revived>>
           ELSE IF At(r, "fail")
           THEN SetStatus(u, "FAILED", upload[u].verdict)
           ELSE SetStatus(u, "REJECTED", "SIGNATURE_MISMATCH")
        /\ End(r)
        /\ UNCHANGED <<scheduler, job, usage, erasure, storage, quotaLock, sweep,
                       calls, faults, purged, late, downloads>>

\* The update is guarded, but nobody looks at its count; reading a deleted row
\* back throws.
Quarantine(r) ==
    LET u == request[r].id
    IN  /\ At(r, "quarantine")
        /\ upload' = IF upload[u].status \in {"PENDING", "QUARANTINED"}
                     THEN [upload EXCEPT ![u].status = "QUARANTINED"]
                     ELSE upload
        /\ IF Deleted(u) THEN End(r) ELSE Goto(r, "enqueue")
        /\ UNCHANGED <<scheduler, job, usage, erasure, storage, quotaLock, sweep,
                       calls, faults, history>>

\* SCANNING by id, with the scan event in the same transaction: an event with
\* the dedupe key rolls it back.
EnqueueScan(r) ==
    LET u == request[r].id
        j == <<u, request[r].content>>
    IN  /\ At(r, "enqueue")
        /\ IF Deleted(u) \/ job[j] # NoJob
           THEN UNCHANGED <<upload, job, revived>>
           ELSE /\ SetStatus(u, "SCANNING", "none")
                /\ job' = [job EXCEPT ![j].step = "queued"]
        /\ End(r)
        /\ UNCHANGED <<scheduler, usage, erasure, storage, quotaLock, sweep,
                       calls, faults, purged, late, downloads>>

-----------------------------------------------------------------------------
(* processUploadScan, an attempt of the notification worker.  The outbox row *)
(* lets one worker at a time own the event (OutboxDelivery, OwnershipInv).   *)

JobAt(j, step) == job[j].step = step
JobGoto(j, step) == job' = [job EXCEPT ![j].step = step]

\* Mutant: a rejected upload needs nothing more.
NextStepOnce(row) ==
    IF row.status \in {"QUARANTINED", "SCANNING"} THEN "start" ELSE "done"

NextStep(row) ==
    CASE row.status \in {"QUARANTINED", "SCANNING"} -> "start"
      [] /\ row.status = "REJECTED" /\ row.verdict = "MALICIOUS"
         /\ ~row.storageDeleted -> "purge"
      [] OTHER -> "done"

TakeScan(j) ==
    /\ JobAt(j, "queued")
    /\ job' = [job EXCEPT ![j].step = NextStep(upload[j[1]]),
                          ![j].caught = NextStep(upload[j[1]]) = "start",
                          ![j].attempts = @ + 1]
    /\ UNCHANGED <<scheduler, upload, usage, erasure, storage, request,
                   quotaLock, sweep, calls, faults, history>>

StartScan(j) ==
    /\ JobAt(j, "start")
    /\ upload' = IF upload[j[1]].status \in {"QUARANTINED", "SCANNING"}
                 THEN [upload EXCEPT ![j[1]].status = "SCANNING",
                                     ![j[1]].verdict = "none"]
                 ELSE upload
    /\ JobGoto(j, "scan")
    /\ UNCHANGED <<scheduler, usage, erasure, storage, request, quotaLock, sweep,
                   calls, faults, history>>

\* The scanner fetches the object; without one it has no verdict.
ScanUpload(j) ==
    LET c == StoredObject(j[1])
    IN  /\ JobAt(j, "scan")
        /\ job' = [job EXCEPT ![j].step = IF c = "none" THEN "recover"
                                                        ELSE "finalize",
                              ![j].verdict = CASE c = "none" -> "none"
                                               [] c = "infected" -> "MALICIOUS"
                                               [] OTHER -> "CLEAN"]
        /\ UNCHANGED <<scheduler, upload, usage, erasure, storage, request,
                       quotaLock, sweep, calls, faults, history>>

\* Mutant: the update also reaches a deleted row.
FinalizeDeleted(j) ==
    /\ JobAt(j, "finalize")
    /\ SetStatus(j[1], IF job[j].verdict = "CLEAN" THEN "READY" ELSE "REJECTED",
                 job[j].verdict)
    /\ JobGoto(j, IF job[j].verdict = "CLEAN" THEN "done" ELSE "purge")
    /\ UNCHANGED <<scheduler, usage, erasure, storage, request, quotaLock, sweep,
                   calls, faults, purged, late, downloads>>

\* The verdict is written by id, which throws on a deleted row.
FinalizeUploadScan(j) ==
    /\ JobAt(j, "finalize")
    /\ IF Deleted(j[1])
       THEN JobGoto(j, "recover") /\ UNCHANGED <<upload, revived>>
       ELSE /\ SetStatus(j[1], IF job[j].verdict = "CLEAN" THEN "READY"
                                                           ELSE "REJECTED",
                         job[j].verdict)
            /\ JobGoto(j, IF job[j].verdict = "CLEAN" THEN "done" ELSE "purge")
    /\ UNCHANGED <<scheduler, usage, erasure, storage, request, quotaLock, sweep,
                   calls, faults, purged, late, downloads>>

PurgeObject(j) ==
    /\ JobAt(j, "purge")
    /\ DeleteObject(j[1])
    /\ JobGoto(j, "mark")
    /\ UNCHANGED <<scheduler, upload, usage, erasure, request, quotaLock, sweep,
                   calls, faults>>

MarkPurged(j) ==
    /\ JobAt(j, "mark")
    /\ upload' = IF upload[j[1]].status = "REJECTED"
                 THEN [upload EXCEPT ![j[1]].storageDeleted = TRUE] ELSE upload
    /\ JobGoto(j, "done")
    /\ UNCHANGED <<scheduler, usage, erasure, storage, request, quotaLock, sweep,
                   calls, faults, history>>

\* What is left to the event when an attempt has thrown.
Retried(j) == IF job[j].attempts < MaxAttempts THEN "queued" ELSE "dead"

\* The scanner, storage or the database fails: outside the try block the
\* error goes to the worker, which retries the event.
ScanFails(j) ==
    /\ job[j].step \in {"scan", "finalize", "purge", "mark"}
    /\ Spend
    /\ JobGoto(j, IF job[j].caught THEN "recover" ELSE Retried(j))
    /\ UNCHANGED <<scheduler, upload, usage, erasure, storage, request,
                   quotaLock, sweep, calls, history>>

\* The catch block gives the upload back, if it is still being scanned.
RecoverScan(j) ==
    /\ JobAt(j, "recover")
    /\ upload' = IF upload[j[1]].status = "SCANNING"
                 THEN [upload EXCEPT ![j[1]].status = "QUARANTINED",
                                     ![j[1]].verdict = "ERROR"]
                 ELSE upload
    /\ JobGoto(j, Retried(j))
    /\ UNCHANGED <<scheduler, usage, erasure, storage, request, quotaLock, sweep,
                   calls, faults, history>>

-----------------------------------------------------------------------------
(* createUploadDownload and deleteUpload.                                   *)

CreateUploadDownload(r, u) ==
    /\ upload[u].status = "READY"
    /\ Call(r, [Idle EXCEPT !.step = "open", !.id = u])
    /\ UNCHANGED <<scheduler, rows, storage, quotaLock, sweep, faults, history>>

OpenDownload(r) ==
    LET c == StoredObject(request[r].id)
    IN  /\ At(r, "open")
        /\ IF c = "none" THEN End(r)
           ELSE request' = [request EXCEPT ![r].step = "charge", ![r].content = c]
        /\ UNCHANGED <<scheduler, rows, storage, quotaLock, sweep, calls, faults,
                       history>>

\* chargeQuota creates the row of the month, or increments it in one statement
\* if the quota leaves room.
Fits == usage = -1 \/ usage <= BandwidthQuota - 1

\* The opened stream is charged before it is handed out, else destroyed.
ChargeQuota(r) ==
    /\ At(r, "charge")
    /\ usage' = IF usage = -1 THEN 1 ELSE IF Fits THEN usage + 1 ELSE usage
    /\ downloads' = IF Fits THEN downloads + 1 ELSE downloads
    /\ End(r)
    /\ UNCHANGED <<scheduler, upload, job, erasure, storage, quotaLock, sweep,
                   calls, faults, purged, revived, late>>

DeleteUpload(r, u) ==
    /\ Exists(u)
    /\ Call(r, [Idle EXCEPT !.step = "delete", !.id = u])
    /\ UNCHANGED <<scheduler, rows, storage, quotaLock, sweep, faults, history>>

DeleteStoredObject(r) ==
    /\ At(r, "delete")
    /\ DeleteObject(request[r].id)
    /\ Goto(r, "gone")
    /\ UNCHANGED <<scheduler, rows, quotaLock, sweep, calls, faults>>

MarkDeleted(r) ==
    /\ At(r, "gone")
    /\ upload' = [upload EXCEPT ![request[r].id].status = "DELETED"]
    /\ End(r)
    /\ UNCHANGED <<scheduler, job, usage, erasure, storage, quotaLock, sweep,
                   calls, faults, history>>

-----------------------------------------------------------------------------
(* Erasure of the account.                                                  *)

\* deleteAccount lists the uploads before its transaction ...
DeleteAccount(r) ==
    /\ Call(r, [Idle EXCEPT !.step = "erase",
                            !.list = {u \in Ids : upload[u].status \in Counted}])
    /\ UNCHANGED <<scheduler, rows, storage, quotaLock, sweep, faults, history>>

\* ... which throws when one of them was deleted meanwhile.
EraseUploads(r) ==
    /\ At(r, "erase")
    /\ IF erasure.state # "none" \/ \E u \in request[r].list : Deleted(u)
       THEN UNCHANGED <<upload, usage, erasure, downloads>>
       ELSE /\ upload' = [u \in Ids |->
                            IF u \in request[r].list
                            THEN [upload[u] EXCEPT !.status = "DELETED"]
                            ELSE upload[u]]
            /\ usage' = -1 /\ downloads' = 0
            /\ erasure' = Settled("requested")
    /\ End(r)
    /\ UNCHANGED <<scheduler, job, storage, quotaLock, sweep, calls, faults,
                   purged, revived, late>>

\* Mutant: the worker looks for the uploads that still can be downloaded.
ReadyForErasure == {u \in Ids : upload[u].status = "READY"}

\* What the worker's query returns.
ToErase == {u \in Ids : Deleted(u) /\ ~upload[u].storageDeleted}

\* processAccountErasure deletes one object after the other and marks its row.
EraseObject(u) ==
    /\ erasure.state = "requested" /\ erasure.id = NoId
    /\ u \in ToErase
    /\ DeleteObject(u)
    /\ erasure' = [erasure EXCEPT !.id = u]
    /\ UNCHANGED <<scheduler, upload, job, usage, request, quotaLock, sweep,
                   calls, faults>>

MarkErased ==
    /\ erasure.id # NoId
    /\ upload' = [upload EXCEPT ![erasure.id].storageDeleted = TRUE]
    /\ erasure' = [erasure EXCEPT !.id = NoId]
    /\ UNCHANGED <<scheduler, job, usage, storage, request, quotaLock, sweep,
                   calls, faults, history>>

\* The attempt throws: Stripe or its client before the loop, no provider or the
\* wrong one, the deletion, or the update that follows it.  The next attempt
\* lists again what has no mark, and after the last one the event is dead.
EraseFails ==
    /\ erasure.state = "requested"
    /\ erasure' = IF erasure.attempts + 1 < MaxAttempts
                  THEN [erasure EXCEPT !.id = NoId, !.attempts = @ + 1]
                  ELSE Settled("dead")
    /\ UNCHANGED <<scheduler, upload, job, usage, storage, request, quotaLock,
                   sweep, calls, faults, history>>

EraseEnds ==
    /\ erasure.state = "requested" /\ erasure.id = NoId
    /\ ToErase = {}
    /\ erasure' = Settled("done")
    /\ UNCHANGED <<scheduler, upload, job, usage, storage, request, quotaLock,
                   sweep, calls, faults, history>>

-----------------------------------------------------------------------------
(* expirePendingUploads, the handler of the retention-cleanup job.          *)

\* The deletions of runRetentionCleanup that follow touch other rows.
Sweeping == UNCHANGED <<upload, storage, purged>>
Elsewhere == UNCHANGED <<job, usage, erasure, request, quotaLock, calls, revived,
                         late, downloads>>

ListExpired(w) ==
    /\ run[w].handler /\ ~run[w].aborted /\ ~sweep[w].listed
    /\ sweep' = [sweep EXCEPT ![w] =
                   [listed |-> TRUE, id |-> NoId,
                    todo |-> {u \in expired : upload[u].status = "PENDING"}]]
    /\ UNCHANGED <<scheduler, faults>> /\ Sweeping /\ Elsewhere

\* The signal is looked at before each object, then the object is deleted, ...
ExpireObject(w, u) ==
    /\ run[w].handler /\ ~run[w].aborted
    /\ u \in sweep[w].todo /\ sweep[w].id = NoId
    /\ DeleteObject(u)
    /\ sweep' = [sweep EXCEPT ![w].id = u]
    /\ UNCHANGED <<scheduler, upload, job, usage, erasure, request, quotaLock,
                   calls, faults>>

\* ... and its row FAILED, if it is still pending.
ExpireRow(w) ==
    LET u == sweep[w].id
    IN  /\ run[w].handler /\ u # NoId
        /\ upload' = IF upload[u].status = "PENDING"
                     THEN [upload EXCEPT ![u].status = "FAILED"] ELSE upload
        /\ sweep' = [sweep EXCEPT ![w].id = NoId, ![w].todo = @ \ {u}]
        /\ UNCHANGED <<scheduler, storage, purged, faults>> /\ Elsewhere

\* A failure is counted, and the next upload is taken.
ExpireFails(w, u) ==
    /\ run[w].handler /\ ~run[w].aborted
    /\ u \in sweep[w].todo /\ sweep[w].id \in {NoId, u}
    /\ Spend
    /\ sweep' = [sweep EXCEPT ![w].id = NoId, ![w].todo = @ \ {u}]
    /\ UNCHANGED scheduler /\ Sweeping /\ Elsewhere

SweepEnds(w) ==
    /\ sweep[w].id = NoId
    /\ run[w].aborted \/ (sweep[w].listed /\ sweep[w].todo = {})
    /\ HandlerEnds(w)
    /\ sweep' = [sweep EXCEPT ![w] = NoSweep]
    /\ UNCHANGED faults /\ Sweeping /\ Elsewhere

\* The steps of the scheduler, with its crash.
SchedulerStep(w) ==
    /\ \/ /\ \/ Load + 3 <= MaxLoad /\ AcquireLock(w)
             \/ Timeout(w) \/ ReleaseLock(w)
          /\ UNCHANGED <<sweep, faults>>
       \/ ReleaseFails(w) /\ Spend /\ UNCHANGED sweep
       \/ SlotCrash(w) /\ Spend /\ sweep' = [sweep EXCEPT ![w] = NoSweep]
    /\ Sweeping /\ Elsewhere

ExpireLock ==
    LockExpires /\ UNCHANGED <<sweep, faults>> /\ Sweeping /\ Elsewhere

-----------------------------------------------------------------------------
RequestStep(r) ==
    \/ \E u \in Ids : \/ InitiateUpload(r, u) \/ CompleteUpload(r, u)
                      \/ CreateUploadDownload(r, u) \/ DeleteUpload(r, u)
    \/ DeleteAccount(r)
    \/ InsertUpload(r) \/ CreateUpload(r)
    \/ InspectObject(r) \/ ReadObjectPrefix(r) \/ DiscardObject(r)
    \/ MarkWrongObject(r) \/ Quarantine(r) \/ EnqueueScan(r)
    \/ OpenDownload(r) \/ ChargeQuota(r)
    \/ DeleteStoredObject(r) \/ MarkDeleted(r) \/ EraseUploads(r)

ScanStep(j) ==
    \/ TakeScan(j) \/ StartScan(j) \/ ScanUpload(j) \/ FinalizeUploadScan(j)
    \/ PurgeObject(j) \/ MarkPurged(j) \/ RecoverScan(j)

EraseStep == MarkErased \/ EraseEnds \/ \E u \in Ids : EraseObject(u)

SweepStep(w) ==
    \/ ListExpired(w) \/ ExpireRow(w) \/ SweepEnds(w) \/ SchedulerStep(w)
    \/ \E u \in Ids : ExpireObject(w, u) \/ ExpireFails(w, u)

Next ==
    \/ \E u \in Ids : PassExpiry(u) \/ \E c \in Contents : Put(u, c)
    \/ \E r \in Requests : RequestStep(r)
    \/ \E j \in JobIds : ScanStep(j) \/ ScanFails(j)
    \/ EraseStep \/ EraseFails
    \/ ExpireLock \/ \E w \in Slots : SweepStep(w)

Spec == Init /\ [][Next]_vars

\* The notification worker goes on with every scan it was given.
FairSpec == Spec /\ WF_vars(\E j \in JobIds : ScanStep(j))

-----------------------------------------------------------------------------
\* Rows, objects, jobs and requests keep their types.
TypeOK ==
    /\ SchedulerTypeOK
    /\ upload \in [Ids -> Upload]
    /\ object \in [Ids -> Contents \cup {"none"}]
    /\ job \in [JobIds -> Job]
    /\ request \in [Requests -> Request]
    /\ erasure \in Erasure
    /\ usage \in -1..BandwidthQuota /\ quotaLock \subseteq Requests

\* However many replicas initiate uploads at once, what the account stores
\* stays within its quota, except for what a late completion or scan brought
\* back from FAILED or REJECTED.
StorageWithinQuota ==
    Cardinality({u \in Ids \ revived : upload[u].status \in Counted}) <= StorageQuota

\* "concurrent downloads cannot both spend the same remaining quota."
BandwidthWithinQuota == downloads <= BandwidthQuota

\* "bytes accepted/scanned under this key cannot be replaced with a second PUT
\* afterwards": the bytes a download opens are the ones the scanner passed,
\* while nobody has deleted the object.
ServesScannedBytes ==
    \A r \in Requests :
        At(r, "charge") /\ request[r].id \notin purged
            => request[r].content = "clean"

\* A deleted upload stays deleted, whatever completion, scan or cleanup that
\* began before the deletion still has to write.
DeletedStaysDeleted ==
    [][\A u \in Ids : Deleted(u) => upload'[u].status = "DELETED"]_vars

Malicious(u) == upload[u].status = "REJECTED" /\ upload[u].verdict = "MALICIOUS"
Exhausted(u) == \E c \in Contents : JobAt(<<u, c>>, "dead")

\* "A previous attempt may have durably rejected the object and crashed during
\* provider deletion. Retry deletion": an infected object is gone in the end,
\* unless the attempts are used up or another step has rewritten the row.
MaliciousIsPurged ==
    \A u \in Sent :
        Malicious(u) ~> upload[u].storageDeleted \/ ~Malicious(u) \/ Exhausted(u)

\* "Retry-safe external half of account erasure ... this worker then converges
\* ... object storage": once the erasure is done, through attempts that threw
\* anywhere and requests still under way, no row of the account is live and the
\* object of every deleted row has been deleted.  Left out are uploads that were
\* inserted after the deletion had listed the account's, which its transaction
\* does not mark, and rows brought back from FAILED or REJECTED.
ErasureReachesStorage ==
    erasure.state = "done" =>
        \A u \in Ids : /\ upload[u].status \in Counted => u \in late \cup revived
                      /\ Deleted(u) => u \in purged

\* The invariant of the account: types, and neither quota is exceeded by requests
\* that run at once.
UploadsInv == TypeOK /\ StorageWithinQuota /\ BandwidthWithinQuota

=============================================================================
