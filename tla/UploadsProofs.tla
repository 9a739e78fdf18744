---------------------------- MODULE UploadsProofs ----------------------------
(***************************************************************************)
(* Theorems about Uploads and Scheduler, for any number of uploads, requests *)
(* and scheduler slots, and any quotas.                                     *)
(*                                                                          *)
(* The properties are not inductive.  A request writes by the id of a row it  *)
(* read some awaits ago, so the invariant says what such an id still promises *)
(* (RequestOK, JobOK): the row exists, only the holder of the quota lock has  *)
(* one that does not, and the object under it is the one that was looked at,   *)
(* as long as nobody deleted it.  The quota is kept by the holder of the lock, *)
(* which has room for one more upload (QuotaOK).  For the erasure, what a      *)
(* deletion under way has listed is every live row but those inserted since,   *)
(* and whoever is about to mark a row has deleted its object (ErasureInv).     *)
(***************************************************************************)
EXTENDS Uploads, FiniteSetTheorems, TLAPS

SweepState == [listed: BOOLEAN, todo: SUBSET Ids, id: Ids \cup {NoId}]

\* What TypeOK leaves out.
TypesOK ==
    /\ TypeOK
    /\ sweep \in [Slots -> SweepState]
    /\ signed \subseteq Ids /\ expired \subseteq Ids

\* Requests whose row is there.
RowSteps == {"sign", "inspect", "prefix", "discard", "discardType", "fail", "reject",
             "quarantine", "enqueue", "delete", "gone", "open", "charge"}

\* What a request still knows of the row it works on, and of its object.
RequestOK(r) ==
    LET q == request[r]
        u == q.id
    IN  /\ q.step = "insert" =>
              u \in Ids /\ quotaLock = {r} /\ upload[u].status = "NONE"
        /\ q.step \in RowSteps => u \in Ids /\ upload[u].status # "NONE"
        /\ \A v \in q.list : upload[v].status # "NONE"
        /\ q.step \in {"prefix", "quarantine", "enqueue"} => q.content \in Contents
        /\ q.step \in {"quarantine", "enqueue"} /\ u \notin purged =>
              object[u] \in {"clean", "infected"}
        /\ q.step = "open" /\ u \notin purged => object[u] = "clean"
        /\ q.step = "charge" /\ u \notin purged => q.content = "clean"

\* What a scan job knows: its row is there, and the object it scanned stays.
JobOK(j) ==
    /\ job[j].step # "none" =>
          /\ upload[j[1]].status # "NONE"
          /\ j[1] \notin purged => object[j[1]] \in {"clean", "infected"}
    /\ job[j].step = "queued" => job[j].attempts < MaxAttempts
    /\ job[j].step = "finalize" /\ job[j].verdict = "CLEAN" /\ j[1] \notin purged =>
          object[j[1]] = "clean"

RowOK(u) == upload[u].status = "READY" /\ u \notin purged => object[u] = "clean"

Stored == {u \in Ids \ revived : upload[u].status \in Counted}

\* The holder of the lock has room for the row it inserts; every answered
\* download is in the row of the month.
QuotaOK ==
    /\ Cardinality(Stored) <= StorageQuota
    /\ quotaLock # {} => Cardinality(Stored) < StorageQuota
    /\ downloads = IF usage = -1 THEN 0 ELSE usage

AccountInv ==
    /\ TypesOK /\ RunHoldsLock /\ QuotaOK
    /\ \A r \in Requests : RequestOK(r)
    /\ \A j \in JobIds : JobOK(j)
    /\ \A u \in Ids : RowOK(u)

-----------------------------------------------------------------------------
(* The scheduler.                                                           *)

SchedulerOK == SchedulerTypeOK /\ RunHoldsLock

\* A step of one slot that is not the start of a run.
LEMMA SlotWrite ==
    ASSUME SchedulerOK, NEW w \in Slots, NEW v \in Run, run' = [run EXCEPT ![w] = v],
           v.state = "running" => run[w].state = "running",
           lock' = lock \/ (lock' = NoSlot /\ lock = w /\ v.state # "running"),
           UNCHANGED ticks
    PROVE  SchedulerOK'
<1>1. /\ run' \in [Slots -> Run] /\ run'[w] = v
      /\ \A x \in Slots \ {w} : run'[x] = run[x]
  BY DEF SchedulerOK, SchedulerTypeOK
<1>2. SchedulerTypeOK'
  BY <1>1 DEF SchedulerOK, SchedulerTypeOK
<1>3. RunHoldsLock'
  BY <1>1 DEF SchedulerOK, RunHoldsLock
<1> QED
  BY <1>2, <1>3 DEF SchedulerOK

\* Every step of the scheduler keeps the lock with the run that is in time.
LEMMA SchedulerKeeps ==
    ASSUME SchedulerOK, NEW w \in Slots
    PROVE  /\ AcquireLock(w) => SchedulerOK'
           /\ Timeout(w) => SchedulerOK'
           /\ HandlerEnds(w) => SchedulerOK'
           /\ ReleaseLock(w) => SchedulerOK'
           /\ ReleaseFails(w) => SchedulerOK'
           /\ SlotCrash(w) => SchedulerOK'
<1>1. /\ run \in [Slots -> Run] /\ run[w] \in Run /\ ticks \in 0..MaxTicks
      /\ lock \in Slots \cup {NoSlot} /\ NoSlot \notin Slots /\ MaxTicks \in Nat /\ RunHoldsLock
  BY SchedulerAssumption DEF SchedulerOK, SchedulerTypeOK
<1>2. ASSUME AcquireLock(w) PROVE SchedulerOK'
  <2> DEFINE v == [state |-> "running", handler |-> TRUE, aborted |-> FALSE]
  <2>1. /\ lock = NoSlot /\ lock' = w /\ run' = [run EXCEPT ![w] = v] /\ ticks < MaxTicks
        /\ ticks' = ticks + 1
    BY <1>2 DEF AcquireLock
  <2>2. v \in Run
    BY DEF Run
  <2> HIDE DEF v
  <2>3. run' \in [Slots -> Run] /\ \A x \in Slots \ {w} : run'[x] = run[x]
    BY <1>1, <2>1, <2>2
  <2>4. \A x \in Slots : run[x].state # "running"
    BY <1>1, <2>1 DEF RunHoldsLock
  <2>5. RunHoldsLock'
    BY <2>1, <2>3, <2>4 DEF RunHoldsLock
  <2> QED
    BY <1>1, <2>1, <2>3, <2>5 DEF SchedulerOK, SchedulerTypeOK
<1>3. ASSUME Timeout(w) PROVE SchedulerOK'
  <2> DEFINE v == [run[w] EXCEPT !.state = "releasing", !.aborted = TRUE]
  <2>1. run' = [run EXCEPT ![w] = v] /\ UNCHANGED <<lock, ticks>>
    BY <1>1, <1>3 DEF Timeout
  <2>2. v \in Run /\ v.state = "releasing"
    BY <1>1 DEF Run
  <2> HIDE DEF v
  <2> QED
    BY <2>1, <2>2, SlotWrite
<1>4. ASSUME HandlerEnds(w) PROVE SchedulerOK'
  <2> DEFINE s == IF run[w].state = "running" THEN "releasing" ELSE run[w].state
             v == [run[w] EXCEPT !.handler = FALSE, !.aborted = FALSE, !.state = s]
  <2>1. run' = [run EXCEPT ![w] = v] /\ UNCHANGED <<lock, ticks>>
    BY <1>1, <1>4 DEF HandlerEnds
  <2>2. s \in {"idle", "releasing"}
    BY <1>1 DEF Run
  <2> HIDE DEF s
  <2>3. v \in Run /\ v.state = s
    BY <1>1, <2>2 DEF Run
  <2> HIDE DEF v
  <2> QED
    BY <2>1, <2>2, <2>3, SlotWrite
<1>5. ASSUME ReleaseLock(w) \/ ReleaseFails(w) PROVE SchedulerOK'
  <2> DEFINE v == [run[w] EXCEPT !.state = "idle"]
  <2>1. /\ run' = [run EXCEPT ![w] = v] /\ UNCHANGED ticks
        /\ lock' = lock \/ (lock' = NoSlot /\ lock = w)
    BY <1>1, <1>5 DEF ReleaseLock, ReleaseFails
  <2>2. v \in Run /\ v.state = "idle"
    BY <1>1 DEF Run
  <2> HIDE DEF v
  <2> QED
    BY <2>1, <2>2, SlotWrite
<1>6. ASSUME SlotCrash(w) PROVE SchedulerOK'
  <2>1. run' = [run EXCEPT ![w] = NotRunning] /\ UNCHANGED <<lock, ticks>>
    BY <1>6 DEF SlotCrash
  <2>2. NotRunning \in Run /\ NotRunning.state = "idle"
    BY DEF Run, NotRunning
  <2> QED
    BY <2>1, <2>2, SlotWrite
<1> QED
  BY <1>2, <1>3, <1>4, <1>5, <1>6

\* The lock expires only after the run that set it is out of time.
LEMMA ExpiryKeeps ==
    ASSUME SchedulerOK, LockExpires
    PROVE  SchedulerOK'
BY DEF SchedulerOK, LockExpires, SchedulerTypeOK, RunHoldsLock

-----------------------------------------------------------------------------
(* What a step may do to rows and objects.                                  *)

\* The object is the one a scan passed, unless somebody deleted it.
Clean(u) == u \notin purged => object[u] = "clean"

\* Rows keep existing or not, become READY with a clean object only, do not come
\* back from DELETED, and none is counted again that is not recorded as revived.
RowsKeep ==
    /\ upload' \in [Ids -> Upload] /\ revived \subseteq revived'
    /\ \A u \in Ids :
          /\ upload[u].status = "NONE" <=> upload'[u].status = "NONE"
          /\ upload'[u].status = "READY" => upload[u].status = "READY" \/ Clean(u)'
          /\ upload[u].status = "DELETED" => upload'[u].status = "DELETED"
          /\ upload'[u].status \in Counted => upload[u].status \in Counted \/ u \in revived'

\* Objects are written once, unless they are deleted.
ObjectsKeep ==
    /\ object' \in [Ids -> Contents \cup {"none"}] /\ purged \subseteq purged'
    /\ \A u \in Ids \ purged' : object[u] # "none" => object'[u] = object[u]

\* A request that does not move still knows what it knew.
LEMMA RequestStays ==
    ASSUME AccountInv, RowsKeep, ObjectsKeep, NEW q \in Requests, request'[q] = request[q],
           request[q].step = "insert" => quotaLock' = quotaLock
    PROVE  RequestOK(q)'
<1>1. RequestOK(q) /\ request[q] \in Request
  BY DEF AccountInv, TypesOK, TypeOK
<1>2. request[q].list \subseteq Ids
  BY <1>1 DEF Request
<1> QED
  BY <1>1, <1>2 DEF RequestOK, RowsKeep, ObjectsKeep, RowSteps

\* Nor does a scan job forget.
LEMMA JobStays ==
    ASSUME AccountInv, RowsKeep, ObjectsKeep, NEW j \in JobIds, job'[j] = job[j]
    PROVE  JobOK(j)'
<1>1. JobOK(j) /\ j[1] \in Ids
  BY DEF AccountInv, JobIds
<1> QED
  BY <1>1 DEF JobOK, RowsKeep, ObjectsKeep

\* Rows that are served stay clean, and no more is stored.
LEMMA RowsStay ==
    ASSUME AccountInv, RowsKeep, ObjectsKeep
    PROVE  /\ \A u \in Ids : RowOK(u)'
           /\ Cardinality(Stored') <= Cardinality(Stored)
           /\ Cardinality(Stored) \in Nat /\ Cardinality(Stored') \in Nat
           /\ \A u \in Ids : Deleted(u) => Deleted(u)'
<1>1. \A u \in Ids : RowOK(u)'
  BY DEF AccountInv, RowOK, RowsKeep, ObjectsKeep, Clean
<1>2. Stored' \subseteq Stored
  BY DEF Stored, RowsKeep
<1>3. IsFiniteSet(Stored) /\ IsFiniteSet(Stored')
  BY UploadsAssumption, FS_Subset DEF Stored
<1> QED
  BY <1>1, <1>2, <1>3, FS_Subset, FS_CardinalityType DEF RowsKeep, Deleted

\* One request moves.
LEMMA RequestMoves ==
    ASSUME AccountInv, RowsKeep, ObjectsKeep, NEW r \in Requests, NEW v \in Request,
           request' = [request EXCEPT ![r] = v], request'[r] = v => RequestOK(r)',
           \A q \in Requests \ {r} : request[q].step = "insert" => quotaLock' = quotaLock
    PROVE  request' \in [Requests -> Request] /\ \A q \in Requests : RequestOK(q)'
<1>1. request \in [Requests -> Request]
  BY DEF AccountInv, TypesOK, TypeOK
<1>2. /\ request' \in [Requests -> Request] /\ request'[r] = v
      /\ \A q \in Requests \ {r} : request'[q] = request[q]
  BY <1>1
<1>3. ASSUME NEW q \in Requests PROVE RequestOK(q)'
  <2>1. CASE q = r
    BY <1>2, <2>1
  <2>2. CASE q # r
    BY <1>2, <2>2, RequestStays
  <2> QED
    BY <2>1, <2>2
<1> QED
  BY <1>2, <1>3

\* One scan job moves.
LEMMA JobMoves ==
    ASSUME AccountInv, RowsKeep, ObjectsKeep, NEW j \in JobIds, NEW v \in Job,
           job' = [job EXCEPT ![j] = v], job'[j] = v => JobOK(j)'
    PROVE  job' \in [JobIds -> Job] /\ \A k \in JobIds : JobOK(k)'
<1>1. job \in [JobIds -> Job]
  BY DEF AccountInv, TypesOK, TypeOK
<1>2. /\ job' \in [JobIds -> Job] /\ job'[j] = v
      /\ \A k \in JobIds \ {j} : job'[k] = job[k]
  BY <1>1
<1>3. ASSUME NEW k \in JobIds PROVE JobOK(k)'
  <2>1. CASE k = j
    BY <1>2, <2>1
  <2>2. CASE k # j
    BY <1>2, <2>2, JobStays
  <2> QED
    BY <2>1, <2>2
<1> QED
  BY <1>2, <1>3


RequestsOK == request \in [Requests -> Request] /\ \A r \in Requests : RequestOK(r)
JobsOK == job \in [JobIds -> Job] /\ \A j \in JobIds : JobOK(j)

\* What no row and no object has to do with.
OthersOK ==
    /\ SchedulerOK /\ sweep \in [Slots -> SweepState]
    /\ signed \subseteq Ids /\ expired \subseteq Ids
    /\ erasure \in Erasure /\ usage \in -1..BandwidthQuota
    /\ downloads = IF usage = -1 THEN 0 ELSE usage

\* The goal for every step: the invariant, and deleted uploads stay deleted.
Kept == AccountInv' /\ \A u \in Ids : Deleted(u) => Deleted(u)'

\* The parts make the invariant.
LEMMA Assemble ==
    ASSUME AccountInv, RowsKeep, ObjectsKeep, RequestsOK', JobsOK', OthersOK',
           quotaLock' \subseteq quotaLock
    PROVE  Kept
<1>1. TypesOK'
  BY DEF AccountInv, TypesOK, TypeOK, RowsKeep, ObjectsKeep, RequestsOK, JobsOK, OthersOK,
     SchedulerOK
<1>2. QuotaOK'
  <2>1. StorageQuota \in Nat
    BY UploadsAssumption
  <2> QED
    BY <2>1, RowsStay DEF AccountInv, QuotaOK, OthersOK
<1> QED
  BY <1>1, <1>2, RowsStay DEF AccountInv, Kept, RequestsOK, JobsOK, OthersOK, SchedulerOK

\* The parts that stay as they are.
LEMMA SamePart ==
    ASSUME AccountInv
    PROVE  /\ UNCHANGED <<upload, revived>> => RowsKeep
           /\ UNCHANGED <<object, purged>> => ObjectsKeep
           /\ RowsKeep /\ ObjectsKeep /\ UNCHANGED <<request, quotaLock>> => RequestsOK'
           /\ RowsKeep /\ ObjectsKeep /\ UNCHANGED job => JobsOK'
           /\ UNCHANGED <<lock, run, ticks, sweep, signed, expired, erasure, usage, downloads>>
                => OthersOK'
           /\ OthersOK /\ quotaLock \subseteq Requests
<1>1. /\ RowsKeep /\ ObjectsKeep /\ UNCHANGED <<request, quotaLock>> => RequestsOK'
      /\ RowsKeep /\ ObjectsKeep /\ UNCHANGED job => JobsOK'
  BY RequestStays, JobStays DEF RequestsOK, JobsOK, AccountInv, TypesOK, TypeOK
<1>2. /\ UNCHANGED <<upload, revived>> => RowsKeep
      /\ UNCHANGED <<object, purged>> => ObjectsKeep
  BY DEF RowsKeep, ObjectsKeep, AccountInv, TypesOK, TypeOK
<1>3. OthersOK /\ quotaLock \subseteq Requests
  BY DEF OthersOK, AccountInv, TypesOK, TypeOK, QuotaOK, SchedulerOK
<1>4. UNCHANGED <<lock, run, ticks, sweep, signed, expired, erasure, usage, downloads>> => OthersOK'
  BY <1>3 DEF OthersOK, SchedulerOK, SchedulerTypeOK, RunHoldsLock
<1> QED
  BY <1>1, <1>2, <1>3, <1>4

\* One row is written that is there and not deleted.
LEMMA RowWrite ==
    ASSUME AccountInv, NEW u \in Ids, NEW v \in Upload, upload' = [upload EXCEPT ![u] = v],
           revived \subseteq revived',
           upload[u].status = "NONE" <=> v.status = "NONE",
           v.status = "READY" => upload[u].status = "READY" \/ Clean(u)',
           upload[u].status = "DELETED" => v.status = "DELETED",
           v.status \in Counted => upload[u].status \in Counted \/ u \in revived'
    PROVE  RowsKeep
<1>1. upload \in [Ids -> Upload]
  BY DEF AccountInv, TypesOK, TypeOK
<1>2. /\ upload' \in [Ids -> Upload] /\ upload'[u] = v
      /\ \A x \in Ids \ {u} : upload'[x] = upload[x]
  BY <1>1
<1> QED
  BY <1>2 DEF RowsKeep

\* upload.update of the status and the verdict.
LEMMA StatusWrite ==
    ASSUME AccountInv, NEW u \in Ids, NEW s \in Status \ {"NONE"}, s = "READY" => Clean(u)',
           NEW d \in {"none", "CLEAN", "MALICIOUS", "SIGNATURE_MISMATCH", "ERROR"},
           SetStatus(u, s, d), upload[u].status \notin {"NONE", "DELETED"}
    PROVE  RowsKeep
<1> DEFINE v == [upload[u] EXCEPT !.status = s, !.verdict = d]
<1>1. upload \in [Ids -> Upload] /\ upload[u] \in Upload
  BY DEF AccountInv, TypesOK, TypeOK
<1>2. /\ upload' = [upload EXCEPT ![u] = v]
      /\ revived' = IF upload[u].status \in {"FAILED", "REJECTED"} /\ s \in Counted
                    THEN revived \cup {u} ELSE revived
  BY <1>1 DEF SetStatus
<1>3. v \in Upload /\ v.status = s
  BY <1>1 DEF Upload
<1> HIDE DEF v
<1>4. upload[u].status \in Status
  BY <1>1 DEF Upload
<1>5. s \in Counted => upload[u].status \in Counted \/ u \in revived'
  BY <1>2, <1>4 DEF Status
<1> QED
  BY <1>2, <1>3, <1>5, RowWrite

\* A row's status is written without the verdict, and is not counted anew.
LEMMA PlainWrite ==
    ASSUME AccountInv, NEW u \in Ids, NEW s \in Status \ {"NONE", "READY"},
           upload' = [upload EXCEPT ![u].status = s], UNCHANGED revived,
           upload[u].status # "NONE", upload[u].status = "DELETED" => s = "DELETED",
           s \in Counted => upload[u].status \in Counted
    PROVE  RowsKeep
<1> DEFINE v == [upload[u] EXCEPT !.status = s]
<1>1. upload \in [Ids -> Upload] /\ upload[u] \in Upload
  BY DEF AccountInv, TypesOK, TypeOK
<1>2. upload' = [upload EXCEPT ![u] = v]
  BY <1>1
<1>3. v \in Upload /\ v.status = s
  BY <1>1 DEF Upload
<1> HIDE DEF v
<1> QED
  BY <1>2, <1>3, RowWrite

\* provider.deleteObject.
LEMMA ObjectDeleted ==
    ASSUME AccountInv, NEW u \in Ids, DeleteObject(u)
    PROVE  /\ ObjectsKeep /\ UNCHANGED <<signed, expired, revived, downloads>>
<1>1. object \in [Ids -> Contents \cup {"none"}]
  BY DEF AccountInv, TypesOK, TypeOK
<1> QED
  BY <1>1 DEF DeleteObject, ObjectsKeep

-----------------------------------------------------------------------------
(* Storage, requests that arrive and requests that read.                    *)

\* A client puts an object, or a URL expires.
LEMMA StorageKeeps ==
    ASSUME AccountInv, NEW u \in Ids
    PROVE  /\ \A c \in Contents : Put(u, c) => Kept
           /\ PassExpiry(u) => Kept
<1>1. ASSUME NEW c \in Contents, Put(u, c) PROVE Kept
  <2>1. /\ object[u] = "none" /\ object' = [object EXCEPT ![u] = c]
        /\ UNCHANGED <<upload, revived, request, quotaLock, job, purged>>
        /\ UNCHANGED <<lock, run, ticks, sweep, signed, expired, erasure, usage, downloads>>
    BY <1>1 DEF Put, scheduler, rows, history
  <2>2. object \in [Ids -> Contents \cup {"none"}]
    BY DEF AccountInv, TypesOK, TypeOK
  <2>3. RowsKeep /\ ObjectsKeep
    BY <2>1, <2>2, SamePart DEF ObjectsKeep
  <2> QED
    BY <2>1, <2>3, SamePart, Assemble
<1>2. ASSUME PassExpiry(u) PROVE Kept
  <2>1. /\ UNCHANGED <<upload, revived, request, quotaLock, job, object, purged>>
        /\ UNCHANGED <<lock, run, ticks, sweep, erasure, usage, downloads>>
        /\ expired' = expired \cup {u} /\ signed' = signed \ {u}
    BY <1>2 DEF PassExpiry, scheduler, rows, history
  <2>2. OthersOK'
    <3>1. OthersOK
      BY SamePart
    <3>2. SchedulerOK'
      BY <2>1, <3>1 DEF OthersOK, SchedulerOK, SchedulerTypeOK, RunHoldsLock
    <3> QED
      BY <2>1, <3>1, <3>2 DEF OthersOK
  <2>3. RowsKeep /\ ObjectsKeep
    BY <2>1, SamePart
  <2> QED
    BY <2>1, <2>2, <2>3, SamePart, Assemble
<1> QED
  BY <1>1, <1>2

\* A request arrives for a row that is there.
LEMMA CallsKeep ==
    ASSUME AccountInv, NEW r \in Requests
    PROVE  /\ \A u \in Ids : CompleteUpload(r, u) => Kept
           /\ \A u \in Ids : CreateUploadDownload(r, u) => Kept
           /\ \A u \in Ids : DeleteUpload(r, u) => Kept
           /\ DeleteAccount(r) => Kept
<1>1. ASSUME NEW v \in Request, request' = [request EXCEPT ![r] = v],
             request'[r] = v => RequestOK(r)',
             UNCHANGED <<scheduler, rows, storage, quotaLock, sweep, faults, history>>
      PROVE  Kept
  <2>1. /\ UNCHANGED <<upload, revived, quotaLock, job, object, purged>>
        /\ UNCHANGED <<lock, run, ticks, sweep, signed, expired, erasure, usage, downloads>>
    BY <1>1 DEF scheduler, rows, history, storage
  <2>2. RowsKeep /\ ObjectsKeep
    BY <2>1, SamePart
  <2>3. RequestsOK'
    BY <1>1, <2>1, <2>2, RequestMoves DEF RequestsOK
  <2> QED
    BY <2>1, <2>2, <2>3, SamePart, Assemble
<1>2. ASSUME NEW u \in Ids, NEW s \in {"inspect", "open", "delete"},
             request' = [request EXCEPT ![r] = [Idle EXCEPT !.step = s, !.id = u]],
             upload[u].status # "NONE", s = "open" => upload[u].status = "READY",
             UNCHANGED <<scheduler, rows, storage, quotaLock, sweep, faults, history>>
      PROVE  Kept
  <2> DEFINE v == [Idle EXCEPT !.step = s, !.id = u]
  <2>1. v \in Request /\ v.step = s /\ v.id = u /\ v.list = {}
    BY DEF Idle, Request
  <2>2. request' = [request EXCEPT ![r] = v]
    BY <1>2
  <2> HIDE DEF v
  <2>3. UNCHANGED <<upload, object, purged>>
    BY <1>2 DEF rows, storage, history
  <2>4. RowOK(u)
    BY DEF AccountInv
  <2>5. request'[r] = v => RequestOK(r)'
    <3>1. upload[u].status # "NONE" /\ (s = "open" /\ u \notin purged => object[u] = "clean")
      BY <1>2, <2>4 DEF RowOK
    <3>2. s \in {"inspect", "open", "delete"}
      BY <1>2
    <3> QED
      BY <2>1, <2>3, <3>1, <3>2 DEF RequestOK, RowSteps
  <2> QED
    BY <1>1, <1>2, <2>1, <2>2, <2>5
<1>3. ASSUME NEW u \in Ids, CompleteUpload(r, u) PROVE Kept
  BY <1>2, <1>3 DEF CompleteUpload, Call
<1>4. ASSUME NEW u \in Ids, CreateUploadDownload(r, u) PROVE Kept
  BY <1>2, <1>4 DEF CreateUploadDownload, Call
<1>5. ASSUME NEW u \in Ids, DeleteUpload(r, u) PROVE Kept
  BY <1>2, <1>5 DEF DeleteUpload, Call, Exists
<1>6. ASSUME DeleteAccount(r) PROVE Kept
  <2> DEFINE l == {u \in Ids : upload[u].status \in Counted}
             v == [Idle EXCEPT !.step = "erase", !.list = l]
  <2>1. /\ request' = [request EXCEPT ![r] = v]
        /\ UNCHANGED <<scheduler, rows, storage, quotaLock, sweep, faults, history>>
    BY <1>6 DEF DeleteAccount, Call
  <2>2. l \in SUBSET Ids /\ \A x \in l : upload[x].status # "NONE"
    BY DEF Counted
  <2> HIDE DEF l
  <2>3. v \in Request /\ v.step = "erase" /\ v.list = l
    BY <2>2 DEF Idle, Request
  <2> HIDE DEF v
  <2>4. UNCHANGED upload
    BY <2>1 DEF rows
  <2>5. request'[r] = v => RequestOK(r)'
    BY <2>2, <2>3, <2>4 DEF RequestOK, RowSteps
  <2> QED
    BY <1>1, <2>1, <2>3, <2>5
<1> QED
  BY <1>3, <1>4, <1>5, <1>6

-----------------------------------------------------------------------------
(* Requests under way.                                                      *)

\* A request moves, with what it does to rows and objects.
LEMMA RequestActs ==
    ASSUME AccountInv, RowsKeep, ObjectsKeep, OthersOK', NEW r \in Requests,
           NEW v \in Request, request' = [request EXCEPT ![r] = v],
           request'[r] = v => RequestOK(r)', UNCHANGED <<job, quotaLock>>
    PROVE  Kept
<1>1. RequestsOK'
  BY RequestMoves DEF RequestsOK
<1> QED
  BY <1>1, SamePart, Assemble

\* A request ends.
LEMMA RequestEnds ==
    ASSUME AccountInv, RowsKeep, ObjectsKeep, OthersOK', NEW r \in Requests, End(r),
           UNCHANGED <<job, quotaLock>>
    PROVE  Kept
<1> DEFINE v == Idle
<1>1. v \in Request /\ v.step = "idle" /\ v.list = {}
  BY DEF Idle, Request
<1>2. request' = [request EXCEPT ![r] = v]
  BY DEF End
<1> HIDE DEF v
<1>3. request'[r] = v => RequestOK(r)'
  BY <1>1 DEF RequestOK, RowSteps
<1> QED
  BY <1>1, <1>2, <1>3, RequestActs

Steps == {"idle", "insert", "sign", "inspect", "prefix", "discard",
          "discardType", "fail", "reject", "quarantine", "enqueue", "delete", "gone",
          "open", "charge", "erase"}

\* A request takes the next step, and may have read an object for it.
LEMMA RequestGoes ==
    ASSUME AccountInv, RowsKeep, ObjectsKeep, OthersOK', NEW r \in Requests,
           NEW s \in RowSteps, NEW c \in Contents \cup {"none"},
           \/ request' = [request EXCEPT ![r].content = c, ![r].step = s]
           \/ request' = [request EXCEPT ![r].step = s, ![r].content = c]
           \/ Goto(r, s) /\ c = request[r].content,
           request[r].step \in RowSteps,
           s \in {"prefix", "quarantine", "enqueue"} => c \in Contents,
           s \in {"quarantine", "enqueue"} /\ request[r].id \notin purged' =>
               object'[request[r].id] \in {"clean", "infected"},
           s # "open",
           s = "charge" /\ request[r].id \notin purged' => c = "clean",
           UNCHANGED <<job, quotaLock>>
    PROVE  Kept
<1> DEFINE v == [request[r] EXCEPT !.step = s, !.content = c]
<1>1. request \in [Requests -> Request] /\ request[r] \in Request
  BY DEF AccountInv, TypesOK, TypeOK
<1>2. s \in Steps
  BY DEF Steps, RowSteps
<1>3. request' = [request EXCEPT ![r] = v]
  BY <1>1 DEF Goto, Request
<1>4. v \in Request
  BY <1>1, <1>2 DEF Request, Steps
<1>5. /\ v.step = s /\ v.content = c /\ v.id = request[r].id /\ v.list = request[r].list
  BY <1>1 DEF Request
<1> HIDE DEF v
<1>6. request[r].list \subseteq Ids
  BY <1>1 DEF Request
<1>7. RequestOK(r)
  BY DEF AccountInv
<1>8. /\ v.id \in Ids /\ upload'[v.id].status # "NONE"
      /\ \A x \in v.list : upload'[x].status # "NONE"
  BY <1>5, <1>6, <1>7 DEF RequestOK, RowsKeep
<1>9. s # "insert"
  BY DEF RowSteps
<1>10. request'[r] = v => RequestOK(r)'
  BY <1>5, <1>8, <1>9 DEF RequestOK
<1> QED
  BY <1>3, <1>4, <1>10, RequestActs

\* What a request at work on a row knows of it.
LEMMA RequestKnows ==
    ASSUME AccountInv, NEW r \in Requests
    PROVE  /\ request[r] \in Request /\ request[r].content \in Contents \cup {"none"}
           /\ request[r].list \subseteq Ids
           /\ \A u \in Ids : upload[u] \in Upload /\ upload[u].status \in Status
           /\ \A u \in Ids : object[u] \in Contents \cup {"none"}
           /\ request[r].step \in RowSteps =>
                 request[r].id \in Ids /\ upload[request[r].id].status # "NONE"
<1>1. request[r] \in Request /\ RequestOK(r)
  BY DEF AccountInv, TypesOK, TypeOK
<1>2. \A u \in Ids : upload[u] \in Upload /\ object[u] \in Contents \cup {"none"}
  BY DEF AccountInv, TypesOK, TypeOK
<1> QED
  BY <1>1, <1>2 DEF Request, Upload, RequestOK

\* A request reads the object of its row.
LEMMA ReadsKeep ==
    ASSUME AccountInv, NEW r \in Requests
    PROVE  /\ InspectObject(r) => Kept
           /\ ReadObjectPrefix(r) => Kept
           /\ OpenDownload(r) => Kept
<1>1. ASSUME UNCHANGED <<scheduler, rows, storage, quotaLock, sweep, calls, faults, history>>
      PROVE  RowsKeep /\ ObjectsKeep /\ OthersOK' /\ UNCHANGED <<object, purged, job, quotaLock>>
  <2>1. /\ UNCHANGED <<upload, revived, quotaLock, job, object, purged>>
        /\ UNCHANGED <<lock, run, ticks, sweep, signed, expired, erasure, usage, downloads>>
    BY <1>1 DEF scheduler, rows, history, storage
  <2> QED
    BY <2>1, SamePart
<1> DEFINE c == object[request[r].id]
<1>2. ASSUME InspectObject(r) PROVE Kept
  <2>1. /\ request[r].step \in RowSteps /\ c \in Contents \cup {"none"}
        /\ {"prefix", "discard"} \subseteq RowSteps
    BY <1>2, RequestKnows DEF InspectObject, At, RowSteps
  <2>2. /\ RowsKeep /\ ObjectsKeep /\ OthersOK' /\ UNCHANGED <<job, quotaLock>>
    BY <1>1, <1>2 DEF InspectObject
  <2>3. \/ End(r)
        \/ c # "none" /\ request' = [request EXCEPT ![r].content = c, ![r].step = "prefix"]
        \/ c = "wrong" /\ request' = [request EXCEPT ![r].content = c, ![r].step = "discard"]
    BY <1>2 DEF InspectObject, StoredObject
  <2> HIDE DEF c
  <2>4. CASE End(r)
    BY <2>2, <2>4, RequestEnds
  <2>5. CASE c # "none" /\ request' = [request EXCEPT ![r].content = c, ![r].step = "prefix"]
    <3>1. c \in Contents
      BY <2>1, <2>5
    <3> QED
      BY <2>1, <2>2, <2>5, <3>1, RequestGoes
  <2>6. CASE c = "wrong" /\ request' = [request EXCEPT ![r].content = c, ![r].step = "discard"]
    BY <2>1, <2>2, <2>6, RequestGoes
  <2> QED
    BY <2>3, <2>4, <2>5, <2>6
<1>3. ASSUME ReadObjectPrefix(r) PROVE Kept
  <2>1. /\ request[r].step = "prefix" /\ c \in Contents \cup {"none"} /\ "prefix" \in RowSteps
        /\ {"discardType", "quarantine"} \subseteq RowSteps
    BY <1>3, RequestKnows DEF ReadObjectPrefix, At, RowSteps
  <2>2. /\ RowsKeep /\ ObjectsKeep /\ OthersOK' /\ UNCHANGED <<object, purged, job, quotaLock>>
    BY <1>1, <1>3 DEF ReadObjectPrefix
  <2>3. \/ End(r)
        \/ Goto(r, "discardType")
        \/ c \in {"clean", "infected"} /\ Goto(r, "quarantine")
    BY <1>3, <2>1 DEF ReadObjectPrefix, StoredObject, Contents
  <2>4. request[r].content \in Contents
    BY <2>1 DEF AccountInv, RequestOK
  <2>5. CASE End(r)
    BY <2>2, <2>5, RequestEnds
  <2>6. CASE Goto(r, "discardType")
    BY <2>1, <2>2, <2>4, <2>6, RequestGoes
  <2>7. CASE c \in {"clean", "infected"} /\ Goto(r, "quarantine")
    <3>1. object'[request[r].id] \in {"clean", "infected"}
      BY <2>2, <2>7
    <3> QED
      BY <2>1, <2>2, <2>4, <2>7, <3>1, RequestGoes
  <2> QED
    BY <2>3, <2>5, <2>6, <2>7
<1>4. ASSUME OpenDownload(r) PROVE Kept
  <2>1. /\ request[r].step = "open" /\ c \in Contents \cup {"none"} /\ "open" \in RowSteps
        /\ "charge" \in RowSteps
    BY <1>4, RequestKnows DEF OpenDownload, At, RowSteps
  <2>2. /\ RowsKeep /\ ObjectsKeep /\ OthersOK' /\ UNCHANGED <<object, purged, job, quotaLock>>
    BY <1>1, <1>4 DEF OpenDownload
  <2>3. \/ End(r)
        \/ request' = [request EXCEPT ![r].step = "charge", ![r].content = c]
    BY <1>4 DEF OpenDownload, StoredObject
  <2>4. request[r].id \notin purged' => c = "clean"
    BY <2>1, <2>2 DEF AccountInv, RequestOK
  <2> HIDE DEF c
  <2>5. CASE End(r)
    BY <2>2, <2>5, RequestEnds
  <2>6. CASE request' = [request EXCEPT ![r].step = "charge", ![r].content = c]
    BY <2>1, <2>2, <2>4, <2>6, RequestGoes
  <2> QED
    BY <2>3, <2>5, <2>6
<1> QED
  BY <1>2, <1>3, <1>4

\* A request deletes an object, and its row after.
LEMMA DeletesKeep ==
    ASSUME AccountInv, NEW r \in Requests
    PROVE  /\ DiscardObject(r) => Kept
           /\ DeleteStoredObject(r) => Kept
           /\ MarkDeleted(r) => Kept
<1>1. ASSUME request[r].step \in RowSteps, DeleteObject(request[r].id),
             UNCHANGED <<scheduler, rows, quotaLock, sweep, calls, faults>>
      PROVE  RowsKeep /\ ObjectsKeep /\ OthersOK' /\ UNCHANGED <<job, quotaLock>>
  <2>1. /\ ObjectsKeep /\ UNCHANGED <<signed, expired, revived, downloads>>
    BY <1>1, RequestKnows, ObjectDeleted
  <2>2. UNCHANGED <<upload, quotaLock, job, lock, run, ticks, sweep, erasure, usage>>
    BY <1>1 DEF scheduler, rows
  <2> QED
    BY <2>1, <2>2, SamePart
<1>2. ASSUME NEW s \in RowSteps, s \in {"fail", "reject", "gone"}, Goto(r, s),
             request[r].step \in RowSteps,
             RowsKeep, ObjectsKeep, OthersOK', UNCHANGED <<job, quotaLock>>
      PROVE  Kept
  <2>1. request[r].content \in Contents \cup {"none"}
    BY RequestKnows
  <2> QED
    BY <1>2, <2>1, RequestGoes
<1>3. ASSUME DiscardObject(r) PROVE Kept
  <2>1. /\ request[r].step \in RowSteps /\ {"fail", "reject"} \subseteq RowSteps
        /\ (Goto(r, "fail") \/ Goto(r, "reject"))
    BY <1>3 DEF DiscardObject, RowSteps
  <2>2. RowsKeep /\ ObjectsKeep /\ OthersOK' /\ UNCHANGED <<job, quotaLock>>
    BY <1>1, <1>3, <2>1 DEF DiscardObject
  <2> QED
    BY <1>2, <2>1, <2>2
<1>4. ASSUME DeleteStoredObject(r) PROVE Kept
  <2>1. request[r].step \in RowSteps /\ "gone" \in RowSteps /\ Goto(r, "gone")
    BY <1>4 DEF DeleteStoredObject, RowSteps, At
  <2>2. RowsKeep /\ ObjectsKeep /\ OthersOK' /\ UNCHANGED <<job, quotaLock>>
    BY <1>1, <1>4, <2>1 DEF DeleteStoredObject
  <2> QED
    BY <1>2, <2>1, <2>2
<1>5. ASSUME MarkDeleted(r) PROVE Kept
  <2>1. /\ request[r].step \in RowSteps /\ End(r)
        /\ upload' = [upload EXCEPT ![request[r].id].status = "DELETED"]
        /\ UNCHANGED <<revived, quotaLock, job, object, purged>>
        /\ UNCHANGED <<lock, run, ticks, sweep, signed, expired, erasure, usage, downloads>>
    BY <1>5 DEF MarkDeleted, RowSteps, At, scheduler, storage, history
  <2>2. "DELETED" \in Status \ {"NONE", "READY"} /\ "DELETED" \notin Counted
    BY DEF Status, Counted
  <2>3. request[r].id \in Ids /\ upload[request[r].id].status # "NONE"
    BY <2>1, RequestKnows
  <2>4. RowsKeep
    BY <2>1, <2>2, <2>3, PlainWrite
  <2> QED
    BY <2>1, <2>4, SamePart, RequestEnds
<1> QED
  BY <1>3, <1>4, <1>5

\* A request writes its row by id, after the await that told it how.
LEMMA WritesKeep ==
    ASSUME AccountInv, NEW r \in Requests
    PROVE  /\ CreateUpload(r) => Kept
           /\ MarkWrongObject(r) => Kept
           /\ Quarantine(r) => Kept
           /\ EnqueueScan(r) => Kept
<1> DEFINE u == request[r].id
<1>1. /\ {"FAILED", "REJECTED", "QUARANTINED", "SCANNING"} \subseteq Status \ {"NONE", "READY"}
      /\ "FAILED" \notin Counted /\ "REJECTED" \notin Counted
      /\ {"PENDING", "QUARANTINED"} \subseteq Counted
  BY DEF Status, Counted
<1>2. request[r].step \in RowSteps =>
        /\ u \in Ids /\ upload[u].status # "NONE"
        /\ upload[u].verdict \in {"none", "CLEAN", "MALICIOUS", "SIGNATURE_MISMATCH", "ERROR"}
  BY RequestKnows DEF Upload
<1>3. ASSUME CreateUpload(r) PROVE Kept
  <2>1. /\ request[r].step \in RowSteps /\ End(r)
        /\ UNCHANGED <<quotaLock, job, object, purged>>
        /\ UNCHANGED <<lock, run, ticks, sweep, erasure, usage, downloads>>
    BY <1>3 DEF CreateUpload, RowSteps, At, scheduler
  <2>2. /\ UNCHANGED <<upload, revived>> \/ (~Deleted(u) /\ SetStatus(u, "FAILED", upload[u].verdict))
        /\ \/ UNCHANGED <<signed, expired>>
           \/ signed' = signed \cup {u} /\ expired' = expired \ {u}
    BY <1>3 DEF CreateUpload
  <2>3. RowsKeep
    BY <1>1, <1>2, <2>1, <2>2, SamePart, StatusWrite DEF Deleted
  <2>4. OthersOK'
    <3>1. OthersOK
      BY SamePart
    <3>2. SchedulerOK'
      BY <2>1, <3>1 DEF OthersOK, SchedulerOK, SchedulerTypeOK, RunHoldsLock
    <3>3. signed' \subseteq Ids /\ expired' \subseteq Ids
      BY <1>2, <2>1, <2>2, <3>1 DEF OthersOK
    <3> QED
      BY <2>1, <3>1, <3>2, <3>3 DEF OthersOK
  <2> QED
    BY <2>1, <2>3, <2>4, SamePart, RequestEnds
<1>4. ASSUME MarkWrongObject(r) PROVE Kept
  <2>1. /\ request[r].step \in RowSteps /\ End(r)
        /\ UNCHANGED <<quotaLock, job, object, purged>>
        /\ UNCHANGED <<lock, run, ticks, sweep, signed, expired, erasure, usage, downloads>>
    BY <1>4 DEF MarkWrongObject, RowSteps, At, scheduler, storage
  <2>2. \/ UNCHANGED <<upload, revived>>
        \/ ~Deleted(u) /\ SetStatus(u, "FAILED", upload[u].verdict)
        \/ ~Deleted(u) /\ SetStatus(u, "REJECTED", "SIGNATURE_MISMATCH")
    BY <1>4 DEF MarkWrongObject
  <2>3. RowsKeep
    BY <1>1, <1>2, <2>1, <2>2, SamePart, StatusWrite DEF Deleted
  <2> QED
    BY <2>1, <2>3, SamePart, RequestEnds
<1>5. ASSUME Quarantine(r) PROVE Kept
  <2>1. /\ request[r].step = "quarantine" /\ request[r].step \in RowSteps /\ "enqueue" \in RowSteps
        /\ (End(r) \/ Goto(r, "enqueue"))
        /\ UNCHANGED <<quotaLock, job, object, purged, revived>>
        /\ UNCHANGED <<lock, run, ticks, sweep, signed, expired, erasure, usage, downloads>>
    BY <1>5 DEF Quarantine, RowSteps, At, scheduler, storage, history
  <2>2. \/ UNCHANGED <<upload, revived>>
        \/ /\ upload[u].status \in {"PENDING", "QUARANTINED"}
           /\ upload' = [upload EXCEPT ![u].status = "QUARANTINED"]
    BY <1>5, <2>1 DEF Quarantine
  <2>3. RowsKeep
    BY <1>1, <1>2, <2>1, <2>2, SamePart, PlainWrite
  <2>4. /\ ObjectsKeep /\ OthersOK'
    BY <2>1, SamePart
  <2>5. /\ request[r].content \in Contents
        /\ u \notin purged' => object'[u] \in {"clean", "infected"}
    BY <2>1 DEF AccountInv, RequestOK
  <2>6. CASE End(r)
    BY <2>1, <2>3, <2>4, <2>6, RequestEnds
  <2>7. CASE Goto(r, "enqueue")
    BY <2>1, <2>3, <2>4, <2>5, <2>7, RequestGoes
  <2> QED
    BY <2>1, <2>6, <2>7
<1>6. ASSUME EnqueueScan(r) PROVE Kept
  <2> DEFINE j == <<u, request[r].content>>
  <2>1. /\ request[r].step = "enqueue" /\ request[r].step \in RowSteps /\ End(r)
        /\ UNCHANGED <<quotaLock, object, purged>>
        /\ UNCHANGED <<lock, run, ticks, sweep, signed, expired, erasure, usage, downloads>>
    BY <1>6 DEF EnqueueScan, RowSteps, At, scheduler, storage
  <2>2. \/ UNCHANGED <<upload, revived, job>>
        \/ /\ ~Deleted(u) /\ job[j] = NoJob /\ SetStatus(u, "SCANNING", "none")
           /\ job' = [job EXCEPT ![j].step = "queued"]
    BY <1>6 DEF EnqueueScan
  <2>3. RowsKeep
    BY <1>1, <1>2, <2>1, <2>2, SamePart, StatusWrite DEF Deleted
  <2>4. ObjectsKeep /\ OthersOK'
    BY <2>1, SamePart
  <2>5. CASE UNCHANGED job
    BY <2>1, <2>3, <2>4, <2>5, RequestEnds
  <2>6. CASE job[j] = NoJob /\ job' = [job EXCEPT ![j].step = "queued"]
    <3>1. request[r].content \in Contents /\ (u \notin purged => object[u] \in {"clean", "infected"})
      BY <2>1 DEF AccountInv, RequestOK
    <3>2. PICK k \in JobIds : k = j
      BY <1>2, <2>1, <3>1 DEF JobIds
    <3>3. k[1] = u /\ job[k] = NoJob /\ job' = [job EXCEPT ![k].step = "queued"]
      BY <2>6, <3>2
    <3> HIDE DEF j
    <3>4. job \in [JobIds -> Job] /\ 0 < MaxAttempts /\ 0 \in 0..MaxAttempts
      BY UploadsAssumption DEF AccountInv, TypesOK, TypeOK
    <3> DEFINE v == [NoJob EXCEPT !.step = "queued"]
    <3>5. job' = [job EXCEPT ![k] = v]
      BY <3>3, <3>4
    <3>6. v.step = "queued" /\ v.attempts = 0
      BY DEF NoJob
    <3>7. v \in Job
      BY <3>4 DEF NoJob, Job
    <3> HIDE DEF v
    <3>8. JobsOK'
      <4>1. /\ upload'[k[1]].status # "NONE"
            /\ k[1] \notin purged' => object'[k[1]] \in {"clean", "infected"}
        BY <1>2, <2>1, <2>3, <3>1, <3>3 DEF RowsKeep
      <4>2. job'[k] = v => JobOK(k)'
        BY <3>4, <3>6, <4>1 DEF JobOK
      <4> QED
        BY <2>3, <2>4, <3>5, <3>7, <4>2, JobMoves DEF JobsOK
    <3> DEFINE x == Idle
    <3>9. x \in Request /\ x.step = "idle" /\ x.list = {} /\ request' = [request EXCEPT ![r] = x]
      BY <2>1 DEF Idle, Request, End
    <3> HIDE DEF x
    <3>10. request'[r] = x => RequestOK(r)'
      BY <3>9 DEF RequestOK, RowSteps
    <3>11. RequestsOK'
      BY <2>1, <2>3, <2>4, <3>9, <3>10, RequestMoves DEF RequestsOK
    <3> QED
      BY <2>1, <2>3, <2>4, <3>8, <3>11, Assemble
  <2> QED
    BY <2>2, <2>5, <2>6
<1> QED
  BY <1>3, <1>4, <1>5, <1>6

\* An erasure outside its attempts is one.
LEMMA SettledIsErasure ==
    ASSUME NEW s \in {"none", "requested", "done", "dead"}
    PROVE  Settled(s) \in Erasure
BY UploadsAssumption DEF Settled, Erasure

\* A download is charged; the account is erased.
LEMMA AccountKeeps ==
    ASSUME AccountInv, NEW r \in Requests
    PROVE  /\ ChargeQuota(r) => Kept
           /\ EraseUploads(r) => Kept
<1>1. OthersOK
  BY SamePart
<1>2. ASSUME ChargeQuota(r) PROVE Kept
  <2>1. /\ End(r) /\ UNCHANGED <<upload, revived, quotaLock, job, object, purged>>
        /\ UNCHANGED <<lock, run, ticks, sweep, signed, expired, erasure>>
    BY <1>2 DEF ChargeQuota, scheduler, storage
  <2>2. usage' \in -1..BandwidthQuota /\ downloads' = IF usage' = -1 THEN 0 ELSE usage'
    <3>1. /\ usage \in -1..BandwidthQuota /\ BandwidthQuota \in Nat /\ BandwidthQuota > 0
          /\ downloads = IF usage = -1 THEN 0 ELSE usage
      BY <1>1, UploadsAssumption DEF OthersOK
    <3>2. /\ usage' = IF usage = -1 THEN 1
                      ELSE IF usage <= BandwidthQuota - 1 THEN usage + 1 ELSE usage
          /\ downloads' = IF usage = -1 \/ usage <= BandwidthQuota - 1
                          THEN downloads + 1 ELSE downloads
      BY <1>2 DEF ChargeQuota, Fits
    <3> QED
      BY <3>1, <3>2
  <2>3. SchedulerOK'
    BY <1>1, <2>1 DEF OthersOK, SchedulerOK, SchedulerTypeOK, RunHoldsLock
  <2>4. OthersOK'
    BY <1>1, <2>1, <2>2, <2>3 DEF OthersOK
  <2> QED
    BY <2>1, <2>4, SamePart, RequestEnds
<1>3. ASSUME EraseUploads(r) PROVE Kept
  <2>1. /\ End(r) /\ UNCHANGED <<revived, quotaLock, job, object, purged>>
        /\ UNCHANGED <<lock, run, ticks, sweep, signed, expired>>
    BY <1>3 DEF EraseUploads, scheduler, storage
  <2>2. SchedulerOK'
    BY <1>1, <2>1 DEF OthersOK, SchedulerOK, SchedulerTypeOK, RunHoldsLock
  <2>3. CASE UNCHANGED <<upload, usage, erasure, downloads>>
    BY <2>1, <2>3, SamePart, RequestEnds
  <2>4. CASE /\ upload' = [u \in Ids |-> IF u \in request[r].list
                                         THEN [upload[u] EXCEPT !.status = "DELETED"]
                                         ELSE upload[u]]
             /\ usage' = -1 /\ downloads' = 0
             /\ erasure' = Settled("requested")
    <3>1. /\ upload \in [Ids -> Upload] /\ "DELETED" \in Status /\ "DELETED" \notin Counted
          /\ \A u \in request[r].list : upload[u].status # "NONE"
      BY DEF AccountInv, TypesOK, TypeOK, Status, Counted, RequestOK
    <3>2. ASSUME NEW u \in Ids
          PROVE  /\ upload'[u] \in Upload
                 /\ upload'[u] = upload[u] \/ (upload[u].status # "NONE" /\ upload'[u].status = "DELETED")
      <4>1. upload[u] \in Upload
        BY <3>1
      <4>2. /\ [upload[u] EXCEPT !.status = "DELETED"] \in Upload
            /\ [upload[u] EXCEPT !.status = "DELETED"].status = "DELETED"
        BY <3>1, <4>1 DEF Upload
      <4> QED
        BY <2>4, <3>1, <4>1, <4>2
    <3>3. upload' \in [Ids -> Upload]
      BY <2>4, <3>2
    <3>4. RowsKeep
      BY <2>1, <3>1, <3>2, <3>3 DEF RowsKeep
    <3>5. erasure' \in Erasure
      BY <2>4, SettledIsErasure
    <3>6. usage' \in -1..BandwidthQuota /\ downloads' = IF usage' = -1 THEN 0 ELSE usage'
      BY <2>4, UploadsAssumption
    <3>7. OthersOK'
      BY <1>1, <2>1, <2>2, <3>5, <3>6 DEF OthersOK
    <3> QED
      BY <2>1, <3>4, <3>7, SamePart, RequestEnds
  <2> QED
    BY <1>3, <2>3, <2>4 DEF EraseUploads
<1> QED
  BY <1>2, <1>3

\* Under the advisory lock the sum is read and the row is inserted.
LEMMA QuotaKeeps ==
    ASSUME AccountInv, NEW r \in Requests
    PROVE  /\ \A u \in Ids : InitiateUpload(r, u) => Kept
           /\ InsertUpload(r) => Kept
<1>1. /\ IsFiniteSet(Stored) /\ Cardinality(Stored) \in Nat /\ StorageQuota \in Nat /\ IsFiniteSet(Ids)
  BY UploadsAssumption, FS_Subset, FS_CardinalityType DEF Stored
<1>2. ASSUME NEW u \in Ids, InitiateUpload(r, u) PROVE Kept
  <2> DEFINE v == [Idle EXCEPT !.step = "insert", !.id = u]
             all == {x \in Ids : upload[x].status \in Counted}
  <2>1. /\ upload[u].status = "NONE" /\ quotaLock = {} /\ quotaLock' = {r}
        /\ Cardinality(all) < StorageQuota /\ request' = [request EXCEPT ![r] = v]
        /\ UNCHANGED <<upload, revived, job, object, purged>>
        /\ UNCHANGED <<lock, run, ticks, sweep, signed, expired, erasure, usage, downloads>>
    BY <1>2 DEF InitiateUpload, Fresh, Call, scheduler, rows, storage, history
  <2>2. v \in Request /\ v.step = "insert" /\ v.id = u /\ v.list = {}
    BY DEF Idle, Request
  <2> HIDE DEF v
  <2>3. Cardinality(Stored) < StorageQuota
    <3>1. Stored \subseteq all /\ IsFiniteSet(all)
      BY <1>1, FS_Subset DEF Stored
    <3>2. Cardinality(Stored) <= Cardinality(all) /\ Cardinality(all) \in Nat
      BY <3>1, FS_Subset, FS_CardinalityType
    <3> HIDE DEF all
    <3> QED
      BY <1>1, <2>1, <3>2
  <2> HIDE DEF all
  <2>4. RowsKeep /\ ObjectsKeep /\ OthersOK'
    BY <2>1, SamePart
  <2>5. RequestsOK'
    <3>1. request'[r] = v => RequestOK(r)'
      BY <2>1, <2>2 DEF RequestOK, RowSteps
    <3>2. \A q \in Requests \ {r} : request[q].step # "insert"
      BY <2>1 DEF AccountInv, RequestOK
    <3> QED
      BY <2>1, <2>2, <2>4, <3>1, <3>2, RequestMoves DEF RequestsOK
  <2>6. JobsOK'
    BY <2>1, <2>4, SamePart
  <2>7. QuotaOK'
    <3>1. Stored' = Stored
      BY <2>1 DEF Stored
    <3> QED
      BY <1>1, <2>3, <2>4, <3>1 DEF QuotaOK, OthersOK
  <2>8. TypesOK'
    BY <2>1, <2>4, <2>5, <2>6 DEF TypesOK, TypeOK, RowsKeep, ObjectsKeep, RequestsOK, JobsOK,
       OthersOK, SchedulerOK
  <2> QED
    BY <2>4, <2>5, <2>6, <2>7, <2>8, RowsStay
    DEF AccountInv, Kept, RequestsOK, JobsOK, OthersOK, SchedulerOK
<1>3. ASSUME InsertUpload(r) PROVE Kept
  <2> DEFINE i == request[r].id
  <2>1. /\ request[r].step = "insert" /\ upload' = [upload EXCEPT ![i].status = "PENDING"]
        /\ quotaLock' = quotaLock \ {r} /\ Goto(r, "sign")
        /\ UNCHANGED <<revived, job, object, purged>>
        /\ UNCHANGED <<lock, run, ticks, sweep, signed, expired, erasure, usage, downloads>>
    BY <1>3 DEF InsertUpload, At, scheduler, storage, history
  <2>2. i \in Ids /\ quotaLock = {r} /\ upload[i].status = "NONE"
    BY <2>1 DEF AccountInv, RequestOK
  <2>3. PICK u \in Ids : u = i
    BY <2>2
  <2> DEFINE row == [upload[u] EXCEPT !.status = "PENDING"]
             v == [request[r] EXCEPT !.step = "sign"]
  <2>4. /\ upload \in [Ids -> Upload] /\ request \in [Requests -> Request]
        /\ "PENDING" \in Status /\ "PENDING" \in Counted
        /\ upload[u] \in Upload /\ request[r] \in Request
    BY DEF AccountInv, TypesOK, TypeOK, Status, Counted
  <2>5. upload' = [upload EXCEPT ![u] = row] /\ request' = [request EXCEPT ![r] = v]
    BY <2>1, <2>3, <2>4 DEF Goto
  <2>6. row \in Upload /\ row.status = "PENDING"
    BY <2>4 DEF Upload
  <2>7. v \in Request
    BY <2>4 DEF Request
  <2>8. v.step = "sign" /\ v.id = u /\ v.list = request[r].list /\ v.list \subseteq Ids
    BY <2>3, <2>4 DEF Request
  <2> HIDE DEF row, v
  <2>9. /\ upload' \in [Ids -> Upload] /\ upload'[u].status = "PENDING"
        /\ \A x \in Ids \ {u} : upload'[x] = upload[x]
        /\ request' \in [Requests -> Request] /\ request'[r] = v
        /\ \A q \in Requests \ {r} : request'[q] = request[q]
    BY <2>4, <2>5, <2>6, <2>7
  <2>10. ASSUME NEW q \in Requests PROVE RequestOK(q)'
    <3>1. RequestOK(q) /\ request[q] \in Request
      BY <2>4 DEF AccountInv
    <3>2. request[q].list \subseteq Ids
      BY <3>1 DEF Request
    <3>3. CASE q = r
      BY <2>1, <2>8, <2>9, <3>1, <3>2, <3>3 DEF RequestOK, RowSteps
    <3>4. CASE q # r
      <4>1. request[q].step # "insert"
        BY <2>2, <3>1, <3>4 DEF RequestOK
      <4>2. \A x \in Ids : upload[x].status # "NONE" => upload'[x].status # "NONE"
        BY <2>9
      <4> QED
        BY <2>1, <2>9, <3>1, <3>2, <3>4, <4>1, <4>2 DEF RequestOK
    <3> QED
      BY <3>3, <3>4
  <2>11. ASSUME NEW j \in JobIds PROVE JobOK(j)'
    <3>1. JobOK(j) /\ j[1] \in Ids
      BY DEF AccountInv, JobIds
    <3> QED
      BY <2>1, <2>9, <3>1 DEF JobOK
  <2>12. \A x \in Ids : RowOK(x)' /\ (Deleted(x) => Deleted(x)')
    BY <2>1, <2>2, <2>3, <2>9 DEF AccountInv, RowOK, Deleted
  <2>13. OthersOK'
    BY <2>1, SamePart
  <2>14. QuotaOK'
    <3>1. Cardinality(Stored) < StorageQuota
      BY <2>2 DEF AccountInv, QuotaOK
    <3>2. Stored' \subseteq Stored \cup {u}
      BY <2>1, <2>9 DEF Stored
    <3>3. /\ IsFiniteSet(Stored \cup {u})
          /\ Cardinality(Stored \cup {u}) <= Cardinality(Stored) + 1
          /\ Cardinality(Stored \cup {u}) \in Nat
      <4> DEFINE n == Cardinality(Stored)
                 m == Cardinality(Stored \cup {u})
      <4>1. IsFiniteSet(Stored \cup {u}) /\ (m = n \/ m = n + 1)
        BY <1>1, FS_AddElement
      <4>2. n \in Nat
        BY <1>1
      <4> HIDE DEF n, m
      <4>3. m \in Nat /\ m <= n + 1
        BY <4>1, <4>2
      <4> QED
        BY <4>1, <4>3 DEF n, m
    <3>4. Cardinality(Stored') <= Cardinality(Stored \cup {u}) /\ Cardinality(Stored') \in Nat
      BY <3>2, <3>3, FS_Subset, FS_CardinalityType
    <3>5. Cardinality(Stored') <= StorageQuota
      BY <1>1, <3>1, <3>3, <3>4
    <3>6. quotaLock' = {}
      BY <2>1, <2>2
    <3> QED
      BY <2>13, <3>5, <3>6 DEF QuotaOK, OthersOK
  <2>15. TypesOK'
    <3>1. /\ object \in [Ids -> Contents \cup {"none"}] /\ job \in [JobIds -> Job]
      BY DEF AccountInv, TypesOK, TypeOK
    <3> QED
      BY <2>1, <2>2, <2>9, <2>13, <3>1 DEF TypesOK, TypeOK, OthersOK, SchedulerOK
  <2> QED
    BY <2>10, <2>11, <2>12, <2>13, <2>14, <2>15 DEF AccountInv, Kept, OthersOK, SchedulerOK
<1> QED
  BY <1>2, <1>3

-----------------------------------------------------------------------------
(* processUploadScan.                                                       *)

\* A scan job moves, with what it does to rows and objects.
LEMMA JobActs ==
    ASSUME AccountInv, RowsKeep, ObjectsKeep, OthersOK', NEW j \in JobIds,
           NEW v \in Job, job' = [job EXCEPT ![j] = v], job'[j] = v => JobOK(j)',
           UNCHANGED <<request, quotaLock>>
    PROVE  Kept
<1>1. JobsOK'
  BY JobMoves DEF JobsOK
<1> QED
  BY <1>1, SamePart, Assemble

JobSteps == {"none", "queued", "start", "scan", "finalize", "purge", "mark",
             "recover", "done", "dead"}

\* What a job under way knows.
LEMMA JobKnows ==
    ASSUME AccountInv, NEW j \in JobIds
    PROVE  /\ job \in [JobIds -> Job] /\ job[j] \in Job
           /\ job[j].attempts \in 0..MaxAttempts /\ job[j].verdict \in {"none", "CLEAN", "MALICIOUS"}
           /\ j[1] \in Ids /\ upload[j[1]] \in Upload /\ upload[j[1]].status \in Status
           /\ object[j[1]] \in Contents \cup {"none"}
           /\ job[j].step # "none" =>
                 /\ upload[j[1]].status # "NONE"
                 /\ j[1] \notin purged => object[j[1]] \in {"clean", "infected"}
<1>1. job \in [JobIds -> Job] /\ j[1] \in Ids
  BY DEF AccountInv, TypesOK, TypeOK, JobIds
<1>2. /\ job[j].attempts \in 0..MaxAttempts /\ job[j].verdict \in {"none", "CLEAN", "MALICIOUS"}
      /\ job[j] \in Job
  BY <1>1 DEF Job
<1>3. upload[j[1]] \in Upload /\ object[j[1]] \in Contents \cup {"none"}
  BY <1>1 DEF AccountInv, TypesOK, TypeOK
<1>4. upload[j[1]].status \in Status
  BY <1>3 DEF Upload
<1>5. JobOK(j)
  BY DEF AccountInv
<1> QED
  BY <1>1, <1>2, <1>3, <1>4, <1>5 DEF JobOK

\* A job takes a step that is not the one with a verdict.
LEMMA JobGoes ==
    ASSUME AccountInv, RowsKeep, ObjectsKeep, OthersOK', NEW j \in JobIds,
           NEW s \in JobSteps \ {"none", "finalize"}, JobGoto(j, s), job[j].step # "none",
           s = "queued" => job[j].attempts < MaxAttempts,
           UNCHANGED <<request, quotaLock>>
    PROVE  Kept
<1> DEFINE v == [job[j] EXCEPT !.step = s]
<1>1. job' = [job EXCEPT ![j] = v]
  BY JobKnows DEF JobGoto
<1>2. v \in Job
  BY JobKnows DEF Job, JobSteps
<1>3. v.step = s /\ v.attempts = job[j].attempts
  BY JobKnows DEF Job
<1> HIDE DEF v
<1>4. /\ upload'[j[1]].status # "NONE"
      /\ j[1] \notin purged' => object'[j[1]] \in {"clean", "infected"}
  BY JobKnows DEF RowsKeep, ObjectsKeep
<1>5. job'[j] = v => JobOK(j)'
  BY <1>3, <1>4 DEF JobOK, JobSteps
<1> QED
  BY <1>1, <1>2, <1>5, JobActs

\* A worker takes the event, fetches the object, writes the verdict.
LEMMA ScanKeeps ==
    ASSUME AccountInv, NEW j \in JobIds
    PROVE  /\ TakeScan(j) => Kept
           /\ ScanUpload(j) => Kept
           /\ FinalizeUploadScan(j) => Kept
<1>1. ASSUME UNCHANGED <<scheduler, usage, erasure, storage, request, quotaLock, sweep, calls>>,
             UNCHANGED <<purged, downloads>>
      PROVE  /\ ObjectsKeep /\ OthersOK' /\ UNCHANGED <<request, quotaLock, object, purged>>
             /\ UNCHANGED <<upload, revived>> => RowsKeep
  <2>1. /\ UNCHANGED <<quotaLock, request, object, purged>>
        /\ UNCHANGED <<lock, run, ticks, sweep, signed, expired, erasure, usage, downloads>>
    BY <1>1 DEF scheduler, storage
  <2> QED
    BY <2>1, SamePart
<1>2. ASSUME TakeScan(j) PROVE Kept
  <2> DEFINE s == NextStep(upload[j[1]])
             v == [job[j] EXCEPT !.step = s, !.caught = s = "start", !.attempts = @ + 1]
  <2>1. job' = [job EXCEPT ![j] = v] /\ job[j].step = "queued"
    BY <1>2, JobKnows DEF TakeScan, JobAt
  <2>2. s \in {"start", "purge", "done"}
    BY DEF NextStep
  <2> HIDE DEF s
  <2>3. job[j].attempts + 1 \in 0..MaxAttempts
    <3>1. MaxAttempts \in Nat /\ job[j].attempts \in 0..MaxAttempts /\ job[j].attempts < MaxAttempts
      BY <2>1, JobKnows, UploadsAssumption DEF AccountInv, JobOK
    <3> QED
      BY <3>1
  <2>4. (s = "start") \in BOOLEAN
    OBVIOUS
  <2> DEFINE n == job[j].attempts + 1
             b == s = "start"
  <2>5. v = [job[j] EXCEPT !.step = s, !.caught = b, !.attempts = n]
    BY JobKnows DEF Job
  <2>6. n \in 0..MaxAttempts /\ b \in BOOLEAN
    BY <2>3
  <2> HIDE DEF n, b, v
  <2>7. v \in Job
    BY <2>2, <2>5, <2>6, JobKnows DEF Job
  <2>8. v.step = s
    BY <2>5, JobKnows DEF Job
  <2>9. RowsKeep /\ ObjectsKeep /\ OthersOK' /\ UNCHANGED <<upload, object, purged, request, quotaLock>>
    BY <1>1, <1>2 DEF TakeScan, history
  <2>10. job'[j] = v => JobOK(j)'
    BY <2>1, <2>2, <2>8, <2>9, JobKnows DEF JobOK
  <2> QED
    BY <2>1, <2>7, <2>9, <2>10, JobActs
<1>3. ASSUME ScanUpload(j) PROVE Kept
  <2> DEFINE c == object[j[1]]
             s == IF c = "none" THEN "recover" ELSE "finalize"
             d == CASE c = "none" -> "none" [] c = "infected" -> "MALICIOUS" [] OTHER -> "CLEAN"
             v == [job[j] EXCEPT !.step = s, !.verdict = d]
  <2>1. job' = [job EXCEPT ![j] = v] /\ job[j].step = "scan"
    BY <1>3, JobKnows DEF ScanUpload, JobAt, StoredObject
  <2>2. /\ s \in {"recover", "finalize"} /\ d \in {"none", "CLEAN", "MALICIOUS"}
        /\ d = "CLEAN" => c \notin {"none", "infected"}
    OBVIOUS
  <2>3. j[1] \notin purged => c \in {"clean", "infected"}
    BY <2>1, JobKnows
  <2>4. d = "CLEAN" /\ j[1] \notin purged => object[j[1]] = "clean"
    BY <2>2, <2>3
  <2> HIDE DEF s, d
  <2>5. v \in Job
    BY <2>2, JobKnows DEF Job
  <2>6. v.step = s /\ v.verdict = d
    BY JobKnows DEF Job
  <2> HIDE DEF v
  <2>7. RowsKeep /\ ObjectsKeep /\ OthersOK' /\ UNCHANGED <<upload, object, purged, request, quotaLock>>
    BY <1>1, <1>3 DEF ScanUpload, history
  <2>8. job'[j] = v => JobOK(j)'
    BY <2>1, <2>2, <2>4, <2>6, <2>7, JobKnows DEF JobOK
  <2> QED
    BY <2>1, <2>5, <2>7, <2>8, JobActs
<1>4. ASSUME FinalizeUploadScan(j) PROVE Kept
  <2>1. /\ job[j].step = "finalize" /\ ObjectsKeep /\ OthersOK'
        /\ UNCHANGED <<request, quotaLock, object, purged>>
        /\ UNCHANGED <<upload, revived>> => RowsKeep
    BY <1>1, <1>4 DEF FinalizeUploadScan, JobAt
  <2> DEFINE s == IF job[j].verdict = "CLEAN" THEN "READY" ELSE "REJECTED"
  <2>2. {"recover", "done", "purge"} \subseteq JobSteps \ {"none", "finalize", "queued"}
    BY DEF JobSteps
  <2>3. CASE JobGoto(j, "recover") /\ UNCHANGED <<upload, revived>>
    BY <2>1, <2>2, <2>3, JobGoes
  <2>4. CASE /\ ~Deleted(j[1]) /\ SetStatus(j[1], s, job[j].verdict)
             /\ (JobGoto(j, "done") \/ JobGoto(j, "purge"))
    <3>1. s = "READY" => Clean(j[1])'
      BY <2>1 DEF AccountInv, JobOK, Clean
    <3>2. s \in Status \ {"NONE"}
      BY DEF Status, Counted
    <3> HIDE DEF s
    <3>3. RowsKeep
      BY <2>1, <2>4, <3>1, <3>2, JobKnows, StatusWrite DEF Deleted
    <3> QED
      BY <2>1, <2>2, <2>4, <3>3, JobGoes
  <2> QED
    BY <1>4, <2>3, <2>4 DEF FinalizeUploadScan
<1> QED
  BY <1>2, <1>3, <1>4

\* The row is marked, the object purged, the upload given back.
LEMMA ScanWritesKeep ==
    ASSUME AccountInv, NEW j \in JobIds
    PROVE  /\ StartScan(j) => Kept
           /\ PurgeObject(j) => Kept
           /\ MarkPurged(j) => Kept
           /\ RecoverScan(j) => Kept
           /\ ScanFails(j) => Kept
<1> DEFINE u == j[1]
<1>1. /\ u \in Ids /\ upload[u] \in Upload /\ upload \in [Ids -> Upload]
      /\ {"QUARANTINED", "SCANNING"} \subseteq Counted /\ Counted \subseteq Status
      /\ {"start", "scan", "mark", "done", "recover", "queued", "dead"}
           \subseteq JobSteps \ {"none", "finalize"}
  BY JobKnows DEF AccountInv, TypesOK, TypeOK, Counted, Status, JobSteps
<1>2. ASSUME UNCHANGED <<scheduler, usage, erasure, storage, request, quotaLock, sweep, calls>>,
             UNCHANGED history
      PROVE  /\ ObjectsKeep /\ OthersOK' /\ UNCHANGED <<request, quotaLock, revived>>
             /\ UNCHANGED upload => RowsKeep
  <2>1. /\ UNCHANGED <<quotaLock, request, object, purged, revived>>
        /\ UNCHANGED <<lock, run, ticks, sweep, signed, expired, erasure, usage, downloads>>
    BY <1>2 DEF scheduler, storage, history
  <2> QED
    BY <2>1, SamePart
<1>3. Retried(j) \in JobSteps \ {"none", "finalize"} /\ (Retried(j) = "queued" => job[j].attempts < MaxAttempts)
  BY DEF Retried, JobSteps
<1>4. ASSUME NEW s \in {"QUARANTINED", "SCANNING"}, NEW d \in {"none", "ERROR"},
             upload' = [upload EXCEPT ![u].status = s, ![u].verdict = d],
             UNCHANGED revived, upload[u].status \in {"QUARANTINED", "SCANNING"}
      PROVE  RowsKeep
  <2> DEFINE v == [upload[u] EXCEPT !.status = s, !.verdict = d]
  <2>1. upload' = [upload EXCEPT ![u] = v]
    BY <1>1, <1>4
  <2>2. v \in Upload /\ v.status = s
    BY <1>1, <1>4 DEF Upload
  <2> HIDE DEF v
  <2> QED
    BY <1>1, <1>4, <2>1, <2>2, RowWrite
<1>5. ASSUME StartScan(j) PROVE Kept
  <2>1. /\ ObjectsKeep /\ OthersOK' /\ UNCHANGED <<request, quotaLock, revived>>
        /\ JobGoto(j, "scan") /\ job[j].step = "start"
        /\ UNCHANGED upload => RowsKeep
    BY <1>2, <1>5 DEF StartScan, JobAt
  <2>2. RowsKeep
    BY <1>4, <1>5, <2>1 DEF StartScan
  <2> QED
    BY <1>1, <2>1, <2>2, JobGoes
<1>6. ASSUME PurgeObject(j) PROVE Kept
  <2>1. /\ ObjectsKeep /\ UNCHANGED <<signed, expired, revived, downloads>>
    BY <1>1, <1>6, ObjectDeleted DEF PurgeObject
  <2>2. /\ UNCHANGED <<upload, quotaLock, request, lock, run, ticks, sweep, erasure, usage>>
        /\ JobGoto(j, "mark") /\ job[j].step = "purge"
    BY <1>6 DEF PurgeObject, scheduler, JobAt
  <2>3. RowsKeep /\ OthersOK'
    BY <2>1, <2>2, SamePart
  <2> QED
    BY <1>1, <2>1, <2>2, <2>3, JobGoes
<1>7. ASSUME MarkPurged(j) PROVE Kept
  <2>1. /\ ObjectsKeep /\ OthersOK' /\ UNCHANGED <<request, quotaLock, revived>>
        /\ JobGoto(j, "done") /\ job[j].step = "mark"
        /\ UNCHANGED upload => RowsKeep
    BY <1>2, <1>7 DEF MarkPurged, JobAt
  <2>2. CASE upload' = [upload EXCEPT ![u].storageDeleted = TRUE]
    <3> DEFINE v == [upload[u] EXCEPT !.storageDeleted = TRUE]
    <3>1. upload' = [upload EXCEPT ![u] = v]
      BY <1>1, <2>2
    <3>2. v \in Upload /\ v.status = upload[u].status
      BY <1>1 DEF Upload
    <3> HIDE DEF v
    <3>3. RowsKeep
      BY <1>1, <2>1, <3>1, <3>2, RowWrite
    <3> QED
      BY <1>1, <2>1, <3>3, JobGoes
  <2>3. CASE UNCHANGED upload
    BY <1>1, <2>1, <2>3, JobGoes
  <2> QED
    BY <1>7, <2>2, <2>3 DEF MarkPurged
<1>8. ASSUME RecoverScan(j) PROVE Kept
  <2>1. /\ ObjectsKeep /\ OthersOK' /\ UNCHANGED <<request, quotaLock, revived>>
        /\ JobGoto(j, Retried(j)) /\ job[j].step = "recover"
        /\ UNCHANGED upload => RowsKeep
    BY <1>2, <1>8 DEF RecoverScan, JobAt
  <2>2. RowsKeep
    BY <1>4, <1>8, <2>1 DEF RecoverScan
  <2> QED
    BY <1>1, <1>3, <2>1, <2>2, JobGoes
<1>9. ASSUME ScanFails(j) PROVE Kept
  <2>1. /\ ObjectsKeep /\ OthersOK' /\ UNCHANGED <<request, quotaLock, revived>>
        /\ RowsKeep /\ job[j].step # "none"
        /\ (JobGoto(j, "recover") \/ JobGoto(j, Retried(j)))
    BY <1>2, <1>9 DEF ScanFails
  <2> QED
    BY <1>1, <1>3, <2>1, JobGoes
<1> QED
  BY <1>5, <1>6, <1>7, <1>8, <1>9

-----------------------------------------------------------------------------
(* The erasure worker, the cleanup and the scheduler.                       *)

\* Steps that belong to no request and no scan job.
LEMMA OthersAct ==
    ASSUME AccountInv, RowsKeep, ObjectsKeep, OthersOK', UNCHANGED <<request, quotaLock, job>>
    PROVE  Kept
BY SamePart, Assemble

\* The erasure of the account goes on, or an attempt of it throws.
LEMMA ErasureKeeps ==
    ASSUME AccountInv
    PROVE  /\ \A u \in Ids : EraseObject(u) => Kept
           /\ MarkErased => Kept
           /\ EraseFails => Kept
           /\ EraseEnds => Kept
<1>1. OthersOK /\ erasure \in Erasure /\ upload \in [Ids -> Upload]
  BY SamePart DEF OthersOK, AccountInv, TypesOK, TypeOK
<1>2. ASSUME erasure' \in Erasure,
             UNCHANGED <<lock, run, ticks, sweep, signed, expired, usage, downloads>>
      PROVE  OthersOK'
  <2>1. SchedulerOK'
    BY <1>1, <1>2 DEF OthersOK, SchedulerOK, SchedulerTypeOK, RunHoldsLock
  <2> QED
    BY <1>1, <1>2, <2>1 DEF OthersOK
<1>3. ASSUME NEW u \in Ids, EraseObject(u) PROVE Kept
  <2>1. /\ ObjectsKeep /\ UNCHANGED <<signed, expired, revived, downloads>>
    BY <1>3, ObjectDeleted DEF EraseObject
  <2>2. /\ UNCHANGED <<upload, job, quotaLock, request, lock, run, ticks, sweep, usage>>
        /\ erasure' = [erasure EXCEPT !.id = u]
    BY <1>3 DEF EraseObject, scheduler
  <2>3. erasure' \in Erasure
    BY <1>1, <2>2 DEF Erasure
  <2> QED
    BY <1>2, <2>1, <2>2, <2>3, SamePart, OthersAct
<1>4. ASSUME NEW e \in Erasure, erasure' = e,
             UNCHANGED <<scheduler, job, usage, storage, request, quotaLock, sweep, calls, history>>
      PROVE  /\ ObjectsKeep /\ OthersOK' /\ UNCHANGED <<request, quotaLock, job, revived>>
             /\ UNCHANGED upload => Kept
  <2>1. /\ UNCHANGED <<quotaLock, request, job, object, purged, revived>>
        /\ UNCHANGED <<lock, run, ticks, sweep, signed, expired, usage, downloads>>
    BY <1>4 DEF scheduler, storage, history
  <2> QED
    BY <1>2, <1>4, <2>1, SamePart, OthersAct
<1>5. ASSUME MarkErased PROVE Kept
  <2>1. PICK u \in Ids : u = erasure.id
    BY <1>1, <1>5 DEF MarkErased, Erasure
  <2> DEFINE v == [upload[u] EXCEPT !.storageDeleted = TRUE]
             e == [erasure EXCEPT !.id = NoId]
  <2>2. upload' = [upload EXCEPT ![u] = v] /\ erasure' = e
    BY <1>1, <1>5, <2>1 DEF MarkErased
  <2>3. v \in Upload /\ v.status = upload[u].status
    BY <1>1 DEF Upload
  <2>4. e \in Erasure
    BY <1>1 DEF Erasure
  <2> HIDE DEF v, e
  <2>5. ObjectsKeep /\ OthersOK' /\ UNCHANGED <<request, quotaLock, job, revived>>
    BY <1>4, <1>5, <2>2, <2>4 DEF MarkErased
  <2>6. RowsKeep
    BY <2>2, <2>3, <2>5, RowWrite
  <2> QED
    BY <2>5, <2>6, OthersAct
<1>6. ASSUME EraseFails \/ EraseEnds PROVE Kept
  <2>1. erasure' \in Erasure
    <3>1. CASE EraseFails
      <4>1. CASE erasure.attempts + 1 < MaxAttempts
        <5>1. erasure.attempts \in Nat /\ MaxAttempts \in Nat
          BY <1>1, UploadsAssumption DEF Erasure
        <5>2. erasure.attempts + 1 \in 0..MaxAttempts
          BY <4>1, <5>1
        <5>3. erasure' = [erasure EXCEPT !.id = NoId, !.attempts = erasure.attempts + 1]
          BY <1>1, <3>1, <4>1 DEF EraseFails, Erasure
        <5> QED
          BY <1>1, <5>2, <5>3 DEF Erasure
      <4>2. CASE ~(erasure.attempts + 1 < MaxAttempts)
        BY <3>1, <4>2, SettledIsErasure DEF EraseFails
      <4> QED
        BY <4>1, <4>2
    <3>2. CASE EraseEnds
      BY <3>2, SettledIsErasure DEF EraseEnds
    <3> QED
      BY <1>6, <3>1, <3>2
  <2> QED
    BY <1>4, <1>6, <2>1 DEF EraseFails, EraseEnds
<1> QED
  BY <1>3, <1>5, <1>6

\* The cleanup of expired uploads, and the runs of the scheduler.
LEMMA CleanupKeeps ==
    ASSUME AccountInv, NEW w \in Slots
    PROVE  /\ ListExpired(w) => Kept
           /\ \A u \in Ids : ExpireObject(w, u) => Kept
           /\ ExpireRow(w) => Kept
           /\ \A u \in Ids : ExpireFails(w, u) => Kept
           /\ SweepEnds(w) => Kept
           /\ SchedulerStep(w) => Kept
           /\ ExpireLock => Kept
<1>1. /\ OthersOK /\ SchedulerOK /\ sweep \in [Slots -> SweepState] /\ sweep[w] \in SweepState
      /\ signed \subseteq Ids /\ expired \subseteq Ids
  BY SamePart DEF OthersOK
<1>2. UNCHANGED scheduler => SchedulerOK'
  BY <1>1 DEF SchedulerOK, SchedulerTypeOK, RunHoldsLock, scheduler
<1>3. ASSUME SchedulerOK', sweep' \in [Slots -> SweepState],
             UNCHANGED <<signed, expired, erasure, usage, downloads>>
      PROVE  OthersOK'
  BY <1>1, <1>3 DEF OthersOK
<1>4. ASSUME SchedulerOK', sweep' \in [Slots -> SweepState], Sweeping, Elsewhere
      PROVE  Kept
  <2>1. /\ UNCHANGED <<upload, revived, object, purged, request, quotaLock, job>>
        /\ UNCHANGED <<signed, expired, erasure, usage, downloads>>
    BY <1>4 DEF Sweeping, Elsewhere, storage
  <2> QED
    BY <1>3, <1>4, <2>1, SamePart, OthersAct
<1>5. ASSUME NEW v \in SweepState, sweep' = [sweep EXCEPT ![w] = v]
      PROVE  sweep' \in [Slots -> SweepState]
  BY <1>1, <1>5
<1>6. NoSweep \in SweepState
  BY DEF NoSweep, SweepState
<1>7. ASSUME ListExpired(w) PROVE Kept
  <2> DEFINE t == {u \in expired : upload[u].status = "PENDING"}
             v == [listed |-> TRUE, id |-> NoId, todo |-> t]
  <2>1. t \in SUBSET Ids
    BY <1>1
  <2>2. sweep' = [sweep EXCEPT ![w] = v]
    BY <1>7 DEF ListExpired
  <2> HIDE DEF t
  <2>3. v \in SweepState
    BY <2>1 DEF SweepState
  <2> HIDE DEF v
  <2> QED
    BY <1>2, <1>4, <1>5, <1>7, <2>2, <2>3 DEF ListExpired
<1>8. ASSUME NEW u \in Ids, ExpireObject(w, u) PROVE Kept
  <2> DEFINE v == [sweep[w] EXCEPT !.id = u]
  <2>1. sweep' = [sweep EXCEPT ![w] = v]
    BY <1>1, <1>8 DEF ExpireObject
  <2>2. v \in SweepState
    BY <1>1 DEF SweepState
  <2> HIDE DEF v
  <2>3. /\ ObjectsKeep /\ UNCHANGED <<signed, expired, revived, downloads>>
    BY <1>8, ObjectDeleted DEF ExpireObject
  <2>4. /\ UNCHANGED <<upload, job, quotaLock, request, erasure, usage>> /\ UNCHANGED scheduler
    BY <1>8 DEF ExpireObject
  <2>5. OthersOK'
    BY <1>2, <1>3, <1>5, <2>1, <2>2, <2>3, <2>4
  <2> QED
    BY <2>3, <2>4, <2>5, SamePart, OthersAct
<1>9. ASSUME NEW y \in Ids,
             sweep' = [sweep EXCEPT ![w].id = NoId, ![w].todo = @ \ {y}]
      PROVE  sweep' \in [Slots -> SweepState]
  <2> DEFINE t == sweep[w].todo \ {y}
             v == [sweep[w] EXCEPT !.id = NoId, !.todo = t]
  <2>1. t \in SUBSET Ids
    BY <1>1 DEF SweepState
  <2>2. sweep' = [sweep EXCEPT ![w] = v]
    BY <1>1, <1>9 DEF SweepState
  <2> HIDE DEF t
  <2>3. v \in SweepState
    BY <1>1, <2>1 DEF SweepState
  <2> HIDE DEF v
  <2> QED
    BY <1>5, <2>2, <2>3
<1>10. ASSUME ExpireRow(w) PROVE Kept
  <2>1. sweep[w].id # NoId /\ sweep[w].id \in Ids
    BY <1>1, <1>10 DEF ExpireRow, SweepState
  <2>2. PICK u \in Ids : u = sweep[w].id
    BY <2>1
  <2>3. /\ UNCHANGED <<revived, object, purged, request, quotaLock, job, scheduler>>
        /\ UNCHANGED <<signed, expired, erasure, usage, downloads>>
        /\ sweep' = [sweep EXCEPT ![w].id = NoId, ![w].todo = @ \ {u}]
        /\ \/ UNCHANGED upload
           \/ upload[u].status = "PENDING" /\ upload' = [upload EXCEPT ![u].status = "FAILED"]
    BY <1>10, <2>2 DEF ExpireRow, Elsewhere, storage
  <2>4. sweep' \in [Slots -> SweepState]
    BY <1>9, <2>3
  <2>5. "FAILED" \in Status \ {"NONE", "READY"} /\ "FAILED" \notin Counted
    BY DEF Status, Counted
  <2>6. RowsKeep
    BY <2>3, <2>5, SamePart, PlainWrite
  <2> QED
    BY <1>2, <1>3, <2>3, <2>4, <2>6, SamePart, OthersAct
<1>11. ASSUME NEW u \in Ids, ExpireFails(w, u) PROVE Kept
  <2>1. sweep' \in [Slots -> SweepState]
    BY <1>9, <1>11 DEF ExpireFails
  <2> QED
    BY <1>2, <1>4, <1>11, <2>1 DEF ExpireFails
<1>12. ASSUME SweepEnds(w) PROVE Kept
  <2>1. sweep' \in [Slots -> SweepState]
    BY <1>5, <1>6, <1>12 DEF SweepEnds
  <2> QED
    BY <1>1, <1>4, <1>12, <2>1, SchedulerKeeps DEF SweepEnds
<1>13. ASSUME SchedulerStep(w) PROVE Kept
  <2>1. sweep' \in [Slots -> SweepState]
    BY <1>1, <1>5, <1>6, <1>13 DEF SchedulerStep
  <2>2. SchedulerOK'
    BY <1>1, <1>13, SchedulerKeeps DEF SchedulerStep
  <2> QED
    BY <1>4, <1>13, <2>1, <2>2 DEF SchedulerStep
<1>14. ASSUME ExpireLock PROVE Kept
  <2>1. sweep' \in [Slots -> SweepState]
    BY <1>1, <1>14 DEF ExpireLock
  <2>2. SchedulerOK'
    BY <1>1, <1>14, ExpiryKeeps DEF ExpireLock
  <2> QED
    BY <1>4, <1>14, <2>1, <2>2 DEF ExpireLock
<1> QED
  BY <1>7, <1>8, <1>10, <1>11, <1>12, <1>13, <1>14

-----------------------------------------------------------------------------
(* The theorems.                                                            *)

\* One upload is pending and nothing else has happened.
LEMMA InitHolds ==
    ASSUME Init
    PROVE  AccountInv
<1>1. /\ First \in Sent /\ First \in Ids /\ IsFiniteSet(Ids) /\ StorageQuota \in Nat
      /\ StorageQuota > 0 /\ MaxTicks \in Nat /\ MaxAttempts \in Nat /\ BandwidthQuota \in Nat
  BY UploadsAssumption, SchedulerAssumption DEF First
<1> DEFINE p == [NoUpload EXCEPT !.status = "PENDING"]
<1>2. /\ p \in Upload /\ NoUpload \in Upload /\ NoUpload.status = "NONE" /\ p.status = "PENDING"
  BY DEF Upload, NoUpload, Status, Counted
<1>3. upload = [u \in Ids |-> IF u = First THEN p ELSE NoUpload]
  BY DEF Init
<1> HIDE DEF p
<1>4. upload \in [Ids -> Upload]
  BY <1>2, <1>3
<1>5. \A u \in Ids : upload[u].status = IF u = First THEN "PENDING" ELSE "NONE"
  BY <1>2, <1>3
<1>6. NoJob \in Job /\ NoJob.step = "none"
  <2>1. 0 \in 0..MaxAttempts
    BY <1>1
  <2> QED
    BY <2>1 DEF Job, NoJob
<1>7. Idle \in Request /\ Idle.step = "idle" /\ Idle.list = {}
  BY DEF Request, Idle
<1>8. /\ job \in [JobIds -> Job] /\ request \in [Requests -> Request]
      /\ \A j \in JobIds : job[j].step = "none"
      /\ \A r \in Requests : request[r].step = "idle" /\ request[r].list = {}
  BY <1>6, <1>7 DEF Init
<1>9. NoSweep \in SweepState /\ sweep \in [Slots -> SweepState]
  BY DEF NoSweep, SweepState, Init
<1>10. SchedulerTypeOK /\ RunHoldsLock
  BY <1>1 DEF Init, SchedulerInit, SchedulerTypeOK, RunHoldsLock, Run, NotRunning
<1>11. erasure \in Erasure /\ usage = -1 /\ usage \in -1..BandwidthQuota /\ downloads = 0
  BY <1>1, SettledIsErasure DEF Init
<1>12. TypesOK
  BY <1>1, <1>4, <1>8, <1>9, <1>10, <1>11 DEF TypesOK, TypeOK, Init
<1>13. QuotaOK
  <2>1. Stored \subseteq {First}
    BY <1>5 DEF Stored, Counted
  <2>2. IsFiniteSet({First}) /\ Cardinality({First}) = 1
    BY FS_Singleton
  <2>3. Cardinality(Stored) <= 1 /\ Cardinality(Stored) \in Nat
    BY <2>1, <2>2, FS_Subset, FS_CardinalityType
  <2>4. quotaLock = {}
    BY DEF Init
  <2>5. Cardinality(Stored) <= StorageQuota
    BY <1>1, <2>3
  <2> QED
    BY <1>11, <2>4, <2>5 DEF QuotaOK
<1>14. \A r \in Requests : RequestOK(r)
  BY <1>8 DEF RequestOK, RowSteps
<1>15. \A j \in JobIds : JobOK(j)
  BY <1>8 DEF JobOK
<1>16. \A u \in Ids : RowOK(u)
  BY <1>5 DEF RowOK
<1> QED
  BY <1>10, <1>12, <1>13, <1>14, <1>15, <1>16 DEF AccountInv

\* Every step keeps the invariant, and what is deleted stays deleted.
LEMMA StepKeeps ==
    ASSUME AccountInv, [Next]_vars
    PROVE  Kept
<1>1. ASSUME NEW u \in Ids, PassExpiry(u) \/ \E c \in Contents : Put(u, c) PROVE Kept
  BY <1>1, StorageKeeps
<1>2. ASSUME NEW r \in Requests, RequestStep(r) PROVE Kept
  <2>1. ASSUME NEW u \in Ids,
               \/ InitiateUpload(r, u) \/ CompleteUpload(r, u)
               \/ CreateUploadDownload(r, u) \/ DeleteUpload(r, u)
        PROVE  Kept
    BY <2>1, QuotaKeeps, CallsKeep
  <2> QED
    BY <1>2, <2>1, QuotaKeeps, CallsKeep, ReadsKeep, DeletesKeep, WritesKeep, AccountKeeps
    DEF RequestStep
<1>3. ASSUME NEW j \in JobIds, ScanStep(j) \/ ScanFails(j) PROVE Kept
  BY <1>3, ScanKeeps, ScanWritesKeep DEF ScanStep
<1>4. ASSUME EraseStep \/ EraseFails PROVE Kept
  BY <1>4, ErasureKeeps DEF EraseStep
<1>5. ASSUME NEW w \in Slots, SweepStep(w) \/ ExpireLock PROVE Kept
  BY <1>5, CleanupKeeps DEF SweepStep
<1>6. ExpireLock => \E w \in Slots : w = lock
  BY DEF ExpireLock, LockExpires, AccountInv, TypesOK, TypeOK, SchedulerTypeOK
<1>7. ASSUME UNCHANGED vars PROVE Kept
  <2>1. /\ UNCHANGED <<upload, revived, quotaLock, request, job, object, purged>>
        /\ UNCHANGED <<lock, run, ticks, sweep, signed, expired, erasure, usage, downloads>>
    BY <1>7 DEF vars, scheduler, rows, storage, history
  <2> QED
    BY <2>1, SamePart, OthersAct
<1> QED
  BY <1>1, <1>2, <1>3, <1>4, <1>5, <1>6, <1>7 DEF Next

\* The inductive invariant of the account.
THEOREM AccountInvariant == Spec => []AccountInv
<1>1. Init => AccountInv
  BY InitHolds
<1>2. AccountInv /\ [Next]_vars => AccountInv'
  BY StepKeeps DEF Kept
<1> QED
  BY <1>1, <1>2, PTL DEF Spec

\* Neither quota is exceeded by uploads and downloads that run at once: what an
\* account stores, and what it downloads in a month, whatever late completions,
\* scans, cleanups and erasures do in between.
THEOREM UploadsTheorem == Spec => []UploadsInv
<1>1. AccountInv => UploadsInv
  <2>1. ASSUME AccountInv PROVE BandwidthWithinQuota
    <3>1. /\ usage \in -1..BandwidthQuota /\ BandwidthQuota \in Nat
          /\ downloads = IF usage = -1 THEN 0 ELSE usage
      BY <2>1, UploadsAssumption DEF AccountInv, TypesOK, TypeOK, QuotaOK
    <3> QED
      BY <3>1 DEF BandwidthWithinQuota
  <2> QED
    BY <2>1 DEF AccountInv, TypesOK, QuotaOK, Stored, StorageWithinQuota, UploadsInv
<1> QED
  BY <1>1, AccountInvariant, PTL

\* A run of a scheduled job that is within its time holds the lock, so no two
\* overlap, whatever timeouts, crashes and late releases come between.
THEOREM SchedulerTheorem == Spec => []RunHoldsLock
<1>1. AccountInv => RunHoldsLock
  BY DEF AccountInv
<1> QED
  BY <1>1, AccountInvariant, PTL

\* The bytes a download is charged for are the ones the scanner passed, while
\* nobody has deleted the object.
THEOREM ScannedTheorem == Spec => []ServesScannedBytes
<1>1. AccountInv => ServesScannedBytes
  BY DEF AccountInv, RequestOK, ServesScannedBytes, At
<1> QED
  BY <1>1, AccountInvariant, PTL

\* A deleted upload stays deleted.
THEOREM DeletedTheorem == Spec => DeletedStaysDeleted
<1>1. AccountInv /\ [Next]_vars => [\A u \in Ids : Deleted(u) => upload'[u].status = "DELETED"]_vars
  BY StepKeeps DEF Kept, Deleted
<1> QED
  BY <1>1, AccountInvariant, PTL DEF Spec, DeletedStaysDeleted

-----------------------------------------------------------------------------
(* The erasure of the account.                                              *)

Live(u) == upload[u].status \in Counted
Missed == late \cup revived

\* What a deletion under way has listed, and what is known to be deleted.
ErasureInv ==
    /\ \A r \in Requests : At(r, "erase") =>
          \A u \in Ids : Live(u) => u \in request[r].list \cup Missed
    /\ erasure.state # "none" => \A u \in Ids : Live(u) => u \in Missed
    /\ \A u \in Ids : upload[u].storageDeleted => u \in purged
    /\ erasure.id # NoId => erasure.id \in purged /\ erasure.state = "requested"
    /\ \A j \in JobIds : JobAt(j, "mark") => j[1] \in purged
    /\ \A r \in Requests : At(r, "gone") => request[r].id \in purged
    /\ erasure.state = "done" => \A u \in Ids : Deleted(u) => u \in purged

\* What every step but the two of deleteAccount does to rows, requests and jobs.
RowsQuiet ==
    /\ late \subseteq late' /\ revived \subseteq revived' /\ purged \subseteq purged'
    /\ \A u \in Ids :
          /\ Live(u)' => Live(u) \/ u \in Missed' \/ ~Listed
          /\ upload'[u].storageDeleted => upload[u].storageDeleted \/ u \in purged
          /\ Deleted(u)' => Deleted(u) \/ u \in purged
RequestsQuiet ==
    \A r \in Requests :
        /\ At(r, "erase")' => At(r, "erase") /\ request'[r].list = request[r].list
        /\ At(r, "gone")' => \/ request'[r].id \in purged'
                             \/ At(r, "gone") /\ request'[r].id = request[r].id
JobsQuiet == \A j \in JobIds : JobAt(j, "mark")' => JobAt(j, "mark") \/ j[1] \in purged'
Quiet == RowsQuiet /\ RequestsQuiet /\ JobsQuiet

\* Such a step keeps the invariant, if the event stays as it is.
LEMMA QuietKeeps ==
    ASSUME ErasureInv, Quiet, UNCHANGED erasure
    PROVE  ErasureInv'
<1>1. ASSUME NEW r \in Requests, At(r, "erase")', NEW u \in Ids, Live(u)'
      PROVE  u \in request'[r].list \cup Missed'
  BY <1>1 DEF ErasureInv, Quiet, RowsQuiet, RequestsQuiet, Missed, Listed
<1>2. ASSUME erasure'.state # "none", NEW u \in Ids, Live(u)' PROVE u \in Missed'
  BY <1>2 DEF ErasureInv, Quiet, RowsQuiet, Missed, Listed
<1>3. \A u \in Ids : upload'[u].storageDeleted => u \in purged'
  BY DEF ErasureInv, Quiet, RowsQuiet
<1>4. erasure'.id # NoId => erasure'.id \in purged' /\ erasure'.state = "requested"
  BY DEF ErasureInv, Quiet, RowsQuiet
<1>5. \A j \in JobIds : JobAt(j, "mark")' => j[1] \in purged'
  BY DEF ErasureInv, Quiet, RowsQuiet, JobsQuiet
<1>6. \A r \in Requests : At(r, "gone")' => request'[r].id \in purged'
  BY DEF ErasureInv, Quiet, RowsQuiet, RequestsQuiet
<1>7. erasure'.state = "done" => \A u \in Ids : Deleted(u)' => u \in purged'
  BY DEF ErasureInv, Quiet, RowsQuiet
<1> QED
  BY <1>1, <1>2, <1>3, <1>4, <1>5, <1>6, <1>7 DEF ErasureInv

\* Rows, requests or jobs that no step touched.
LEMMA QuietSame ==
    /\ UNCHANGED <<upload, late, revived>> /\ purged \subseteq purged' => RowsQuiet
    /\ UNCHANGED request => RequestsQuiet
    /\ UNCHANGED job => JobsQuiet
<1>1. ASSUME UNCHANGED <<upload, late, revived>>, purged \subseteq purged' PROVE RowsQuiet
  BY <1>1 DEF RowsQuiet, Live, Deleted
<1>2. ASSUME UNCHANGED request PROVE RequestsQuiet
  BY <1>2 DEF RequestsQuiet, At
<1>3. ASSUME UNCHANGED job PROVE JobsQuiet
  BY <1>3 DEF JobsQuiet, JobAt
<1> QED
  BY <1>1, <1>2, <1>3

\* One row is written.
LEMMA QuietRow ==
    ASSUME AccountInv, NEW u \in Ids, NEW v \in Upload, upload' = [upload EXCEPT ![u] = v],
           late \subseteq late', revived \subseteq revived', purged \subseteq purged',
           v.status \in Counted => Live(u) \/ u \in Missed' \/ ~Listed,
           v.storageDeleted => upload[u].storageDeleted \/ u \in purged,
           v.status = "DELETED" => Deleted(u) \/ u \in purged
    PROVE  RowsQuiet
<1>1. upload \in [Ids -> Upload]
  BY DEF AccountInv, TypesOK, TypeOK
<1>2. upload'[u] = v /\ \A x \in Ids \ {u} : upload'[x] = upload[x]
  BY <1>1
<1>3. ASSUME NEW x \in Ids
      PROVE  /\ Live(x)' => Live(x) \/ x \in Missed' \/ ~Listed
             /\ upload'[x].storageDeleted => upload[x].storageDeleted \/ x \in purged
             /\ Deleted(x)' => Deleted(x) \/ x \in purged
  <2>1. CASE x = u
    BY <1>2, <2>1 DEF Live, Deleted
  <2>2. CASE x # u
    BY <1>2, <2>2 DEF Live, Deleted
  <2> QED
    BY <2>1, <2>2
<1> QED
  BY <1>3 DEF RowsQuiet

\* The status of one row is written.
LEMMA QuietStatus ==
    ASSUME AccountInv, NEW u \in Ids, NEW s \in Status \ {"DELETED"}, upload[u].status # "NONE",
           upload[u].status # "DELETED", UNCHANGED <<late, purged>>,
           \/ \E d \in {"none", "CLEAN", "MALICIOUS", "SIGNATURE_MISMATCH", "ERROR"} :
                 SetStatus(u, s, d)
           \/ /\ upload' = [upload EXCEPT ![u].status = s] /\ UNCHANGED revived
              /\ s \in Counted => Live(u)
           \/ \E d \in {"none", "ERROR"} :
                 /\ upload' = [upload EXCEPT ![u].status = s, ![u].verdict = d]
                 /\ UNCHANGED revived /\ (s \in Counted => Live(u))
    PROVE  RowsQuiet
<1>1. upload \in [Ids -> Upload] /\ upload[u] \in Upload
  BY DEF AccountInv, TypesOK, TypeOK
<1>2. upload[u].status \in Status
  BY <1>1 DEF Upload
<1> DEFINE v(d) == [upload[u] EXCEPT !.status = s, !.verdict = d]
           w == [upload[u] EXCEPT !.status = s]
<1>3. ASSUME NEW d \in {"none", "CLEAN", "MALICIOUS", "SIGNATURE_MISMATCH", "ERROR"}
      PROVE  v(d) \in Upload /\ v(d).status = s /\ v(d).storageDeleted = upload[u].storageDeleted
  BY <1>1 DEF Upload
<1>4. w \in Upload /\ w.status = s /\ w.storageDeleted = upload[u].storageDeleted
  BY <1>1 DEF Upload
<1>5. ASSUME NEW d \in {"none", "CLEAN", "MALICIOUS", "SIGNATURE_MISMATCH", "ERROR"},
             SetStatus(u, s, d)
      PROVE  RowsQuiet
  <2>1. /\ upload' = [upload EXCEPT ![u] = v(d)]
        /\ revived' = IF upload[u].status \in {"FAILED", "REJECTED"} /\ s \in Counted
                      THEN revived \cup {u} ELSE revived
    BY <1>1, <1>5 DEF SetStatus
  <2>2. s \in Counted => Live(u) \/ u \in Missed'
    BY <1>2, <2>1 DEF Status, Live, Missed
  <2>3. late \subseteq late' /\ revived \subseteq revived' /\ purged \subseteq purged'
    BY <2>1
  <2> DEFINE x == v(d)
  <2>4. x \in Upload /\ x.status = s /\ x.storageDeleted = upload[u].storageDeleted
    BY <1>3
  <2>5. upload' = [upload EXCEPT ![u] = x]
    BY <2>1
  <2> HIDE DEF v, x
  <2> QED
    BY <2>2, <2>3, <2>4, <2>5, QuietRow
<1>6. ASSUME upload' = [upload EXCEPT ![u].status = s], UNCHANGED revived, s \in Counted => Live(u)
      PROVE  RowsQuiet
  <2>1. upload' = [upload EXCEPT ![u] = w]
    BY <1>1, <1>6
  <2> HIDE DEF w
  <2>2. /\ late \subseteq late' /\ revived \subseteq revived' /\ purged \subseteq purged'
        /\ w.status \in Counted => Live(u) \/ u \in Missed' \/ ~Listed
        /\ w.storageDeleted => upload[u].storageDeleted \/ u \in purged
        /\ w.status = "DELETED" => Deleted(u) \/ u \in purged
    BY <1>4, <1>6
  <2> QED
    BY <1>4, <2>1, <2>2, QuietRow
<1>7. ASSUME NEW d \in {"none", "ERROR"}, UNCHANGED revived, s \in Counted => Live(u),
             upload' = [upload EXCEPT ![u].status = s, ![u].verdict = d]
      PROVE  RowsQuiet
  <2> DEFINE x == v(d)
  <2>1. x \in Upload /\ x.status = s /\ x.storageDeleted = upload[u].storageDeleted
    BY <1>3
  <2>2. upload' = [upload EXCEPT ![u] = x]
    BY <1>1, <1>7
  <2> HIDE DEF v, x
  <2>3. /\ late \subseteq late' /\ revived \subseteq revived' /\ purged \subseteq purged'
        /\ x.status \in Counted => Live(u) \/ u \in Missed' \/ ~Listed
        /\ x.storageDeleted => upload[u].storageDeleted \/ u \in purged
        /\ x.status = "DELETED" => Deleted(u) \/ u \in purged
    BY <1>7, <2>1
  <2> QED
    BY <2>1, <2>2, <2>3, QuietRow
<1> QED
  BY <1>5, <1>6, <1>7

\* One request moves.
LEMMA QuietRequest ==
    ASSUME AccountInv, NEW r \in Requests, NEW s \in Steps, s # "erase",
           \/ End(r)
           \/ Goto(r, s)
           \/ \E c \in Contents \cup {"none"} :
                 \/ request' = [request EXCEPT ![r].content = c, ![r].step = s]
                 \/ request' = [request EXCEPT ![r].step = s, ![r].content = c]
           \/ \E u \in Ids : request' = [request EXCEPT ![r] = [Idle EXCEPT !.step = s, !.id = u]],
           s = "gone" => Goto(r, s) /\ request[r].id \in purged'
    PROVE  RequestsQuiet
<1>1. request \in [Requests -> Request]
  BY DEF AccountInv, TypesOK, TypeOK
<1>2. \A x \in Requests \ {r} : request'[x] = request[x]
  BY <1>1 DEF End, Goto
<1>3. /\ request'[r].step # "erase"
      /\ request'[r].step = "gone" => request'[r].id \in purged'
  <2>1. CASE End(r)
    BY <1>1, <2>1 DEF End, Idle
  <2>2. CASE Goto(r, s)
    BY <1>1, <2>2 DEF Goto, Request
  <2>3. CASE /\ s # "gone"
             /\ \E c \in Contents \cup {"none"} :
                 \/ request' = [request EXCEPT ![r].content = c, ![r].step = s]
                 \/ request' = [request EXCEPT ![r].step = s, ![r].content = c]
    <3>1. ASSUME NEW c \in Contents \cup {"none"},
                 \/ request' = [request EXCEPT ![r].content = c, ![r].step = s]
                 \/ request' = [request EXCEPT ![r].step = s, ![r].content = c]
          PROVE  request'[r].step = s
      <4> DEFINE v == [request[r] EXCEPT !.step = s, !.content = c]
      <4>1. request[r] \in Request
        BY <1>1
      <4>2. request' = [request EXCEPT ![r] = v]
        BY <1>1, <3>1, <4>1 DEF Request
      <4>3. v.step = s
        BY <4>1 DEF Request
      <4> HIDE DEF v
      <4> QED
        BY <1>1, <4>2, <4>3
    <3> QED
      BY <2>3, <3>1
  <2>4. CASE /\ s # "gone"
             /\ \E u \in Ids :
                   request' = [request EXCEPT ![r] = [Idle EXCEPT !.step = s, !.id = u]]
    BY <1>1, <2>4 DEF Idle
  <2> QED
    BY <2>1, <2>2, <2>3, <2>4
<1> QED
  BY <1>2, <1>3 DEF RequestsQuiet, At

\* A request that asks for something, and what the client does to storage.
LEMMA CallsQuiet ==
    ASSUME AccountInv
    PROVE  /\ \A u \in Ids : PassExpiry(u) \/ (\E c \in Contents : Put(u, c)) => Quiet
           /\ \A r \in Requests, u \in Ids :
                 (\/ InitiateUpload(r, u) \/ CompleteUpload(r, u)
                  \/ CreateUploadDownload(r, u) \/ DeleteUpload(r, u)) => Quiet
<1>1. ASSUME NEW u \in Ids, PassExpiry(u) \/ \E c \in Contents : Put(u, c) PROVE Quiet
  <2>1. UNCHANGED <<upload, late, revived, purged, request, job>>
    BY <1>1 DEF PassExpiry, Put, rows, history
  <2> QED
    BY <2>1, QuietSame DEF Quiet
<1>2. ASSUME NEW r \in Requests, NEW u \in Ids,
             \/ InitiateUpload(r, u) \/ CompleteUpload(r, u)
             \/ CreateUploadDownload(r, u) \/ DeleteUpload(r, u)
      PROVE  Quiet
  <2>1. UNCHANGED <<upload, late, revived, purged, job>>
    BY <1>2 DEF InitiateUpload, CompleteUpload, CreateUploadDownload, DeleteUpload, rows, history
  <2>2. \E s \in {"insert", "inspect", "open", "delete"} :
           request' = [request EXCEPT ![r] = [Idle EXCEPT !.step = s, !.id = u]]
    BY <1>2 DEF InitiateUpload, CompleteUpload, CreateUploadDownload, DeleteUpload, Call
  <2>3. {"insert", "inspect", "open", "delete"} \subseteq Steps \ {"erase", "gone"}
    BY DEF Steps
  <2> QED
    BY <2>1, <2>2, <2>3, QuietSame, QuietRequest DEF Quiet
<1> QED
  BY <1>1, <1>2

\* A request reads or deletes an object.
LEMMA ReadsQuiet ==
    ASSUME AccountInv, NEW r \in Requests,
           \/ InspectObject(r) \/ ReadObjectPrefix(r) \/ OpenDownload(r) \/ ChargeQuota(r)
           \/ DiscardObject(r) \/ DeleteStoredObject(r)
    PROVE  Quiet
<1>1. UNCHANGED <<upload, late, revived, job>> /\ purged \subseteq purged'
  BY DEF InspectObject, ReadObjectPrefix, OpenDownload, ChargeQuota, DiscardObject,
         DeleteStoredObject, DeleteObject, rows, history
<1>2. /\ object[request[r].id] = "none" \/ request[r].step \notin RowSteps
            \/ object[request[r].id] \in Contents
      /\ {"idle", "prefix", "discard", "discardType", "fail", "reject", "quarantine", "charge",
          "gone"} \subseteq Steps
  BY RequestKnows DEF Steps
<1>3. {"inspect", "prefix", "open"} \subseteq RowSteps
  BY DEF RowSteps
<1>4. CASE InspectObject(r)
  <2>1. object[request[r].id] \in Contents \cup {"none"}
    BY <1>2, <1>3, <1>4 DEF InspectObject, At
  <2>2. \/ End(r)
        \/ \E s \in {"prefix", "discard"} : \E c \in Contents \cup {"none"} :
              request' = [request EXCEPT ![r].content = c, ![r].step = s]
    BY <1>4, <2>1 DEF InspectObject, StoredObject
  <2> QED
    BY <1>1, <1>2, <2>2, QuietSame, QuietRequest DEF Quiet
<1>5. CASE ReadObjectPrefix(r)
  <2>1. End(r) \/ \E s \in {"discardType", "quarantine"} : Goto(r, s)
    BY <1>5 DEF ReadObjectPrefix
  <2> QED
    BY <1>1, <1>2, <2>1, QuietSame, QuietRequest DEF Quiet
<1>6. CASE OpenDownload(r)
  <2>1. object[request[r].id] \in Contents \cup {"none"}
    BY <1>2, <1>3, <1>6 DEF OpenDownload, At
  <2>2. End(r) \/ \E c \in Contents \cup {"none"} :
              request' = [request EXCEPT ![r].step = "charge", ![r].content = c]
    BY <1>6, <2>1 DEF OpenDownload, StoredObject
  <2> QED
    BY <1>1, <1>2, <2>2, QuietSame, QuietRequest DEF Quiet
<1>7. CASE ChargeQuota(r)
  <2>1. End(r)
    BY <1>7 DEF ChargeQuota
  <2> QED
    BY <1>1, <1>2, <2>1, QuietSame, QuietRequest DEF Quiet
<1>8. CASE DiscardObject(r)
  <2>1. \E s \in {"fail", "reject"} : Goto(r, s)
    BY <1>8 DEF DiscardObject
  <2> QED
    BY <1>1, <1>2, <2>1, QuietSame, QuietRequest DEF Quiet
<1>9. CASE DeleteStoredObject(r)
  <2>1. Goto(r, "gone") /\ request[r].id \in purged'
    BY <1>9 DEF DeleteStoredObject, DeleteObject
  <2> QED
    BY <1>1, <1>2, <2>1, QuietSame, QuietRequest DEF Quiet
<1> QED
  BY <1>4, <1>5, <1>6, <1>7, <1>8, <1>9

\* A request writes its row.
LEMMA WritesQuiet ==
    ASSUME AccountInv, ErasureInv, NEW r \in Requests,
           \/ InsertUpload(r) \/ CreateUpload(r) \/ MarkWrongObject(r) \/ Quarantine(r)
           \/ EnqueueScan(r) \/ MarkDeleted(r)
    PROVE  Quiet
<1> DEFINE u == request[r].id
<1>1. upload \in [Ids -> Upload] /\ job \in [JobIds -> Job]
  BY DEF AccountInv, TypesOK, TypeOK
<1>2. {"idle", "sign", "enqueue"} \subseteq Steps \ {"erase", "gone"}
  BY DEF Steps
<1>3. /\ request[r].step \in RowSteps => u \in Ids /\ upload[u].status # "NONE"
      /\ request[r].content \in Contents \cup {"none"}
  BY RequestKnows
<1>4. \A x \in Ids : upload[x].verdict \in {"none", "CLEAN", "MALICIOUS", "SIGNATURE_MISMATCH", "ERROR"}
  BY <1>1 DEF Upload
<1>5. CASE InsertUpload(r)
  <2> DEFINE v == [upload[u] EXCEPT !.status = "PENDING"]
  <2>1. RequestOK(r)
    BY DEF AccountInv
  <2>2. u \in Ids
    BY <1>5, <2>1 DEF InsertUpload, At, RequestOK
  <2>3. v \in Upload /\ v.status = "PENDING" /\ v.storageDeleted = upload[u].storageDeleted
    BY <1>1, <2>2 DEF Upload, Status, Counted
  <2>4. upload' = [upload EXCEPT ![u] = v]
    BY <1>1, <1>5, <2>2 DEF InsertUpload
  <2>5. /\ late \subseteq late' /\ revived' = revived /\ purged' = purged /\ job' = job
        /\ u \in Missed' \/ ~Listed
    BY <1>5 DEF InsertUpload, Missed
  <2>6. Goto(r, "sign")
    BY <1>5 DEF InsertUpload
  <2>7. JobsQuiet /\ RequestsQuiet
    BY <1>2, <2>5, <2>6, QuietSame, QuietRequest
  <2> HIDE DEF v, u
  <2>8. RowsQuiet
    BY <2>2, <2>3, <2>4, <2>5, QuietRow
  <2> QED
    BY <2>7, <2>8 DEF Quiet
<1>6. CASE CreateUpload(r)
  <2>1. /\ u \in Ids /\ upload[u].status # "NONE" /\ End(r) /\ UNCHANGED <<late, purged, job>>
        /\ UNCHANGED <<upload, revived>> \/ (~Deleted(u) /\ SetStatus(u, "FAILED", upload[u].verdict))
    BY <1>3, <1>6 DEF CreateUpload, At, RowSteps
  <2>2. JobsQuiet /\ RequestsQuiet
    BY <1>2, <2>1, QuietSame, QuietRequest
  <2>3. "FAILED" \in Status \ {"DELETED"}
    BY DEF Status
  <2> HIDE DEF u
  <2>4. RowsQuiet
    BY <1>4, <2>1, <2>3, QuietSame, QuietStatus DEF Deleted
  <2> QED
    BY <2>2, <2>4 DEF Quiet
<1>7. CASE MarkWrongObject(r)
  <2>1. /\ u \in Ids /\ upload[u].status # "NONE" /\ End(r) /\ UNCHANGED <<late, purged, job>>
        /\ \/ UNCHANGED <<upload, revived>>
           \/ ~Deleted(u) /\ SetStatus(u, "FAILED", upload[u].verdict)
           \/ ~Deleted(u) /\ SetStatus(u, "REJECTED", "SIGNATURE_MISMATCH")
    BY <1>3, <1>7 DEF MarkWrongObject, At, RowSteps
  <2>2. JobsQuiet /\ RequestsQuiet
    BY <1>2, <2>1, QuietSame, QuietRequest
  <2>3. {"FAILED", "REJECTED"} \subseteq Status \ {"DELETED"}
    BY DEF Status
  <2> HIDE DEF u
  <2>4. RowsQuiet
    BY <1>4, <2>1, <2>3, QuietSame, QuietStatus DEF Deleted
  <2> QED
    BY <2>2, <2>4 DEF Quiet
<1>8. CASE Quarantine(r)
  <2>1. /\ u \in Ids /\ upload[u].status # "NONE" /\ UNCHANGED <<late, revived, purged, job>>
        /\ End(r) \/ Goto(r, "enqueue")
        /\ \/ UNCHANGED upload
           \/ /\ upload[u].status \in {"PENDING", "QUARANTINED"}
              /\ upload' = [upload EXCEPT ![u].status = "QUARANTINED"]
    BY <1>3, <1>8 DEF Quarantine, At, RowSteps, history
  <2>2. JobsQuiet /\ RequestsQuiet
    BY <1>2, <2>1, QuietSame, QuietRequest
  <2>3. "QUARANTINED" \in Status \ {"DELETED"} /\ {"PENDING", "QUARANTINED"} \subseteq Counted
    BY DEF Status, Counted
  <2> HIDE DEF u
  <2>4. RowsQuiet
    BY <2>1, <2>3, QuietSame, QuietStatus DEF Live
  <2> QED
    BY <2>2, <2>4 DEF Quiet
<1>9. CASE EnqueueScan(r)
  <2>1. /\ u \in Ids /\ upload[u].status # "NONE" /\ UNCHANGED <<late, purged>> /\ End(r)
        /\ \/ UNCHANGED <<upload, revived, job>>
           \/ /\ ~Deleted(u) /\ SetStatus(u, "SCANNING", "none")
              /\ job' = [job EXCEPT ![<<u, request[r].content>>].step = "queued"]
    BY <1>3, <1>9 DEF EnqueueScan, At, RowSteps
  <2>2. RequestsQuiet
    BY <1>2, <2>1, QuietRequest
  <2>3. "SCANNING" \in Status \ {"DELETED"}
    BY DEF Status, Counted
  <2>4. JobsQuiet
    BY <1>1, <2>1 DEF JobsQuiet, JobAt, Job
  <2> HIDE DEF u
  <2>5. RowsQuiet
    BY <2>1, <2>3, QuietSame, QuietStatus DEF Deleted
  <2> QED
    BY <2>2, <2>4, <2>5 DEF Quiet
<1>10. CASE MarkDeleted(r)
  <2> DEFINE v == [upload[u] EXCEPT !.status = "DELETED"]
  <2>1. /\ u \in Ids /\ At(r, "gone") /\ End(r) /\ UNCHANGED <<late, revived, purged, job>>
        /\ upload' = [upload EXCEPT ![u].status = "DELETED"]
    BY <1>3, <1>10 DEF MarkDeleted, At, RowSteps, history
  <2>2. JobsQuiet /\ RequestsQuiet
    BY <1>2, <2>1, QuietSame, QuietRequest
  <2>3. u \in purged
    BY <2>1 DEF ErasureInv
  <2>4. v \in Upload /\ v.status = "DELETED" /\ v.storageDeleted = upload[u].storageDeleted
    BY <1>1, <2>1 DEF Upload, Status
  <2>5. upload' = [upload EXCEPT ![u] = v]
    BY <1>1, <2>1
  <2>6. "DELETED" \notin Counted
    BY DEF Counted
  <2> HIDE DEF v, u
  <2>7. RowsQuiet
    BY <2>1, <2>3, <2>4, <2>5, <2>6, QuietRow
  <2> QED
    BY <2>2, <2>7 DEF Quiet
<1> QED
  BY <1>5, <1>6, <1>7, <1>8, <1>9, <1>10

\* A job takes a step, and its row is left alone.
LEMMA ScansQuiet ==
    ASSUME AccountInv, NEW j \in JobIds,
           TakeScan(j) \/ ScanUpload(j) \/ PurgeObject(j) \/ ScanFails(j)
    PROVE  Quiet
<1>1. UNCHANGED <<upload, late, revived, request>> /\ purged \subseteq purged'
  BY DEF TakeScan, ScanUpload, PurgeObject, ScanFails, DeleteObject, history
<1>2. job \in [JobIds -> Job]
  BY DEF AccountInv, TypesOK, TypeOK
<1>3. /\ \A x \in JobIds \ {j} : job'[x] = job[x]
      /\ job'[j].step = "mark" => j[1] \in purged'
  <2>1. CASE TakeScan(j)
    BY <1>2, <2>1 DEF TakeScan, NextStep, Job
  <2>2. CASE ScanUpload(j)
    BY <1>2, <2>2 DEF ScanUpload, Job
  <2>3. CASE PurgeObject(j)
    BY <1>2, <2>3 DEF PurgeObject, JobGoto, DeleteObject
  <2>4. CASE ScanFails(j)
    BY <1>2, <2>4 DEF ScanFails, JobGoto, Retried, Job
  <2> QED
    BY <2>1, <2>2, <2>3, <2>4
<1>4. JobsQuiet
  BY <1>3 DEF JobsQuiet, JobAt
<1> QED
  BY <1>1, <1>4, QuietSame DEF Quiet

\* A job writes its row.
LEMMA ScanWritesQuiet ==
    ASSUME AccountInv, ErasureInv, NEW j \in JobIds,
           StartScan(j) \/ FinalizeUploadScan(j) \/ MarkPurged(j) \/ RecoverScan(j)
    PROVE  Quiet
<1> DEFINE u == j[1]
<1>1. /\ upload \in [Ids -> Upload] /\ job \in [JobIds -> Job] /\ u \in Ids
      /\ job[j].step # "none" => upload[u].status # "NONE"
      /\ job[j].verdict \in {"none", "CLEAN", "MALICIOUS"}
  BY JobKnows DEF AccountInv, TypesOK, TypeOK
<1>2. /\ {"SCANNING", "QUARANTINED"} \subseteq Counted
      /\ {"SCANNING", "QUARANTINED", "READY", "REJECTED"} \subseteq Status \ {"DELETED"}
  BY DEF Status, Counted
<1>3. ASSUME NEW s \in JobSteps \ {"mark"}, JobGoto(j, s) PROVE JobsQuiet
  BY <1>1, <1>3 DEF JobGoto, JobsQuiet, JobAt, Job
<1>4. {"scan", "done", "purge", "recover", "queued", "dead"} \subseteq JobSteps \ {"mark"}
  BY DEF JobSteps
<1>5. CASE StartScan(j)
  <2>1. /\ JobGoto(j, "scan") /\ UNCHANGED <<late, revived, purged, request>>
        /\ job[j].step # "none"
        /\ \/ UNCHANGED upload
           \/ /\ upload[u].status \in {"QUARANTINED", "SCANNING"}
              /\ upload' = [upload EXCEPT ![u].status = "SCANNING", ![u].verdict = "none"]
    BY <1>5 DEF StartScan, JobAt, history
  <2> HIDE DEF u
  <2>2. RowsQuiet
    BY <1>1, <1>2, <2>1, QuietSame, QuietStatus DEF Live
  <2> QED
    BY <1>3, <1>4, <2>1, <2>2, QuietSame DEF Quiet
<1>6. CASE FinalizeUploadScan(j)
  <2>1. /\ \E s \in {"recover", "done", "purge"} : JobGoto(j, s)
        /\ UNCHANGED <<late, purged, request>> /\ job[j].step # "none"
        /\ \/ UNCHANGED <<upload, revived>>
           \/ /\ ~Deleted(u)
              /\ \E s \in {"READY", "REJECTED"} : SetStatus(u, s, job[j].verdict)
    BY <1>6 DEF FinalizeUploadScan, JobAt
  <2> HIDE DEF u
  <2>2. RowsQuiet
    BY <1>1, <1>2, <2>1, QuietSame, QuietStatus DEF Deleted
  <2> QED
    BY <1>3, <1>4, <2>1, <2>2, QuietSame DEF Quiet
<1>7. CASE MarkPurged(j)
  <2> DEFINE v == [upload[u] EXCEPT !.storageDeleted = TRUE]
  <2>1. /\ JobGoto(j, "done") /\ UNCHANGED <<late, revived, purged, request>>
        /\ UNCHANGED upload \/ upload' = [upload EXCEPT ![u] = v]
    BY <1>1, <1>7 DEF MarkPurged, history
  <2>2. u \in purged
    BY <1>7 DEF MarkPurged, ErasureInv
  <2>3. v \in Upload /\ v.status = upload[u].status
    BY <1>1 DEF Upload
  <2> HIDE DEF u, v
  <2>4. RowsQuiet
    BY <1>1, <2>1, <2>2, <2>3, QuietSame, QuietRow DEF Live
  <2> QED
    BY <1>3, <1>4, <2>1, <2>4, QuietSame DEF Quiet
<1>8. CASE RecoverScan(j)
  <2>1. /\ \E s \in {"queued", "dead"} : JobGoto(j, s)
        /\ UNCHANGED <<late, revived, purged, request>> /\ job[j].step # "none"
        /\ \/ UNCHANGED upload
           \/ /\ upload[u].status = "SCANNING"
              /\ upload' = [upload EXCEPT ![u].status = "QUARANTINED", ![u].verdict = "ERROR"]
    BY <1>8 DEF RecoverScan, Retried, JobAt, history
  <2> HIDE DEF u
  <2>2. RowsQuiet
    BY <1>1, <1>2, <2>1, QuietSame, QuietStatus DEF Live
  <2> QED
    BY <1>3, <1>4, <2>1, <2>2, QuietSame DEF Quiet
<1> QED
  BY <1>5, <1>6, <1>7, <1>8

\* The cleanup, and the scheduler under it.
LEMMA CleanupQuiet ==
    ASSUME AccountInv, ExpireLock \/ \E w \in Slots : SweepStep(w)
    PROVE  Quiet /\ UNCHANGED erasure
<1>1. CASE ExpireLock
  BY <1>1, QuietSame DEF ExpireLock, Sweeping, Elsewhere, Quiet
<1>2. ASSUME NEW w \in Slots, SweepStep(w) PROVE Quiet /\ UNCHANGED erasure
  <2>1. CASE ListExpired(w) \/ SweepEnds(w) \/ SchedulerStep(w) \/ \E u \in Ids : ExpireFails(w, u)
    <3>1. UNCHANGED <<upload, late, revived, purged, request, job, erasure>>
      BY <2>1 DEF ListExpired, SweepEnds, SchedulerStep, ExpireFails, Sweeping, Elsewhere
    <3> QED
      BY <3>1, QuietSame DEF Quiet
  <2>2. ASSUME NEW u \in Ids, ExpireObject(w, u) PROVE Quiet /\ UNCHANGED erasure
    <3>1. UNCHANGED <<upload, late, revived, request, job, erasure>> /\ purged \subseteq purged'
      BY <2>2 DEF ExpireObject, DeleteObject
    <3> QED
      BY <3>1, QuietSame DEF Quiet
  <2>3. CASE ExpireRow(w)
    <3>1. sweep[w].id \in Ids \cup {NoId}
      BY DEF AccountInv, TypesOK, SweepState
    <3>2. PICK u \in Ids : u = sweep[w].id
      BY <2>3, <3>1 DEF ExpireRow
    <3>3. /\ UNCHANGED <<late, revived, purged, request, job, erasure>>
          /\ \/ UNCHANGED upload
             \/ /\ upload[u].status = "PENDING"
                /\ upload' = [upload EXCEPT ![u].status = "FAILED"]
      BY <2>3, <3>2 DEF ExpireRow, Elsewhere
    <3>4. "FAILED" \in Status \ {"DELETED"} /\ "FAILED" \notin Counted
      BY DEF Status, Counted
    <3>5. RowsQuiet
      BY <3>3, <3>4, QuietSame, QuietStatus
    <3> QED
      BY <3>3, <3>5, QuietSame DEF Quiet
  <2> QED
    BY <1>2, <2>1, <2>2, <2>3 DEF SweepStep
<1> QED
  BY <1>1, <1>2

\* The event of the erasure moves: what it has deleted is known, and it is done
\* when every deleted row has its mark.
LEMMA EventKeeps ==
    ASSUME AccountInv, ErasureInv, EraseStep \/ EraseFails
    PROVE  ErasureInv'
<1>1. upload \in [Ids -> Upload] /\ erasure \in Erasure
  BY DEF AccountInv, TypesOK, TypeOK
<1>2. ASSUME Quiet, erasure.state # "none",
             erasure'.id # NoId => erasure'.id \in purged' /\ erasure'.state = "requested",
             erasure'.state = "done" => \A u \in Ids : Deleted(u)' => u \in purged'
      PROVE  ErasureInv'
  <2>1. ASSUME NEW u \in Ids, Live(u)' PROVE u \in Missed'
    BY <1>2, <2>1 DEF ErasureInv, Quiet, RowsQuiet, Missed, Listed
  <2>2. /\ \A u \in Ids : upload'[u].storageDeleted => u \in purged'
        /\ \A j \in JobIds : JobAt(j, "mark")' => j[1] \in purged'
        /\ \A r \in Requests : At(r, "gone")' => request'[r].id \in purged'
    BY <1>2 DEF ErasureInv, Quiet, RowsQuiet, JobsQuiet, RequestsQuiet
  <2> QED
    BY <1>2, <2>1, <2>2 DEF ErasureInv
<1>3. ASSUME NEW u \in Ids, EraseObject(u) PROVE ErasureInv'
  <2>1. /\ UNCHANGED <<upload, late, revived, request, job>> /\ purged \subseteq purged'
        /\ u \in purged' /\ erasure.state = "requested"
        /\ erasure' = [erasure EXCEPT !.id = u]
    BY <1>3 DEF EraseObject, DeleteObject
  <2>2. erasure'.id = u /\ erasure'.state = "requested"
    BY <1>1, <2>1 DEF Erasure
  <2>3. Quiet
    BY <2>1, QuietSame DEF Quiet
  <2> QED
    BY <1>2, <2>1, <2>2, <2>3
<1>4. ASSUME MarkErased PROVE ErasureInv'
  <2>1. erasure.id \in Ids \cup {NoId}
    BY <1>1 DEF Erasure
  <2>2. PICK u \in Ids : u = erasure.id
    BY <1>4, <2>1 DEF MarkErased
  <2> DEFINE v == [upload[u] EXCEPT !.storageDeleted = TRUE]
  <2>3. /\ UNCHANGED <<late, revived, purged, request, job>> /\ u \in purged
        /\ upload' = [upload EXCEPT ![u] = v] /\ erasure' = [erasure EXCEPT !.id = NoId]
    BY <1>1, <1>4, <2>2 DEF MarkErased, ErasureInv, history
  <2>4. v \in Upload /\ v.status = upload[u].status
    BY <1>1 DEF Upload
  <2>5. erasure'.id = NoId /\ erasure'.state = "requested" /\ erasure.state = "requested"
    BY <1>1, <1>4, <2>3 DEF Erasure, MarkErased, ErasureInv
  <2> HIDE DEF v
  <2>6. RowsQuiet
    BY <2>3, <2>4, QuietRow DEF Live, Deleted
  <2>7. Quiet
    BY <2>3, <2>6, QuietSame DEF Quiet
  <2> QED
    BY <1>2, <2>5, <2>7
<1>5. ASSUME EraseFails PROVE ErasureInv'
  <2>1. /\ UNCHANGED <<upload, late, revived, purged, request, job>> /\ erasure.state = "requested"
        /\ \/ erasure' = [erasure EXCEPT !.id = NoId, !.attempts = @ + 1]
           \/ erasure' = Settled("dead")
    BY <1>5 DEF EraseFails, history
  <2>2. erasure'.id = NoId /\ erasure'.state # "done"
    <3>1. CASE erasure' = Settled("dead")
      BY <3>1 DEF Settled
    <3>2. CASE erasure' = [erasure EXCEPT !.id = NoId, !.attempts = @ + 1]
      <4> DEFINE n == erasure.attempts + 1
      <4>1. erasure' = [erasure EXCEPT !.id = NoId, !.attempts = n]
        BY <3>2
      <4> HIDE DEF n
      <4> QED
        BY <1>1, <2>1, <4>1 DEF Erasure
    <3> QED
      BY <2>1, <3>1, <3>2
  <2>3. Quiet
    BY <2>1, QuietSame DEF Quiet
  <2> QED
    BY <1>2, <2>1, <2>2, <2>3
<1>6. ASSUME EraseEnds PROVE ErasureInv'
  <2>1. /\ UNCHANGED <<upload, late, revived, purged, request, job>> /\ erasure.state = "requested"
        /\ ToErase = {} /\ erasure'.id = NoId
    BY <1>6 DEF EraseEnds, Settled, history
  <2>2. \A u \in Ids : Deleted(u)' => u \in purged'
    BY <2>1 DEF ToErase, Deleted, ErasureInv
  <2>3. Quiet
    BY <2>1, QuietSame DEF Quiet
  <2> QED
    BY <1>2, <2>1, <2>2, <2>3
<1> QED
  BY <1>3, <1>4, <1>5, <1>6 DEF EraseStep

\* deleteAccount lists the live rows, and deletes them in its transaction.
LEMMA DeletionKeeps ==
    ASSUME AccountInv, ErasureInv, NEW r \in Requests, DeleteAccount(r) \/ EraseUploads(r)
    PROVE  ErasureInv'
<1>1. upload \in [Ids -> Upload] /\ request \in [Requests -> Request] /\ erasure \in Erasure
  BY DEF AccountInv, TypesOK, TypeOK
<1>2. CASE DeleteAccount(r)
  <2> DEFINE v == [Idle EXCEPT !.step = "erase", !.list = {u \in Ids : Live(u)}]
  <2>1. /\ request' = [request EXCEPT ![r] = v]
        /\ UNCHANGED <<upload, late, revived, purged, job, erasure>>
    BY <1>2 DEF DeleteAccount, Call, Live, rows, history
  <2>2. v.step = "erase" /\ v.list = {u \in Ids : Live(u)}
    BY DEF Idle
  <2> HIDE DEF v
  <2>3. /\ \A x \in Requests \ {r} : request'[x] = request[x]
        /\ request'[r] = v
    BY <1>1, <2>1
  <2>4. ASSUME NEW x \in Requests, At(x, "erase")', NEW u \in Ids, Live(u)'
        PROVE  u \in request'[x].list \cup Missed'
    BY <2>1, <2>2, <2>3, <2>4 DEF ErasureInv, Live, Missed, At
  <2>5. \A x \in Requests : At(x, "gone")' => request'[x].id \in purged'
    BY <2>1, <2>2, <2>3 DEF ErasureInv, At
  <2>6. /\ erasure'.state # "none" => \A u \in Ids : Live(u)' => u \in Missed'
        /\ \A u \in Ids : upload'[u].storageDeleted => u \in purged'
        /\ erasure'.id # NoId => erasure'.id \in purged' /\ erasure'.state = "requested"
        /\ \A j \in JobIds : JobAt(j, "mark")' => j[1] \in purged'
        /\ erasure'.state = "done" => \A u \in Ids : Deleted(u)' => u \in purged'
    BY <2>1 DEF ErasureInv, Live, Missed, JobAt, Deleted
  <2> QED
    BY <2>4, <2>5, <2>6 DEF ErasureInv
<1>3. CASE EraseUploads(r)
  <2>1. End(r) /\ UNCHANGED <<job, purged, revived, late>>
    BY <1>3 DEF EraseUploads
  <2>2. "idle" \in Steps
    BY DEF Steps
  <2>3. RequestsQuiet /\ JobsQuiet
    BY <2>1, <2>2, QuietSame, QuietRequest
  <2>4. CASE UNCHANGED <<upload, erasure>>
    BY <2>1, <2>3, <2>4, QuietSame, QuietKeeps DEF Quiet
  <2>5. CASE /\ upload' = [u \in Ids |-> IF u \in request[r].list
                                         THEN [upload[u] EXCEPT !.status = "DELETED"]
                                         ELSE upload[u]]
             /\ erasure' = Settled("requested")
    <3>1. ASSUME NEW u \in Ids
          PROVE  /\ upload'[u].storageDeleted = upload[u].storageDeleted
                 /\ Live(u)' => Live(u) /\ u \notin request[r].list
      <4>1. CASE u \in request[r].list
        <5>1. upload'[u] = [upload[u] EXCEPT !.status = "DELETED"]
          BY <2>5, <4>1
        <5> QED
          BY <1>1, <4>1, <5>1 DEF Live, Counted, Upload
      <4>2. CASE u \notin request[r].list
        BY <2>5, <4>2 DEF Live
      <4> QED
        BY <4>1, <4>2
    <3>2. At(r, "erase")
      BY <1>3 DEF EraseUploads
    <3>3. \A u \in Ids : Live(u)' => u \in Missed'
      BY <2>1, <3>1, <3>2 DEF ErasureInv, Missed
    <3>4. \A u \in Ids : upload'[u].storageDeleted => u \in purged'
      BY <2>1, <3>1 DEF ErasureInv
    <3>5. erasure'.id = NoId /\ erasure'.state = "requested"
      BY <2>5 DEF Settled
    <3>6. /\ \A j \in JobIds : JobAt(j, "mark")' => j[1] \in purged'
          /\ \A x \in Requests : At(x, "gone")' => request'[x].id \in purged'
      BY <2>1, <2>3 DEF ErasureInv, JobsQuiet, RequestsQuiet
    <3> QED
      BY <3>3, <3>4, <3>5, <3>6 DEF ErasureInv
  <2> QED
    BY <1>3, <2>4, <2>5 DEF EraseUploads
<1> QED
  BY <1>2, <1>3

\* The invariant holds from the start, and every step keeps it.
LEMMA ErasureStep ==
    /\ Init => ErasureInv
    /\ AccountInv /\ ErasureInv /\ [Next]_vars => ErasureInv'
<1>1. ASSUME Init PROVE ErasureInv
  <2>1. /\ \A r \in Requests : request[r] = Idle
        /\ \A j \in JobIds : job[j] = NoJob
        /\ \A u \in Ids : ~upload[u].storageDeleted
    BY <1>1 DEF Init, NoUpload
  <2>2. erasure.state = "none" /\ erasure.id = NoId
    BY <1>1 DEF Init, Settled
  <2> QED
    BY <2>1, <2>2 DEF ErasureInv, At, Idle, JobAt, NoJob
<1>2. ASSUME AccountInv, ErasureInv, [Next]_vars PROVE ErasureInv'
  <2>1. ASSUME NEW u \in Ids, PassExpiry(u) \/ \E c \in Contents : Put(u, c) PROVE ErasureInv'
    <3>1. UNCHANGED erasure
      BY <2>1 DEF PassExpiry, Put, rows
    <3> QED
      BY <1>2, <2>1, <3>1, CallsQuiet, QuietKeeps
  <2>2. ASSUME NEW r \in Requests, RequestStep(r) PROVE ErasureInv'
    <3>1. ASSUME NEW u \in Ids,
                 \/ InitiateUpload(r, u) \/ CompleteUpload(r, u)
                 \/ CreateUploadDownload(r, u) \/ DeleteUpload(r, u)
          PROVE  ErasureInv'
      <4>1. UNCHANGED erasure
        BY <3>1 DEF InitiateUpload, CompleteUpload, CreateUploadDownload, DeleteUpload, rows
      <4>2. Quiet
        BY <1>2, <3>1, CallsQuiet
      <4> QED
        BY <1>2, <4>1, <4>2, QuietKeeps
    <3>2. CASE \/ InspectObject(r) \/ ReadObjectPrefix(r) \/ OpenDownload(r) \/ ChargeQuota(r)
               \/ DiscardObject(r) \/ DeleteStoredObject(r)
      <4>1. UNCHANGED erasure
        BY <3>2 DEF InspectObject, ReadObjectPrefix, OpenDownload, ChargeQuota, DiscardObject,
                    DeleteStoredObject, rows
      <4> QED
        BY <1>2, <3>2, <4>1, ReadsQuiet, QuietKeeps
    <3>3. CASE \/ InsertUpload(r) \/ CreateUpload(r) \/ MarkWrongObject(r) \/ Quarantine(r)
               \/ EnqueueScan(r) \/ MarkDeleted(r)
      <4>1. UNCHANGED erasure
        BY <3>3 DEF InsertUpload, CreateUpload, MarkWrongObject, Quarantine, EnqueueScan,
                    MarkDeleted
      <4> QED
        BY <1>2, <3>3, <4>1, WritesQuiet, QuietKeeps
    <3> QED
      BY <1>2, <2>2, <3>1, <3>2, <3>3, DeletionKeeps DEF RequestStep
  <2>3. ASSUME NEW j \in JobIds, ScanStep(j) \/ ScanFails(j) PROVE ErasureInv'
    <3>1. UNCHANGED erasure
      BY <2>3 DEF ScanStep, TakeScan, StartScan, ScanUpload, FinalizeUploadScan, PurgeObject,
                  MarkPurged, RecoverScan, ScanFails
    <3> QED
      BY <1>2, <2>3, <3>1, ScansQuiet, ScanWritesQuiet, QuietKeeps DEF ScanStep
  <2>4. CASE UNCHANGED vars
    <3>1. UNCHANGED <<upload, late, revived, purged, request, job, erasure>>
      BY <2>4 DEF vars, rows, history
    <3> QED
      BY <1>2, <3>1, QuietSame, QuietKeeps DEF Quiet
  <2> QED
    BY <1>2, <2>1, <2>2, <2>3, <2>4, CleanupQuiet, EventKeeps, QuietKeeps DEF Next
<1> QED
  BY <1>1, <1>2

\* Once the erasure is done, the account has no live row but those its deletion
\* could not have listed or that came back from FAILED or REJECTED, and the object
\* of every deleted row has been deleted, whatever attempts threw and whatever
\* requests, scans and cleanups were under way.
THEOREM ErasureTheorem == Spec => []ErasureReachesStorage
<1>1. ErasureInv => ErasureReachesStorage
  BY DEF ErasureInv, ErasureReachesStorage, Live, Missed
<1> QED
  BY <1>1, ErasureStep, AccountInvariant, PTL DEF Spec

=============================================================================
