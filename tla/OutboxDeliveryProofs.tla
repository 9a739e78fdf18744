------------------------ MODULE OutboxDeliveryProofs ------------------------
(***************************************************************************)
(* Theorems about OutboxDelivery for any number of events, relays, workers, *)
(* redrives, attempts and faults.                                           *)
(***************************************************************************)
EXTENDS OutboxDelivery, TLAPS

\* What single writes to a row, to a job and to a worker's local state keep.
LEMMA RowStatus ==
    ASSUME TypeOK, NEW e \in Events, NEW s \in OutboxStatus \cup {"PURGED"}
    PROVE  [row EXCEPT ![e].status = s] \in [Events -> OutboxEvent]
BY DEF TypeOK, OutboxEvent

\* A status write that also clears the claim keeps the row's type.
LEMMA RowUnclaimed ==
    ASSUME TypeOK, NEW e \in Events, NEW s \in OutboxStatus
    PROVE  [row EXCEPT ![e].status = s, ![e].token = NoToken,
                       ![e].lapsed = FALSE] \in [Events -> OutboxEvent]
BY ZenonT(40) DEF TypeOK, OutboxEvent

\* Inserting the row (addOutboxEvent) keeps its type.
LEMMA RowInserted ==
    ASSUME TypeOK, NEW e \in Events, NEW s \in OutboxStatus, NEW b \in BOOLEAN
    PROVE  [row EXCEPT ![e].status = s, ![e].available = b]
              \in [Events -> OutboxEvent]
BY ZenonT(40) DEF TypeOK, OutboxEvent

\* Claiming a row keeps its type.
LEMMA RowClaimed ==
    ASSUME TypeOK, NEW e \in Events, NEW t \in Tokens
    PROVE  [row[e] EXCEPT !.status = "CLAIMED", !.token = t, !.lapsed = FALSE]
              \in OutboxEvent
<1>1. row[e] \in OutboxEvent
  BY DEF TypeOK
<1>2. QED BY <1>1 DEF OutboxEvent, OutboxStatus

\* Releasing a claim back to PENDING keeps the row's type.
LEMMA RowReleased ==
    ASSUME TypeOK, NEW e \in Events
    PROVE  [row[e] EXCEPT !.status = "PENDING", !.available = FALSE,
                          !.token = NoToken, !.lapsed = FALSE] \in OutboxEvent
<1>1. row[e] \in OutboxEvent
  BY DEF TypeOK
<1>2. QED BY <1>1 DEF OutboxEvent, OutboxStatus

\* The dead lettering of deleteAccount keeps the row's type.
LEMMA RowErased ==
    ASSUME TypeOK, NEW e \in Events
    PROVE  [row[e] EXCEPT !.expired = TRUE, !.status = "DEAD_LETTER",
                          !.token = NoToken, !.lapsed = FALSE] \in OutboxEvent
<1>1. row[e] \in OutboxEvent
  BY DEF TypeOK
<1>2. QED BY <1>1 DEF OutboxEvent, OutboxStatus

\* A new state and holder keep a job's type.
LEMMA JobMoved ==
    ASSUME TypeOK, NEW e \in Events, NEW g \in Generations,
           NEW s \in JobStates, NEW h \in Workers \cup {NoWorker}
    PROVE  [job EXCEPT ![<<e, g>>].state = s, ![<<e, g>>].holder = h]
              \in [JobIds -> Job]
BY DEF TypeOK, JobIds, Job

\* queue.add keeps the type of the jobs, whether or not it adds one.
LEMMA JobAdded ==
    ASSUME TypeOK, NEW r \in Relays, NEW e \in Events
    PROVE  Added(e, task[<<r, e>>].gen) \in [JobIds -> Job]
<1>1. [NoJob EXCEPT !.state = "WAITING"] \in Job
  BY DEF NoJob, Job, JobStates
<1>2. task[<<r, e>>].gen \in Generations
  BY DEF TypeOK, TaskIds, RelayTask
<1>3. QED BY <1>1, <1>2 DEF TypeOK, Added, JobIds

\* The stalled-job check keeps the type of the jobs.
LEMMA JobStalled ==
    ASSUME TypeOK, NEW e \in Events, NEW g \in Generations, Stalled(e, g)
    PROVE  job' \in [JobIds -> Job]
<1>1. CASE job[<<e, g>>].stalls < MaxStalledCount
  <2>1. job' = [job EXCEPT ![<<e, g>>].state = "WAITING",
                           ![<<e, g>>].stalls = @ + 1,
                           ![<<e, g>>].holder = NoWorker]
    BY <1>1 DEF Stalled
  <2>2. QED BY SMTT(30), <2>1 DEF TypeOK, JobIds, Job, JobStates
<1>2. CASE ~(job[<<e, g>>].stalls < MaxStalledCount)
  <2>1. job' = [job EXCEPT ![<<e, g>>].state = "FAILED",
                           ![<<e, g>>].holder = NoWorker]
    BY <1>2 DEF Stalled
  <2>2. QED BY <2>1, JobMoved DEF JobStates
<1>3. QED BY <1>1, <1>2

\* A slot that is not idle works on an event, for a generation and an attempt.
LEMMA RunningWorker ==
    ASSUME TypeOK, NEW w \in Workers, ~At(w, "idle")
    PROVE  /\ worker[w].event \in Events
           /\ worker[w].gen \in Generations
           /\ worker[w].attemptsMade \in Nat
BY DEF TypeOK, WorkersOK, WorkerState

\* Every action keeps the types of outbox_events, notification_deliveries,
\* the BullMQ jobs and the processes' local state.
LEMMA TypeStep == ASSUME TypeOK, [Next]_vars PROVE TypeOK'
<1> USE NullsAssumption, BoundsAssumption
<1>1. ASSUME NEW e \in Events, BusinessStep(e)
      PROVE TypeOK'
  <2>1. CASE \E available \in BOOLEAN : AddOutboxEvent(e, available)
    <3>1. row' \in [Events -> OutboxEvent]
      <4>1. PICK available \in BOOLEAN : AddOutboxEvent(e, available)
        BY <2>1
      <4>2. row' = [row EXCEPT ![e].status = "PENDING",
                               ![e].available = available]
        BY <4>1 DEF AddOutboxEvent
      <4>3. QED BY <4>2, RowInserted DEF OutboxStatus
    <3>2. QED BY <2>1, <3>1 DEF TypeOK, AddOutboxEvent, WorkersOK, At
  <2>2. CASE PassExpiry(e)
    <3>1. row' \in [Events -> OutboxEvent]
      BY ZenonT(40), <2>2 DEF TypeOK, PassExpiry, OutboxEvent, OutboxStatus
    <3>2. QED BY <2>2, <3>1 DEF TypeOK, PassExpiry, WorkersOK, At
  <2>3. CASE RedriveDeadLetterEvent(e)
    <3>1. row' \in [Events -> OutboxEvent]
      BY <2>3 DEF TypeOK, RedriveDeadLetterEvent, Generations, OutboxEvent,
         OutboxStatus
    <3>2. QED BY <2>3, <3>1 DEF TypeOK, RedriveDeadLetterEvent, WorkersOK, At
  <2>4. CASE EraseAccount(e)
    <3>1. row' \in [Events -> OutboxEvent]
      <4>1. CASE row[e].status \in Terminal
        BY ZenonT(40), <2>4, <4>1 DEF TypeOK, EraseAccount, OutboxEvent
      <4>2. CASE row[e].status \notin Terminal
        BY <2>4, <4>2, RowErased DEF TypeOK, EraseAccount
      <4>3. QED BY <4>1, <4>2
    <3>2. QED BY <2>4, <3>1 DEF TypeOK, EraseAccount, WorkersOK, At
  <2>5. CASE PurgeTerminal(e)
    <3>1. row' \in [Events -> OutboxEvent]
      BY <2>5, RowStatus DEF PurgeTerminal
    <3>2. delivery' \in [Events -> DeliveryStatus]
      BY <2>5 DEF TypeOK, PurgeTerminal, DeliveryStatus
    <3>3. QED BY <2>5, <3>1, <3>2 DEF TypeOK, PurgeTerminal, WorkersOK, At
  <2>6. CASE ProcessEmailProviderEvent(e)
    <3>1. delivery' \in [Events -> DeliveryStatus]
      BY <2>6 DEF TypeOK, ProcessEmailProviderEvent, DeliveryStatus
    <3>2. QED BY <2>6, <3>1 DEF TypeOK, ProcessEmailProviderEvent, WorkersOK,
       At
  <2>7. QED BY <1>1, <2>1, <2>2, <2>3, <2>4, <2>5, <2>6 DEF BusinessStep
<1>2. ASSUME NEW e \in Events, ClockStep(e)
      PROVE TypeOK'
  <2>1. CASE BecomeAvailable(e)
    <3>1. row' \in [Events -> OutboxEvent]
      BY ZenonT(40), <2>1 DEF TypeOK, BecomeAvailable, OutboxEvent, OutboxStatus
    <3>2. QED BY <2>1, <3>1 DEF TypeOK, BecomeAvailable, WorkersOK, At
  <2>2. CASE LapseLease(e)
    <3>1. row' \in [Events -> OutboxEvent]
      BY ZenonT(40), <2>2 DEF TypeOK, LapseLease, OutboxEvent, OutboxStatus
    <3>2. QED BY <2>2, <3>1 DEF TypeOK, LapseLease, WorkersOK, At
  <2>3. QED BY <1>2, <2>1, <2>2 DEF ClockStep
<1>3. ASSUME NEW r \in Relays, ClaimStep(r)
      PROVE TypeOK'
  <2>1. PICK batch \in SUBSET Events, token \in Tokens :
            ClaimOutboxBatch(r, batch, token)
    BY <1>3 DEF ClaimStep
  <2>2. row' \in [Events -> OutboxEvent]
    <3>1. \A e \in Events :
            [row[e] EXCEPT !.status = "CLAIMED", !.token = token, !.lapsed = FALSE]
                \in OutboxEvent
      BY RowClaimed
    <3>2. QED BY <2>1, <3>1 DEF TypeOK, ClaimOutboxBatch
  <2>3. task' \in [TaskIds -> RelayTask]
    BY <2>1 DEF TypeOK, ClaimOutboxBatch, OutboxEvent, TaskIds, RelayTask
  <2>4. QED
    BY <2>1, <2>2, <2>3 DEF TypeOK, ClaimOutboxBatch, WorkersOK, At
<1>4. ASSUME NEW r \in Relays, RelayCrash(r)
      PROVE TypeOK'
  <2>1. CASE RelayCrash(r)
    <3>1. task' \in [TaskIds -> RelayTask]
      BY <2>1 DEF TypeOK, RelayCrash, Generations, TaskIds, RelayTask, NoTask
    <3>2. faults' \in [FaultKinds -> Nat]
      BY <2>1 DEF TypeOK, RelayCrash, FaultKinds, Spend
    <3>3. QED BY <2>1, <3>1, <3>2 DEF TypeOK, RelayCrash, WorkersOK, At
  <2>2. QED BY <1>4, <2>1
<1>5. ASSUME NEW r \in Relays, NEW e \in Events, TaskStep(r, e)
      PROVE TypeOK'
  <2>1. CASE AddJob(r, e)
    <3>1. job' \in [JobIds -> Job]
      BY <2>1, JobAdded DEF AddJob
    <3>2. task' \in [TaskIds -> RelayTask]
      BY SMTT(30), <2>1 DEF TypeOK, AddJob, TaskIds, RelayTask, NoTask
    <3>3. QED BY <2>1, <3>1, <3>2 DEF TypeOK, AddJob, WorkersOK, At
  <2>2. CASE MarkEnqueued(r, e)
    <3>1. row' \in [Events -> OutboxEvent]
      BY <2>2, RowUnclaimed DEF TypeOK, MarkEnqueued, OutboxStatus
    <3>2. task' \in [TaskIds -> RelayTask]
      BY <2>2 DEF TypeOK, MarkEnqueued, Generations, TaskIds, RelayTask,
         NoTask
    <3>3. QED BY <2>2, <3>1, <3>2 DEF TypeOK, MarkEnqueued, WorkersOK, At
  <2>3. CASE ReleaseClaimAfterEnqueueFailure(r, e)
    <3>1. row' \in [Events -> OutboxEvent]
      <4>1. CASE HoldsClaim(r, e)
        BY <2>3, <4>1, RowReleased DEF TypeOK, ReleaseClaimAfterEnqueueFailure
      <4>2. CASE ~HoldsClaim(r, e)
        BY <2>3, <4>2 DEF TypeOK, ReleaseClaimAfterEnqueueFailure
      <4>3. QED BY <4>1, <4>2
    <3>2. task' \in [TaskIds -> RelayTask]
      BY <2>3 DEF TypeOK, ReleaseClaimAfterEnqueueFailure, Generations,
         TaskIds, RelayTask, NoTask
    <3>3. QED BY <2>3, <3>1, <3>2 DEF TypeOK, ReleaseClaimAfterEnqueueFailure,
       WorkersOK, At
  <2>4. QED BY <1>5, <2>1, <2>2, <2>3 DEF TaskStep
<1>6. ASSUME NEW r \in Relays, NEW e \in Events, TaskFault(r, e)
      PROVE TypeOK'
  <2>1. CASE AddJobFails(r, e)
    <3>1. job' \in [JobIds -> Job]
      BY <2>1, JobAdded DEF AddJobFails, TypeOK
    <3>2. task' \in [TaskIds -> RelayTask]
      BY <2>1 DEF TypeOK, AddJobFails, TaskIds, RelayTask, NoTask
    <3>3. faults' \in [FaultKinds -> Nat]
      BY <2>1 DEF TypeOK, AddJobFails, FaultKinds, Spend
    <3>4. QED BY <2>1, <3>1, <3>2, <3>3 DEF TypeOK, AddJobFails, WorkersOK, At
  <2>2. CASE MarkEnqueuedFails(r, e)
    <3>1. task' \in [TaskIds -> RelayTask]
      BY SMTT(30), <2>2 DEF TypeOK, MarkEnqueuedFails, TaskIds, RelayTask, NoTask
    <3>2. faults' \in [FaultKinds -> Nat]
      BY <2>2 DEF TypeOK, MarkEnqueuedFails, FaultKinds, Spend
    <3>3. QED BY <2>2, <3>1, <3>2 DEF TypeOK, MarkEnqueuedFails, WorkersOK, At
  <2>3. CASE ReleaseClaimFails(r, e)
    <3>1. task' \in [TaskIds -> RelayTask]
      BY <2>3 DEF TypeOK, ReleaseClaimFails, Generations, TaskIds, RelayTask,
         NoTask
    <3>2. faults' \in [FaultKinds -> Nat]
      BY <2>3 DEF TypeOK, ReleaseClaimFails, FaultKinds, Spend
    <3>3. QED BY <2>3, <3>1, <3>2 DEF TypeOK, ReleaseClaimFails, WorkersOK, At
  <2>4. QED BY <1>6, <2>1, <2>2, <2>3 DEF TaskFault
<1>7. ASSUME NEW w \in Workers, TakeStep(w)
      PROVE TypeOK'
  <2>1. PICK e \in Events, g \in Generations : TakeJob(w, e, g)
    BY <1>7 DEF TakeStep
  <2>2. job' \in [JobIds -> Job]
    BY <2>1, JobMoved DEF TakeJob, JobStates
  <2>3. job[<<e, g>>].attemptsMade \in Nat
    BY DEF TypeOK, JobIds, Job
  <2>4. WorkersOK'
    BY <2>1, <2>3 DEF TypeOK, TakeJob, WorkersOK, WorkerState, WorkerSteps, At
  <2>5. QED BY <2>1, <2>2, <2>4 DEF TypeOK, TakeJob
<1>8. ASSUME NEW w \in Workers, ProcessStep(w)
      PROVE TypeOK'
  <2>1. CASE ReadEvent(w)
    <3>1. WorkersOK'
      BY <2>1 DEF TypeOK, ReadEvent, WorkersOK, WorkerState, WorkerSteps,
         OwningSteps, IdleWorker, At, Goto
    <3>2. QED BY <2>1, <3>1 DEF TypeOK, ReadEvent
  <2>2. CASE ExpireEvent(w)
    <3>1. row' \in [Events -> OutboxEvent]
      <4>1. worker[w].event \in Events /\ worker[w].gen \in Generations
        BY <2>2, RunningWorker DEF ExpireEvent, At
      <4>2. QED BY <2>2, <4>1, RowStatus DEF TypeOK, ExpireEvent, OutboxStatus
    <3>2. WorkersOK'
      BY <2>2 DEF TypeOK, ExpireEvent, WorkersOK, WorkerState, WorkerSteps,
         OwningSteps, IdleWorker, At, Goto
    <3>3. QED BY <2>2, <3>1, <3>2 DEF TypeOK, ExpireEvent
  <2>3. CASE StartProcessing(w)
    <3>1. row' \in [Events -> OutboxEvent]
      <4>1. worker[w].event \in Events /\ worker[w].gen \in Generations
        BY <2>3, RunningWorker DEF StartProcessing, Startable, At
      <4>2. CASE row' = row
        BY <4>2 DEF TypeOK
      <4>3. CASE row' # row
        <5>1. row' = [row EXCEPT ![worker[w].event].status = "PROCESSING",
                                 ![worker[w].event].token = NoToken,
                                 ![worker[w].event].lapsed = FALSE]
          BY <2>3, <4>3 DEF StartProcessing, Startable
        <5>2. QED BY <4>1, <5>1, RowUnclaimed DEF OutboxStatus
      <4>4. QED BY <4>2, <4>3
    <3>2. WorkersOK'
      BY SMTT(30), <2>3 DEF TypeOK, StartProcessing, Startable, WorkersOK,
         WorkerState, WorkerSteps, OwningSteps, IdleWorker, At, Goto
    <3>3. QED BY <2>3, <3>1, <3>2 DEF TypeOK, StartProcessing, Startable
  <2>4. CASE LookupDelivery(w)
    <3>1. WorkersOK'
      BY <2>4 DEF TypeOK, LookupDelivery, WorkersOK, WorkerState, WorkerSteps,
         OwningSteps, IdleWorker, At, Goto
    <3>2. QED BY <2>4, <3>1 DEF TypeOK, LookupDelivery
  <2>5. CASE UpsertDelivery(w)
    <3>1. delivery' \in [Events -> DeliveryStatus]
      BY <2>5 DEF TypeOK, UpsertDelivery, DeliveryStatus
    <3>2. WorkersOK'
      BY SMTT(30), <2>5 DEF TypeOK, UpsertDelivery, WorkersOK, WorkerState, WorkerSteps,
         OwningSteps, IdleWorker, At, Goto
    <3>3. QED BY <2>5, <3>1, <3>2 DEF TypeOK, UpsertDelivery
  <2>6. CASE FinishRecorded(w)
    <3>1. row' \in [Events -> OutboxEvent]
      <4>1. worker[w].event \in Events /\ worker[w].gen \in Generations
        BY <2>6, RunningWorker DEF FinishRecorded, At
      <4>2. QED BY <2>6, <4>1, RowStatus DEF TypeOK, FinishRecorded,
         Finalized, OutboxStatus
    <3>2. WorkersOK'
      BY <2>6 DEF TypeOK, FinishRecorded, WorkersOK, WorkerState, WorkerSteps,
         OwningSteps, IdleWorker, At, Goto
    <3>3. QED BY <2>6, <3>1, <3>2 DEF TypeOK, FinishRecorded
  <2>7. CASE SendAccepted(w)
    <3>1. WorkersOK'
      BY <2>7 DEF TypeOK, SendAccepted, WorkersOK, WorkerState, WorkerSteps,
         OwningSteps, IdleWorker, At, Goto
    <3>2. handled' \subseteq Events
      BY <2>7 DEF TypeOK, SendAccepted, WorkersOK, At
    <3>3. QED BY <2>7, <3>1, <3>2 DEF TypeOK, SendAccepted
  <2>8. CASE SendFails(w)
    <3>1. WorkersOK'
      BY <2>8 DEF TypeOK, SendFails, WorkersOK, WorkerState, WorkerSteps,
         OwningSteps, IdleWorker, At, Goto
    <3>2. handled' \subseteq Events
      BY <2>8 DEF TypeOK, SendFails, WorkersOK, At
    <3>3. QED BY <2>8, <3>1, <3>2 DEF TypeOK, SendFails
  <2>9. CASE RecordDeliveryResult(w)
    <3>1. delivery' \in [Events -> DeliveryStatus]
      BY <2>9 DEF TypeOK, RecordDeliveryResult, DeliveryStatus
    <3>2. WorkersOK'
      BY <2>9 DEF TypeOK, RecordDeliveryResult, WorkersOK, WorkerState,
         WorkerSteps, OwningSteps, IdleWorker, At, Goto
    <3>3. recorded' \subseteq Events
      BY <2>9 DEF TypeOK, RecordDeliveryResult, WorkersOK, At
    <3>4. QED BY <2>9, <3>1, <3>2, <3>3 DEF TypeOK, RecordDeliveryResult
  <2>10. CASE FinalizeDelivery(w)
    <3>1. row' \in [Events -> OutboxEvent]
      <4>1. worker[w].event \in Events /\ worker[w].gen \in Generations
        BY <2>10, RunningWorker DEF FinalizeDelivery, At
      <4>2. QED BY <2>10, <4>1, RowStatus DEF TypeOK, FinalizeDelivery,
         Finalized, OutboxStatus
    <3>2. WorkersOK'
      BY <2>10 DEF TypeOK, FinalizeDelivery, WorkersOK, WorkerState,
         WorkerSteps, OwningSteps, IdleWorker, At, Goto
    <3>3. QED BY <2>10, <3>1, <3>2 DEF TypeOK, FinalizeDelivery
  <2>11. CASE RecordDeliveryError(w)
    <3>1. delivery' \in [Events -> DeliveryStatus]
      BY <2>11 DEF TypeOK, RecordDeliveryError, DeliveryStatus
    <3>2. WorkersOK'
      BY <2>11 DEF TypeOK, RecordDeliveryError, WorkersOK, WorkerState,
         WorkerSteps, OwningSteps, IdleWorker, At, Goto
    <3>3. QED BY <2>11, <3>1, <3>2 DEF TypeOK, RecordDeliveryError
  <2>12. CASE RecordDeliveryFailure(w)
    <3>1. row' \in [Events -> OutboxEvent]
      <4>1. worker[w].event \in Events /\ worker[w].gen \in Generations
        BY <2>12, RunningWorker DEF RecordDeliveryFailure, At
      <4>2. QED BY <2>12, <4>1, RowStatus DEF TypeOK, RecordDeliveryFailure,
         Failed, DeliveryFailureDisposition, OutboxStatus
    <3>2. WorkersOK'
      BY <2>12 DEF TypeOK, RecordDeliveryFailure, WorkersOK, WorkerState,
         WorkerSteps, OwningSteps, IdleWorker, At, Goto
    <3>3. QED BY <2>12, <3>1, <3>2 DEF TypeOK, RecordDeliveryFailure
  <2>13. CASE CompleteJob(w)
    <3>1. job' \in [JobIds -> Job]
      <4>1. worker[w].event \in Events /\ worker[w].gen \in Generations
        BY <2>13, RunningWorker DEF CompleteJob, At
      <4>2. QED BY <2>13, <4>1, JobMoved DEF TypeOK, CompleteJob, JobStates
    <3>2. WorkersOK'
      BY <2>13 DEF TypeOK, CompleteJob, Generations, WorkersOK, WorkerState,
         WorkerSteps, OwningSteps, IdleWorker, At, Goto
    <3>3. QED BY <2>13, <3>1, <3>2 DEF TypeOK, CompleteJob
  <2>14. CASE FailJob(w)
    <3>1. job' \in [JobIds -> Job]
      <4> DEFINE e == worker[w].event
                 g == worker[w].gen
      <4>1. /\ e \in Events /\ g \in Generations
            /\ worker[w].attemptsMade + 1 \in Nat
        BY <2>14, RunningWorker DEF FailJob, At
      <4>2. CASE job[<<e, g>>].holder # w
        BY <2>14, <4>2 DEF FailJob, TypeOK
      <4>3. CASE job[<<e, g>>].holder = w
        <5>1. PICK s \in JobStates :
                job' = [job EXCEPT ![<<e, g>>] =
                          [@ EXCEPT !.state = s,
                                    !.attemptsMade = worker[w].attemptsMade + 1,
                                    !.holder = NoWorker]]
          BY <2>14, <4>3 DEF FailJob, JobStates
        <5>2. job[<<e, g>>] \in Job
          BY <4>1 DEF TypeOK, JobIds
        <5>3. [job[<<e, g>>] EXCEPT !.state = s,
                                    !.attemptsMade = worker[w].attemptsMade + 1,
                                    !.holder = NoWorker] \in Job
          BY <4>1, <5>2 DEF Job
        <5>4. QED BY <5>1, <5>3 DEF TypeOK
      <4>4. QED BY <4>2, <4>3
    <3>2. reconciling' \subseteq JobIds
      BY <2>14 DEF TypeOK, FailJob, WorkersOK, WorkerState, At, JobIds
    <3>3. WorkersOK'
      BY <2>14 DEF TypeOK, FailJob, Generations, WorkersOK, WorkerState,
         WorkerSteps, OwningSteps, IdleWorker, At, Goto
    <3>4. QED BY <2>14, <3>1, <3>2, <3>3 DEF TypeOK, FailJob
  <2>15. QED BY <1>8, <2>1, <2>2, <2>3, <2>4, <2>5, <2>6, <2>7, <2>8, <2>9,
     <2>10, <2>11, <2>12, <2>13, <2>14 DEF ProcessStep
<1>9. ASSUME NEW w \in Workers, WorkerCrash(w)
      PROVE TypeOK'
  <2>1. CASE WorkerCrash(w)
    <3>1. job' \in [JobIds -> Job]
      BY ZenonT(40), <2>1 DEF TypeOK, WorkerCrash, JobIds, Job, NoJob
    <3>2. WorkersOK'
      BY <2>1 DEF TypeOK, WorkerCrash, Generations, WorkersOK, WorkerState,
         WorkerSteps, OwningSteps, IdleWorker, At, Goto
    <3>3. faults' \in [FaultKinds -> Nat]
      BY <2>1 DEF TypeOK, WorkerCrash, FaultKinds, Spend
    <3>4. QED BY <2>1, <3>1, <3>2, <3>3 DEF TypeOK, WorkerCrash
  <2>2. QED BY <1>9, <2>1
<1>10. ASSUME NEW w \in Workers, DatabaseError(w)
      PROVE TypeOK'
  <2>1. CASE DatabaseError(w)
    <3>1. WorkersOK'
      BY SMTT(30), <2>1 DEF TypeOK, DatabaseError, WorkersOK, WorkerState, WorkerSteps,
         OwningSteps, IdleWorker, At, Goto
    <3>2. faults' \in [FaultKinds -> Nat]
      BY <2>1 DEF TypeOK, DatabaseError, FaultKinds, Spend
    <3>3. QED BY <2>1, <3>1, <3>2 DEF TypeOK, DatabaseError
  <2>2. QED BY <1>10, <2>1
<1>11. ASSUME NEW e \in Events, NEW g \in Generations, QueueStep(e, g)
      PROVE TypeOK'
  <2>1. CASE StallOrphanedJob(e, g)
    <3>1. job' \in [JobIds -> Job]
      BY <2>1, JobStalled DEF StallOrphanedJob
    <3>2. reconciling' \subseteq JobIds
      BY <2>1 DEF TypeOK, StallOrphanedJob, Stalled, JobIds
    <3>3. QED BY <2>1, <3>1, <3>2 DEF TypeOK, StallOrphanedJob, WorkersOK, At
  <2>2. CASE ReconcileExhaustedJob(e, g)
    <3>1. row' \in [Events -> OutboxEvent]
      BY <2>2 DEF TypeOK, ReconcileExhaustedJob, Failed, OutboxEvent,
         OutboxStatus
    <3>2. reconciling' \subseteq JobIds
      BY <2>2 DEF TypeOK, ReconcileExhaustedJob, JobIds
    <3>3. QED BY <2>2, <3>1, <3>2 DEF TypeOK, ReconcileExhaustedJob,
       WorkersOK, At
  <2>3. QED BY <1>11, <2>1, <2>2 DEF QueueStep
<1>12. ASSUME NEW e \in Events, NEW g \in Generations, StallRunningJob(e, g)
      PROVE TypeOK'
  <2>1. CASE StallRunningJob(e, g)
    <3>1. job' \in [JobIds -> Job]
      BY <2>1, JobStalled DEF StallRunningJob
    <3>2. reconciling' \subseteq JobIds
      BY <2>1 DEF TypeOK, StallRunningJob, Stalled, JobIds
    <3>3. faults' \in [FaultKinds -> Nat]
      BY <2>1 DEF TypeOK, StallRunningJob, FaultKinds, Spend
    <3>4. QED BY <2>1, <3>1, <3>2, <3>3 DEF TypeOK, StallRunningJob,
       WorkersOK, At
  <2>2. QED BY <1>12, <2>1
<1>13. ASSUME NEW e \in Events, NEW g \in Generations, RemoveFinishedJob(e, g)
      PROVE TypeOK'
  <2>1. CASE RemoveFinishedJob(e, g)
    <3>1. job' \in [JobIds -> Job]
      <4>1. [NoJob EXCEPT !.state = "REMOVED"] \in Job
        BY DEF NoJob, Job, JobStates
      <4>2. QED BY <2>1, <4>1 DEF TypeOK, RemoveFinishedJob, JobIds
    <3>2. QED BY <2>1, <3>1 DEF TypeOK, RemoveFinishedJob, WorkersOK, At
  <2>2. QED BY <1>13, <2>1
<1>14. ASSUME NEW e \in Events, NEW g \in Generations, ReconcileFails(e, g)
      PROVE TypeOK'
  <2>1. CASE ReconcileFails(e, g)
    <3>1. reconciling' \subseteq JobIds
      BY <2>1 DEF TypeOK, ReconcileFails, JobIds
    <3>2. faults' \in [FaultKinds -> Nat]
      BY <2>1 DEF TypeOK, ReconcileFails, FaultKinds, Spend
    <3>3. QED BY <2>1, <3>1, <3>2 DEF TypeOK, ReconcileFails, WorkersOK, At
  <2>2. QED BY <1>14, <2>1
<1>15. CASE UNCHANGED vars
  BY <1>15 DEF vars, TypeOK, WorkersOK, At
<1>16. QED BY <1>1, <1>2, <1>3, <1>4, <1>5, <1>6, <1>7, <1>8, <1>9, <1>10,
   <1>11, <1>12, <1>13, <1>14, <1>15 DEF Next

\* Type correctness of the outbox, the queue and the processes.
THEOREM TypeCorrect == Spec => []TypeOK
<1>1. Init => TypeOK
  <2> SUFFICES ASSUME Init PROVE TypeOK
    OBVIOUS
  <2> USE BoundsAssumption DEF Init, Generations
  <2>1. row \in [Events -> OutboxEvent]
    BY DEF NewRow, OutboxEvent
  <2>2. job \in [JobIds -> Job]
    BY DEF NoJob, Job, JobStates
  <2>3. task \in [TaskIds -> RelayTask]
    BY DEF NoTask, RelayTask
  <2>4. WorkersOK
    BY DEF WorkersOK, WorkerState, WorkerSteps, IdleWorker, At
  <2>5. QED BY <2>1, <2>2, <2>3, <2>4 DEF TypeOK, DeliveryStatus
<1>2. QED BY <1>1, TypeStep, PTL DEF Spec

-----------------------------------------------------------------------------
(* What one step may do to a row and to a worker.                           *)

Unmoved(x) == row'[x].status = row[x].status /\ row'[x].gen = row[x].gen
Redriven(x) ==
    /\ row[x].status = "DEAD_LETTER" /\ row'[x].status = "PENDING"
    /\ row'[x].gen = row[x].gen + 1
Buried(x) ==
    /\ row[x].status \in OutboxStatus \ Terminal
    /\ row'[x].status = "DEAD_LETTER" /\ row'[x].gen = row[x].gen
Purged(x) ==
    /\ row[x].status \in Terminal
    /\ row'[x].status = "PURGED" /\ row'[x].gen = row[x].gen
Inserted(x) ==
    /\ row[x].status = "NONE" /\ row'[x].status = "PENDING"
    /\ row'[x].gen = row[x].gen
Relayed(x) ==
    /\ row[x].status \in {"PENDING", "CLAIMED"}
    /\ row'[x].gen = row[x].gen
    /\ \/ row'[x].status \in {"PENDING", "CLAIMED"}
       \/ /\ row'[x].status = "ENQUEUED"
          /\ \E r \in Relays : task[<<r, x>>].step = "mark" /\ HoldsClaim(r, x)
Started(x) ==
    /\ row[x].status \in {"ENQUEUED", "FAILED"}
    /\ row'[x].status = "PROCESSING" /\ row'[x].gen = row[x].gen
    /\ \E w \in Workers : /\ ~At(w, "idle") /\ worker[w].event = x
                          /\ worker[w].gen = row[x].gen
Finished(x) ==
    /\ row[x].status = "PROCESSING"
    /\ row'[x].status = "DELIVERED" /\ row'[x].gen = row[x].gen
    /\ \E w \in Workers : /\ Owns(w, x, row[x].gen)
                          /\ worker[w].step \in {"finalize", "finishRecorded"}
                          /\ worker'[w].step = "return"
Requeued(x) ==
    /\ row[x].status \in OutboxStatus \ Terminal
    /\ row'[x].status = "ENQUEUED" /\ row'[x].gen = row[x].gen
    /\ \E w \in Workers : /\ Owns(w, x, row[x].gen)
                          /\ worker[w].step = "recordFailure"
                          /\ worker'[w].step = "throw"

RowMoves(x) ==
    \/ Unmoved(x) \/ Redriven(x) \/ Buried(x) \/ Purged(x) \/ Inserted(x)
    \/ Relayed(x) \/ Started(x) \/ Finished(x) \/ Requeued(x)

\* A step that writes only the status of one row moves no other row.
LEMMA StatusWrite ==
    ASSUME TypeOK, NEW e \in Events, NEW s,
           row' = [row EXCEPT ![e].status = s]
    PROVE  /\ row'[e].status = s /\ row'[e].gen = row[e].gen
           /\ \A x \in Events \ {e} : Unmoved(x)
BY DEF TypeOK, OutboxEvent, Unmoved

\* A step that writes a status and clears the claim moves no other row.
LEMMA UnclaimingWrite ==
    ASSUME TypeOK, NEW e \in Events, NEW s,
           row' = [row EXCEPT ![e].status = s, ![e].token = NoToken,
                              ![e].lapsed = FALSE]
    PROVE  /\ row'[e].status = s /\ row'[e].gen = row[e].gen
           /\ \A x \in Events \ {e} : Unmoved(x)
BY DEF TypeOK, OutboxEvent, Unmoved

\* A worker that moves on keeps its event, its generation and its attempt, and
\* no other worker moves.
LEMMA WorkerWrite ==
    ASSUME TypeOK, NEW w \in Workers, NEW s, Goto(w, s)
    PROVE  /\ worker'[w].step = s
           /\ worker'[w].event = worker[w].event
           /\ worker'[w].gen = worker[w].gen
           /\ \A v \in Workers \ {w} : worker'[v] = worker[v]
BY DEF TypeOK, WorkersOK, WorkerState, Goto

\* The transitions of outbox_events.status and deliveryGeneration: every write
\* of the relay, the workers, the redrive, account erasure and retention is
\* one of them.
LEMMA RowStep ==
    ASSUME TypeOK, [Next]_vars, NEW x \in Events
    PROVE  RowMoves(x)
<1>1. CASE UNCHANGED row
  BY <1>1 DEF RowMoves, Unmoved
<1>2. ASSUME NEW e \in Events, BusinessStep(e) PROVE RowMoves(x)
  <2>1. CASE \E available \in BOOLEAN : AddOutboxEvent(e, available)
    <3>1. PICK available \in BOOLEAN : AddOutboxEvent(e, available)
      BY <2>1
    <3>2. QED
      BY <3>1 DEF AddOutboxEvent, TypeOK, OutboxEvent, RowMoves, Unmoved,
         Inserted
  <2>2. CASE PassExpiry(e)
    BY <2>2 DEF PassExpiry, TypeOK, OutboxEvent, RowMoves, Unmoved
  <2>3. CASE RedriveDeadLetterEvent(e)
    BY <2>3 DEF RedriveDeadLetterEvent, TypeOK, OutboxEvent, RowMoves,
       Unmoved, Redriven
  <2>4. CASE EraseAccount(e)
    BY <2>4 DEF EraseAccount, Exists, TypeOK, OutboxEvent, RowMoves, Unmoved,
       Buried
  <2>5. CASE PurgeTerminal(e)
    BY <2>5, StatusWrite DEF PurgeTerminal, RowMoves, Purged
  <2>6. CASE ProcessEmailProviderEvent(e)
    BY <1>1, <2>6 DEF ProcessEmailProviderEvent
  <2>7. QED BY <1>2, <2>1, <2>2, <2>3, <2>4, <2>5, <2>6 DEF BusinessStep
<1>3. ASSUME NEW e \in Events, ClockStep(e) PROVE RowMoves(x)
  BY <1>3 DEF ClockStep, BecomeAvailable, LapseLease, TypeOK, OutboxEvent,
     RowMoves, Unmoved
<1>4. ASSUME NEW r \in Relays, ClaimStep(r) PROVE RowMoves(x)
  <2>1. PICK batch \in SUBSET Events, token \in Tokens :
            ClaimOutboxBatch(r, batch, token)
    BY <1>4 DEF ClaimStep
  <2>2. QED
    BY <2>1 DEF ClaimOutboxBatch, Claimable, TypeOK, OutboxEvent, RowMoves,
       Unmoved, Relayed
<1>5. ASSUME NEW r \in Relays, NEW e \in Events, TaskStep(r, e)
      PROVE  RowMoves(x)
  <2>1. CASE AddJob(r, e)
    BY <1>1, <2>1 DEF AddJob
  <2>2. CASE MarkEnqueued(r, e) /\ HoldsClaim(r, e)
    <3>1. /\ row[e].status = "CLAIMED"
          /\ row' = [row EXCEPT ![e].status = "ENQUEUED",
                                ![e].token = NoToken, ![e].lapsed = FALSE]
      BY <2>2 DEF MarkEnqueued, HoldsClaim
    <3>2. QED
      BY ZenonT(40), <2>2, <3>1, UnclaimingWrite DEF MarkEnqueued, RowMoves, Relayed
  <2>3. CASE ReleaseClaimAfterEnqueueFailure(r, e) /\ HoldsClaim(r, e)
    <3>1. row' = [row EXCEPT ![e] =
                    [row[e] EXCEPT !.status = "PENDING", !.available = FALSE,
                                   !.token = NoToken, !.lapsed = FALSE]]
      BY <2>3 DEF ReleaseClaimAfterEnqueueFailure
    <3>2. QED
      BY <2>3, <3>1 DEF HoldsClaim, TypeOK, OutboxEvent, RowMoves, Unmoved,
         Relayed
  <2>4. CASE ~HoldsClaim(r, e)
    BY <1>1, <1>5, <2>4 DEF TaskStep, AddJob, MarkEnqueued,
       ReleaseClaimAfterEnqueueFailure
  <2>5. QED BY <1>5, <2>1, <2>2, <2>3, <2>4 DEF TaskStep
<1>6. ASSUME NEW w \in Workers, ProcessStep(w) PROVE RowMoves(x)
  <2> DEFINE e == worker[w].event
  <2>1. CASE row' # row /\ ExpireEvent(w)
    <3>1. e \in Events /\ row[e].status \in OutboxStatus \ {"DELIVERED"}
          /\ row' = [row EXCEPT ![e].status = "DEAD_LETTER"]
      BY <2>1, RunningWorker DEF ExpireEvent, Exists, At, TypeOK, OutboxEvent
    <3>2. QED
      BY <3>1, StatusWrite DEF RowMoves, Buried, Unmoved, Terminal
  <2>2. CASE row' # row /\ StartProcessing(w)
    <3>1. /\ e \in Events /\ row[e].status \in {"ENQUEUED", "FAILED"}
          /\ row' = [row EXCEPT ![e].status = "PROCESSING",
                                ![e].token = NoToken, ![e].lapsed = FALSE]
          /\ ~At(w, "idle") /\ worker[w].gen = row[e].gen
      BY <2>2, RunningWorker DEF StartProcessing, Startable, At
    <3>2. Started(e)
      BY <3>1, UnclaimingWrite DEF Started
    <3>3. \A z \in Events \ {e} : Unmoved(z)
      BY <3>1, UnclaimingWrite
    <3>4. QED BY <3>2, <3>3 DEF RowMoves
  <2>3. CASE row' # row /\ (FinishRecorded(w) \/ FinalizeDelivery(w))
    <3>1. /\ e \in Events /\ row[e].status = "PROCESSING"
          /\ Owns(w, e, row[e].gen) /\ worker'[w].step = "return"
          /\ worker[w].step \in {"finalize", "finishRecorded"}
          /\ row' = [row EXCEPT ![e].status = "DELIVERED"]
      BY <2>3, RunningWorker, WorkerWrite DEF FinishRecorded,
         FinalizeDelivery, Finalized, CanFinalize, At, Owns, OwningSteps
    <3>2. QED
      BY <3>1, StatusWrite DEF RowMoves, Finished
  <2>4. CASE row' # row /\ RecordDeliveryFailure(w)
    <3>1. PICK s \in {"DEAD_LETTER", "ENQUEUED"} :
            /\ e \in Events /\ row[e].status \in OutboxStatus \ Terminal
            /\ Owns(w, e, row[e].gen) /\ worker'[w].step = "throw"
            /\ worker[w].step = "recordFailure"
            /\ row' = [row EXCEPT ![e].status = s]
      BY <2>4, RunningWorker, WorkerWrite DEF RecordDeliveryFailure, Failed,
         Skip, Exists, DeliveryFailureDisposition, At, Owns, OwningSteps,
         TypeOK, OutboxEvent
    <3>2. QED
      BY <3>1, StatusWrite DEF RowMoves, Buried, Requeued
  <2>5. CASE row' = row
    BY <1>1, <2>5
  <2>6. QED
    BY <1>6, <2>1, <2>2, <2>3, <2>4, <2>5
       DEF ProcessStep, ReadEvent, LookupDelivery, UpsertDelivery,
           SendAccepted, SendFails, RecordDeliveryResult, RecordDeliveryError,
           CompleteJob, FailJob
<1>7. ASSUME NEW e \in Events, NEW g \in Generations, QueueStep(e, g)
      PROVE  RowMoves(x)
  <2>1. CASE row' # row
    <3>1. /\ row[e].status \in OutboxStatus \ Terminal
          /\ row' = [row EXCEPT ![e].status = "DEAD_LETTER"]
      BY <1>7, <2>1 DEF QueueStep, StallOrphanedJob, ReconcileExhaustedJob,
         Failed, Skip, Exists, TypeOK, OutboxEvent
    <3>2. QED
      BY <3>1, StatusWrite DEF RowMoves, Buried
  <2>2. QED BY <1>1, <2>1
<1>8. QED
  BY <1>1, <1>2, <1>3, <1>4, <1>5, <1>6, <1>7
     DEF Next, vars, RelayCrash, TaskFault, AddJobFails, MarkEnqueuedFails,
         ReleaseClaimFails, TakeStep, TakeJob, WorkerCrash, DatabaseError,
         StallRunningJob, RemoveFinishedJob, ReconcileFails

\* A worker owns a generation after a step only if it did before, or if it has
\* just won the compare-and-set on the row's current generation.
WorkerMoves(v) ==
    worker'[v].step \in OwningSteps =>
        /\ ~At(v, "idle")
        /\ worker'[v].event = worker[v].event
        /\ worker'[v].gen = worker[v].gen
        /\ \/ worker[v].step \in OwningSteps
           \/ /\ worker'[v] # worker[v]
              /\ worker[v].gen = row[worker[v].event].gen
              /\ row[worker[v].event].status \in {"ENQUEUED", "FAILED"}
              /\ row'[worker[v].event].status = "PROCESSING"

\* Every step moves each worker along processNotification or leaves it.
LEMMA WorkerStep ==
    ASSUME TypeOK, [Next]_vars
    PROVE  /\ \A v \in Workers : WorkerMoves(v)
           /\ \A v1, v2 \in Workers :
                 worker'[v1] # worker[v1] /\ worker'[v2] # worker[v2] => v1 = v2
<1> DEFINE Goal == /\ \A v \in Workers : WorkerMoves(v)
                   /\ \A v1, v2 \in Workers :
                         worker'[v1] # worker[v1] /\ worker'[v2] # worker[v2]
                            => v1 = v2
<1>1. CASE UNCHANGED worker
  BY <1>1 DEF WorkerMoves, OwningSteps, At
<1>2. ASSUME NEW w \in Workers, TakeStep(w) PROVE Goal
  <2>1. PICK e \in Events, g \in Generations : TakeJob(w, e, g)
    BY <1>2 DEF TakeStep
  <2>2. worker'[w].step = "read" /\ \A v \in Workers \ {w} : worker'[v] = worker[v]
    BY <2>1 DEF TakeJob, TypeOK, WorkersOK
  <2>3. QED BY <2>2 DEF WorkerMoves, OwningSteps, At
<1>3. ASSUME NEW w \in Workers,
             CompleteJob(w) \/ FailJob(w) \/ WorkerCrash(w)
      PROVE  Goal
  <2>1. worker' = [worker EXCEPT ![w] = IdleWorker]
    BY <1>3 DEF CompleteJob, FailJob, WorkerCrash
  <2>2. worker'[w].step = "idle" /\ \A v \in Workers \ {w} : worker'[v] = worker[v]
    BY <2>1 DEF IdleWorker, TypeOK, WorkersOK
  <2>3. QED BY <2>2 DEF WorkerMoves, OwningSteps, At
<1>4. ASSUME NEW w \in Workers, StartProcessing(w) PROVE Goal
  <2>1. CASE Goto(w, "return")
    BY <2>1, WorkerWrite DEF WorkerMoves, OwningSteps, At
  <2>2. CASE ~Goto(w, "return")
    <3>1. /\ At(w, "start") /\ Goto(w, "lookup")
          /\ worker[w].event \in Events
          /\ row[worker[w].event].gen = worker[w].gen
          /\ row[worker[w].event].status \in {"ENQUEUED", "FAILED"}
          /\ row' = [row EXCEPT ![worker[w].event].status = "PROCESSING",
                                ![worker[w].event].token = NoToken,
                                ![worker[w].event].lapsed = FALSE]
      BY <1>4, <2>2, RunningWorker DEF StartProcessing, Startable, At
    <3>2. row'[worker[w].event].status = "PROCESSING"
      BY <3>1, UnclaimingWrite
    <3>3. worker'[w] # worker[w]
      BY <3>1, WorkerWrite DEF At
    <3>4. QED BY ZenonT(40), <3>1, <3>2, <3>3, WorkerWrite DEF WorkerMoves, OwningSteps, At
  <2>3. QED BY <2>1, <2>2
<1>5. ASSUME NEW w \in Workers, NEW s \in WorkerSteps, Goto(w, s),
             worker[w].step \in OwningSteps \/ s \notin OwningSteps
      PROVE  Goal
  BY <1>5, WorkerWrite DEF WorkerMoves, OwningSteps, At
<1>6. ASSUME NEW w \in Workers, DatabaseError(w) PROVE Goal
  BY <1>5, <1>6 DEF DatabaseError, OwningSteps, WorkerSteps
<1>7. ASSUME NEW w \in Workers, ProcessStep(w) PROVE Goal
  <2>1. CASE ReadEvent(w) \/ ExpireEvent(w)
    BY <1>5, <2>1 DEF ReadEvent, ExpireEvent, OwningSteps, WorkerSteps
  <2>2. CASE LookupDelivery(w) \/ UpsertDelivery(w) \/ FinishRecorded(w)
    BY <1>5, <2>2 DEF LookupDelivery, UpsertDelivery, FinishRecorded, At,
       OwningSteps, WorkerSteps
  <2>3. CASE SendAccepted(w) \/ SendFails(w) \/ RecordDeliveryResult(w)
    BY <1>5, <2>3 DEF SendAccepted, SendFails, RecordDeliveryResult, At,
       OwningSteps, WorkerSteps
  <2>4. CASE FinalizeDelivery(w) \/ RecordDeliveryError(w)
    BY <1>5, <2>4 DEF FinalizeDelivery, RecordDeliveryError, At,
       OwningSteps, WorkerSteps
  <2>5. CASE RecordDeliveryFailure(w)
    BY <1>5, <2>5 DEF RecordDeliveryFailure, At, OwningSteps, WorkerSteps
  <2>6. QED
    BY <1>3, <1>4, <1>7, <2>1, <2>2, <2>3, <2>4, <2>5 DEF ProcessStep
<1>8. QED
  BY ZenonT(40), <1>1, <1>2, <1>3, <1>6, <1>7
     DEF Next, vars, BusinessStep, AddOutboxEvent, PassExpiry,
         RedriveDeadLetterEvent, EraseAccount, PurgeTerminal,
         ProcessEmailProviderEvent, ClockStep, BecomeAvailable, LapseLease,
         ClaimStep, ClaimOutboxBatch, RelayCrash, TaskStep, AddJob,
         MarkEnqueued, ReleaseClaimAfterEnqueueFailure, TaskFault,
         AddJobFails, MarkEnqueuedFails, ReleaseClaimFails, QueueStep,
         StallOrphanedJob, ReconcileExhaustedJob, StallRunningJob,
         RemoveFinishedJob, ReconcileFails

\* Once added, a job id is never "ABSENT" again, and it is added only by a
\* relay task of that event and generation.
JobMoves(e, g) ==
    /\ job[<<e, g>>].state # "ABSENT" => job'[<<e, g>>].state # "ABSENT"
    /\ job'[<<e, g>>].state # "ABSENT" =>
          \/ job[<<e, g>>].state # "ABSENT"
          \/ \E r \in Relays :
                task[<<r, e>>].step = "add" /\ task[<<r, e>>].gen = g

\* Every step moves each BullMQ job along its life or leaves it.
LEMMA JobStep ==
    ASSUME TypeOK, ClaimInv, [Next]_vars,
           NEW x \in Events, NEW y \in Generations
    PROVE  JobMoves(x, y)
<1>1. CASE UNCHANGED job
  BY <1>1 DEF JobMoves
<1>2. ASSUME NEW e \in Events, NEW g \in Generations, NEW j \in Job,
             job[<<e, g>>].state # "ABSENT", j.state # "ABSENT",
             job' = [job EXCEPT ![<<e, g>>] = j]
      PROVE  JobMoves(x, y)
  BY <1>2 DEF JobMoves, TypeOK, JobIds
<1>3. ASSUME NEW e \in Events, NEW g \in Generations, NEW s \in JobStates,
             NEW h \in Workers \cup {NoWorker},
             job[<<e, g>>].state # "ABSENT", s # "ABSENT",
             job' = [job EXCEPT ![<<e, g>>].state = s, ![<<e, g>>].holder = h]
      PROVE  JobMoves(x, y)
  BY <1>3 DEF JobMoves, TypeOK, JobIds, Job
<1>4. ASSUME NEW r \in Relays, NEW e \in Events, task[<<r, e>>].step = "add",
             job' \in {job, Added(e, task[<<r, e>>].gen)}
      PROVE  JobMoves(x, y)
  <2>1. [NoJob EXCEPT !.state = "WAITING"].state = "WAITING"
    BY DEF NoJob
  <2>2. task[<<r, e>>].gen \in Generations
    BY DEF TypeOK, TaskIds, RelayTask
  <2>3. QED BY ZenonT(40), <1>1, <1>4, <2>1, <2>2 DEF Added, JobMoves, TypeOK, JobIds
<1>5. ASSUME NEW r \in Relays, NEW e \in Events,
             TaskStep(r, e) \/ TaskFault(r, e)
      PROVE  JobMoves(x, y)
  BY <1>1, <1>4, <1>5 DEF TaskStep, TaskFault, AddJob, AddJobFails,
     MarkEnqueued, MarkEnqueuedFails, ReleaseClaimAfterEnqueueFailure,
     ReleaseClaimFails
<1>6. ASSUME NEW w \in Workers, TakeStep(w) PROVE JobMoves(x, y)
  BY <1>3, <1>6 DEF TakeStep, TakeJob, JobStates
<1>7. ASSUME NEW w \in Workers, CompleteJob(w) \/ WorkerCrash(w)
      PROVE  JobMoves(x, y)
  <2>1. /\ worker[w].event \in Events /\ worker[w].gen \in Generations
        /\ job[<<worker[w].event, worker[w].gen>>].state # "ABSENT"
    BY <1>7, RunningWorker DEF CompleteJob, WorkerCrash, ClaimInv, At
  <2>2. CASE CompleteJob(w)
    BY <1>1, <1>3, <2>1, <2>2 DEF CompleteJob, JobStates
  <2>3. CASE WorkerCrash(w)
    BY <2>1, <2>3 DEF WorkerCrash, JobMoves, TypeOK, JobIds, Job
  <2>4. QED BY <1>7, <2>2, <2>3
<1>8. ASSUME NEW w \in Workers, FailJob(w) PROVE JobMoves(x, y)
  <2>1. /\ worker[w].event \in Events /\ worker[w].gen \in Generations
        /\ job[<<worker[w].event, worker[w].gen>>].state # "ABSENT"
    BY <1>8, RunningWorker DEF FailJob, ClaimInv, At
  <2>2. CASE job' # job
    <3>1. PICK s \in {"FAILED", "WAITING"} :
            job' = [job EXCEPT ![<<worker[w].event, worker[w].gen>>] =
                      [job[<<worker[w].event, worker[w].gen>>] EXCEPT
                         !.state = s,
                         !.attemptsMade = worker[w].attemptsMade + 1,
                         !.holder = NoWorker]]
      BY <1>8, <2>2 DEF FailJob
    <3> DEFINE old == job[<<worker[w].event, worker[w].gen>>]
               new == [old EXCEPT !.state = s,
                                  !.attemptsMade = worker[w].attemptsMade + 1,
                                  !.holder = NoWorker]
    <3>2. old \in Job /\ worker[w].attemptsMade \in Nat
      BY <1>8, <2>1, RunningWorker DEF FailJob, At, TypeOK, JobIds
    <3>3. new \in Job /\ new.state # "ABSENT"
      <4>1. s \in JobStates \ {"ABSENT"}
        BY <3>1 DEF JobStates
      <4>2. worker[w].attemptsMade + 1 \in Nat
        BY <3>2
      <4>3. \A r \in Job, a \in Nat :
              LET moved == [r EXCEPT !.state = s, !.attemptsMade = a,
                                     !.holder = NoWorker]
              IN  moved \in Job /\ moved.state # "ABSENT"
        BY <4>1 DEF Job
      <4> HIDE DEF old
      <4>4. QED BY <3>2, <4>2, <4>3
    <3>4. job' = [job EXCEPT ![<<worker[w].event, worker[w].gen>>] = new]
      BY <3>1, Zenon
    <3> HIDE DEF new
    <3>5. QED BY <1>2, <2>1, <3>3, <3>4
  <2>3. QED BY <1>1, <2>2
<1>9. ASSUME NEW e \in Events, NEW g \in Generations,
             job[<<e, g>>].state = "ACTIVE", Stalled(e, g)
      PROVE  JobMoves(x, y)
  <2>1. CASE job[<<e, g>>].stalls < MaxStalledCount
    <3>1. job' = [job EXCEPT ![<<e, g>>].state = "WAITING",
                             ![<<e, g>>].stalls = @ + 1,
                             ![<<e, g>>].holder = NoWorker]
      BY <1>9, <2>1 DEF Stalled
    <3>2. QED BY SMTT(30), <1>9, <3>1 DEF JobMoves, TypeOK, JobIds, Job
  <2>2. CASE ~(job[<<e, g>>].stalls < MaxStalledCount)
    BY <1>3, <1>9, <2>2 DEF Stalled, JobStates
  <2>3. QED BY <2>1, <2>2
<1>10. ASSUME NEW e \in Events, NEW g \in Generations,
              RemoveFinishedJob(e, g)
       PROVE  JobMoves(x, y)
  <2>1. /\ [NoJob EXCEPT !.state = "REMOVED"] \in Job
        /\ [NoJob EXCEPT !.state = "REMOVED"].state = "REMOVED"
    BY DEF NoJob, Job, JobStates
  <2>2. QED BY <1>2, <1>10, <2>1 DEF RemoveFinishedJob
<1>11. QED
  BY ZenonT(40), <1>1, <1>5, <1>6, <1>7, <1>8, <1>9, <1>10
     DEF Next, vars, BusinessStep, AddOutboxEvent, PassExpiry,
         RedriveDeadLetterEvent, EraseAccount, PurgeTerminal,
         ProcessEmailProviderEvent, ClockStep, BecomeAvailable, LapseLease,
         ClaimStep, ClaimOutboxBatch, RelayCrash, ProcessStep, ReadEvent,
         ExpireEvent, StartProcessing, LookupDelivery, UpsertDelivery,
         FinishRecorded, SendAccepted, SendFails, RecordDeliveryResult,
         FinalizeDelivery, RecordDeliveryError, RecordDeliveryFailure,
         DatabaseError, QueueStep, StallOrphanedJob, ReconcileExhaustedJob,
         StallRunningJob, ReconcileFails

\* A running relay task was running before, with the same claim, or has just
\* claimed the row on its current generation; it marks the row only after it
\* has added the job.
TaskMoves(r, e) ==
    task'[<<r, e>>].step # "idle" =>
        \/ /\ task[<<r, e>>].step # "idle"
           /\ task'[<<r, e>>].gen = task[<<r, e>>].gen
           /\ task'[<<r, e>>].token = task[<<r, e>>].token
           /\ task'[<<r, e>>].step = "mark" =>
                 \/ task[<<r, e>>].step = "mark"
                 \/ job'[<<e, task[<<r, e>>].gen>>].state # "ABSENT"
        \/ /\ task'[<<r, e>>].step = "add"
           /\ task'[<<r, e>>].gen = row[e].gen
           /\ task'[<<r, e>>].token \in Tokens
           /\ row'[e].gen = row[e].gen

\* Every step moves each relay task along enqueueClaimedEvent or leaves it.
LEMMA TaskStepMoves ==
    ASSUME TypeOK, [Next]_vars, NEW y \in Relays, NEW x \in Events
    PROVE  TaskMoves(y, x)
<1>1. CASE UNCHANGED task
  BY <1>1 DEF TaskMoves
<1>2. ASSUME NEW r \in Relays, ClaimStep(r) PROVE TaskMoves(y, x)
  <2>1. PICK batch \in SUBSET Events, token \in Tokens :
            ClaimOutboxBatch(r, batch, token)
    BY <1>2 DEF ClaimStep
  <2>2. <<y, x>> \in TaskIds
    BY DEF TaskIds
  <2>3. task'[<<y, x>>] =
          IF y = r /\ x \in batch
          THEN [step |-> "add", gen |-> row[x].gen, token |-> token]
          ELSE task[<<y, x>>]
    BY <2>1, <2>2 DEF ClaimOutboxBatch
  <2>4. row'[x].gen = row[x].gen
    BY <2>1 DEF ClaimOutboxBatch, TypeOK, OutboxEvent
  <2>5. QED BY <2>3, <2>4 DEF TaskMoves
<1>3. ASSUME NEW r \in Relays, RelayCrash(r) PROVE TaskMoves(y, x)
  BY <1>3 DEF RelayCrash, TaskMoves, TaskIds, NoTask
<1>4. ASSUME NEW r \in Relays, NEW e \in Events, AddJob(r, e)
      PROVE  TaskMoves(y, x)
  <2>1. job'[<<e, task[<<r, e>>].gen>>].state # "ABSENT"
    <3>1. [NoJob EXCEPT !.state = "WAITING"].state = "WAITING"
      BY DEF NoJob
    <3>2. task[<<r, e>>].gen \in Generations
      BY DEF TypeOK, TaskIds, RelayTask
    <3>3. QED BY <1>4, <3>1, <3>2 DEF AddJob, Added, TypeOK, JobIds
  <2>2. QED BY <1>4, <2>1 DEF AddJob, TaskMoves, TypeOK, TaskIds, RelayTask
<1>5. ASSUME NEW r \in Relays, NEW e \in Events,
             task[<<r, e>>].step # "idle",
             \/ task' = [task EXCEPT ![<<r, e>>].step = "release"]
             \/ task' = [task EXCEPT ![<<r, e>>] = NoTask]
      PROVE  TaskMoves(y, x)
  <2>1. <<r, e>> \in TaskIds /\ <<y, x>> \in TaskIds
    BY DEF TaskIds
  <2>2. CASE <<y, x>> # <<r, e>>
    <3>1. task'[<<y, x>>] = task[<<y, x>>]
      BY <1>5, <2>1, <2>2 DEF TypeOK
    <3>2. QED BY <3>1 DEF TaskMoves
  <2>3. CASE <<y, x>> = <<r, e>>
    <3>1. task[<<y, x>>] \in RelayTask
      BY <2>1 DEF TypeOK
    <3>2. \/ task'[<<y, x>>] = [task[<<y, x>>] EXCEPT !.step = "release"]
          \/ task'[<<y, x>>] = NoTask
      BY <1>5, <2>1, <2>3 DEF TypeOK
    <3>3. CASE task'[<<y, x>>] = NoTask
      BY <3>3 DEF TaskMoves, NoTask
    <3>4. CASE task'[<<y, x>>] = [task[<<y, x>>] EXCEPT !.step = "release"]
      <4>1. /\ task'[<<y, x>>].step = "release"
            /\ task'[<<y, x>>].gen = task[<<y, x>>].gen
            /\ task'[<<y, x>>].token = task[<<y, x>>].token
        BY <3>1, <3>4 DEF RelayTask
      <4>2. task[<<y, x>>].step # "idle"
        BY <1>5, <2>3
      <4>3. QED BY <4>1, <4>2 DEF TaskMoves
    <3>5. QED BY <3>2, <3>3, <3>4
  <2>4. QED BY <2>2, <2>3
<1>6. ASSUME NEW r \in Relays, NEW e \in Events,
             TaskStep(r, e) \/ TaskFault(r, e)
      PROVE  TaskMoves(y, x)
  <2>1. CASE AddJob(r, e)
    BY <1>4, <2>1
  <2>2. CASE AddJobFails(r, e) \/ MarkEnqueuedFails(r, e)
    BY <1>5, <2>2 DEF AddJobFails, MarkEnqueuedFails
  <2>3. CASE \/ MarkEnqueued(r, e) \/ ReleaseClaimFails(r, e)
             \/ ReleaseClaimAfterEnqueueFailure(r, e)
    BY <1>5, <2>3 DEF MarkEnqueued, ReleaseClaimAfterEnqueueFailure,
       ReleaseClaimFails
  <2>4. QED BY <1>6, <2>1, <2>2, <2>3 DEF TaskStep, TaskFault
<1>7. ASSUME NEW e \in Events, BusinessStep(e) \/ ClockStep(e)
      PROVE  UNCHANGED task
  BY <1>7 DEF BusinessStep, AddOutboxEvent, PassExpiry, RedriveDeadLetterEvent,
     EraseAccount, PurgeTerminal, ProcessEmailProviderEvent, ClockStep,
     BecomeAvailable, LapseLease
<1>8. ASSUME NEW w \in Workers,
             TakeStep(w) \/ ProcessStep(w) \/ WorkerCrash(w) \/ DatabaseError(w)
      PROVE  UNCHANGED task
  BY <1>8 DEF ProcessStep, ReadEvent, ExpireEvent, StartProcessing,
     LookupDelivery, UpsertDelivery, FinishRecorded, SendAccepted, SendFails,
     RecordDeliveryResult, FinalizeDelivery, RecordDeliveryError,
     RecordDeliveryFailure, CompleteJob, FailJob, WorkerCrash, DatabaseError,
     TakeStep, TakeJob
<1>9. ASSUME NEW e \in Events, NEW g \in Generations,
             \/ QueueStep(e, g) \/ StallRunningJob(e, g)
             \/ RemoveFinishedJob(e, g) \/ ReconcileFails(e, g)
      PROVE  UNCHANGED task
  BY <1>9 DEF QueueStep, StallOrphanedJob, ReconcileExhaustedJob,
     StallRunningJob, RemoveFinishedJob, ReconcileFails
<1>10. QED BY <1>1, <1>2, <1>3, <1>6, <1>7, <1>8, <1>9 DEF Next, vars

\* A busy worker was busy before with the same job, or was just given a job
\* that the queue holds.
SlotMoves(w) ==
    worker'[w].step # "idle" =>
        \/ /\ ~At(w, "idle")
           /\ worker'[w].event = worker[w].event
           /\ worker'[w].gen = worker[w].gen
        \/ /\ worker'[w].event \in Events /\ worker'[w].gen \in Generations
           /\ job[<<worker'[w].event, worker'[w].gen>>].state # "ABSENT"

\* A busy slot keeps its event and generation until it is idle again.
LEMMA SlotStep ==
    ASSUME TypeOK, [Next]_vars, NEW v \in Workers
    PROVE  SlotMoves(v)
<1>1. CASE UNCHANGED worker
  BY <1>1 DEF SlotMoves, At
<1>2. ASSUME NEW w \in Workers, TakeStep(w) PROVE SlotMoves(v)
  BY <1>2 DEF TakeStep, TakeJob, SlotMoves, At, TypeOK, WorkersOK
<1>3. ASSUME NEW w \in Workers, worker' = [worker EXCEPT ![w] = IdleWorker]
      PROVE  SlotMoves(v)
  BY <1>3 DEF SlotMoves, At, IdleWorker, TypeOK, WorkersOK
<1>4. ASSUME NEW w \in Workers, NEW s, Goto(w, s), ~At(w, "idle")
      PROVE  SlotMoves(v)
  BY <1>4, WorkerWrite DEF SlotMoves, At
<1>5. ASSUME NEW w \in Workers, ProcessStep(w) PROVE SlotMoves(v)
  BY <1>3, <1>4, <1>5
     DEF ProcessStep, ReadEvent, ExpireEvent, StartProcessing,
         LookupDelivery, UpsertDelivery, FinishRecorded, SendAccepted,
         SendFails, RecordDeliveryResult, FinalizeDelivery,
         RecordDeliveryError, RecordDeliveryFailure, CompleteJob, FailJob, At
<1>6. ASSUME NEW w \in Workers, WorkerCrash(w) \/ DatabaseError(w)
      PROVE  SlotMoves(v)
  BY <1>3, <1>4, <1>6 DEF WorkerCrash, DatabaseError, At
<1>7. QED
  BY ZenonT(40), <1>1, <1>2, <1>5, <1>6
     DEF Next, vars, BusinessStep, AddOutboxEvent, PassExpiry,
         RedriveDeadLetterEvent, EraseAccount, PurgeTerminal,
         ProcessEmailProviderEvent, ClockStep, BecomeAvailable, LapseLease,
         ClaimStep, ClaimOutboxBatch, RelayCrash, TaskStep, AddJob,
         MarkEnqueued, ReleaseClaimAfterEnqueueFailure, TaskFault,
         AddJobFails, MarkEnqueuedFails, ReleaseClaimFails, QueueStep,
         StallOrphanedJob, ReconcileExhaustedJob, StallRunningJob,
         RemoveFinishedJob, ReconcileFails

-----------------------------------------------------------------------------
(* Ownership of a generation.                                               *)

\* No step of the relay, the queue or the workers gets ahead of the row's
\* generation, which only the redrive moves, forwards.
LEMMA NeverAheadStep ==
    ASSUME TypeOK, TypeOK', ClaimInv, NeverAhead, [Next]_vars
    PROVE  NeverAhead'
<1>1. \A e \in Events : /\ row[e].gen \in Nat /\ row'[e].gen \in Nat
                        /\ row[e].gen <= row'[e].gen
  BY RowStep, BoundsAssumption
     DEF RowMoves, Unmoved, Redriven, Buried, Purged, Inserted, Relayed,
         Started, Finished, Requeued, TypeOK, OutboxEvent, Generations
<1>2. ASSUME NEW r \in Relays, NEW e \in Events, task'[<<r, e>>].step # "idle"
      PROVE  task'[<<r, e>>].gen <= row'[e].gen
  <2>1. task'[<<r, e>>].gen \in Nat
    BY BoundsAssumption DEF TypeOK, TaskIds, RelayTask, Generations
  <2>2. TaskMoves(r, e)
    BY TaskStepMoves
  <2>3. task'[<<r, e>>].gen <= row[e].gen
    BY <1>1, <1>2, <2>2 DEF TaskMoves, NeverAhead
  <2>4. QED BY <1>1, <2>1, <2>3
<1>3. ASSUME NEW e \in Events, NEW g \in Generations,
             job'[<<e, g>>].state # "ABSENT"
      PROVE  g <= row'[e].gen
  <2>1. g \in Nat
    BY BoundsAssumption DEF Generations
  <2>2. JobMoves(e, g)
    BY JobStep
  <2>3. g <= row[e].gen
    BY <1>3, <2>2 DEF JobMoves, NeverAhead
  <2>4. QED BY <1>1, <2>1, <2>3
<1>4. ASSUME NEW w \in Workers, worker'[w].step # "idle"
      PROVE  worker'[w].gen <= row'[worker'[w].event].gen
  <2>1. worker'[w].event \in Events /\ worker'[w].gen \in Nat
    BY <1>4, BoundsAssumption
       DEF TypeOK, WorkersOK, WorkerState, Generations, At
  <2>2. worker'[w].gen <= row[worker'[w].event].gen
    BY <1>4, SlotStep DEF SlotMoves, NeverAhead
  <2>3. QED BY <1>1, <2>1, <2>2
<1>5. QED BY <1>2, <1>3, <1>4 DEF NeverAhead, At

\* While a generation is owned its row stays PROCESSING or dead: the relay
\* cannot claim it, no other worker can win the compare-and-set, and only the
\* owner itself requeues or finishes it.
LEMMA OwnedRowStep ==
    ASSUME TypeOK, TypeOK', OwnershipInv, [Next]_vars
    PROVE  OwnedRowIsHeld'
<1> SUFFICES ASSUME NEW w \in Workers, NEW e \in Events,
                    worker'[w].step \in OwningSteps,
                    worker'[w].event = e, worker'[w].gen = row'[e].gen
             PROVE  row'[e].status \in {"PROCESSING", "DEAD_LETTER", "PURGED"}
  BY DEF OwnedRowIsHeld, Owns
<1>1. CASE worker[w].step \notin OwningSteps
  BY <1>1, WorkerStep DEF WorkerMoves
<1>2. CASE worker[w].step \in OwningSteps
  <2>1. worker[w].event = e /\ worker[w].gen = row'[e].gen /\ ~At(w, "idle")
    BY <1>2, WorkerStep DEF WorkerMoves
  <2>2. worker[w].gen <= row[e].gen
    BY <2>1 DEF OwnershipInv, NeverAhead
  <2>3. row[e].gen \in Nat
    BY BoundsAssumption DEF TypeOK, OutboxEvent, Generations
  <2>4. CASE row'[e].gen = row[e].gen
    <3>1. Owns(w, e, row[e].gen)
      BY <1>2, <2>1, <2>4 DEF Owns
    <3>2. row[e].status \in {"PROCESSING", "DEAD_LETTER", "PURGED"}
      BY <3>1 DEF OwnershipInv, OwnedRowIsHeld
    <3>3. ~Finished(e) /\ ~Requeued(e)
      <4>1. ASSUME NEW v \in Workers, Owns(v, e, row[e].gen)
            PROVE  worker'[v].step \in OwningSteps
        <5>1. row[e].gen \in Generations
          BY DEF TypeOK, OutboxEvent
        <5>2. v = w
          BY <3>1, <4>1, <5>1 DEF OwnershipInv, SingleOwner
        <5>3. QED BY <5>2
      <4>2. QED BY <4>1 DEF Finished, Requeued, OwningSteps
    <3>4. QED
      BY <2>3, <2>4, <3>2, <3>3, RowStep
         DEF RowMoves, Unmoved, Redriven, Buried, Purged, Inserted, Relayed,
             Started
  <2>5. CASE row'[e].gen # row[e].gen
    <3>1. row'[e].gen = row[e].gen + 1
      BY <2>5, RowStep
         DEF RowMoves, Unmoved, Redriven, Buried, Purged, Inserted, Relayed,
             Started, Finished, Requeued
    <3>2. QED BY <2>1, <2>2, <2>3, <3>1
  <2>6. QED BY <2>4, <2>5
<1>3. QED BY <1>1, <1>2

\* Two owners after a step were both owners before, or one of them has just
\* won the compare-and-set, which an owned row does not allow.
LEMMA SingleOwnerStep ==
    ASSUME TypeOK, OwnershipInv, [Next]_vars
    PROVE  SingleOwner'
<1> SUFFICES ASSUME NEW v \in Workers, NEW w \in Workers, NEW e \in Events,
                    NEW g \in Generations,
                    worker'[v].step \in OwningSteps, worker'[v].event = e,
                    worker'[v].gen = g,
                    worker'[w].step \in OwningSteps, worker'[w].event = e,
                    worker'[w].gen = g
             PROVE  v = w
  BY DEF SingleOwner, Owns
<1>1. /\ worker[v].event = e /\ worker[v].gen = g
      /\ worker[w].event = e /\ worker[w].gen = g
  BY WorkerStep DEF WorkerMoves
<1>2. ASSUME NEW a \in Workers, NEW b \in Workers,
             worker[a].event = e, worker[a].gen = g,
             worker[b].event = e, worker[b].gen = g,
             worker'[b].step \in OwningSteps, worker[b].step \notin OwningSteps
      PROVE  worker[a].step \notin OwningSteps
  <2>1. g = row[e].gen /\ row[e].status \in {"ENQUEUED", "FAILED"}
    BY <1>2, WorkerStep DEF WorkerMoves
  <2>2. QED BY <1>2, <2>1 DEF OwnershipInv, OwnedRowIsHeld, Owns
<1>3. CASE worker[v].step \in OwningSteps /\ worker[w].step \in OwningSteps
  BY <1>1, <1>3 DEF OwnershipInv, SingleOwner, Owns
<1>4. CASE worker[v].step \notin OwningSteps /\ worker[w].step \notin OwningSteps
  BY <1>4, WorkerStep DEF WorkerMoves
<1>5. QED BY <1>1, <1>2, <1>3, <1>4

-----------------------------------------------------------------------------
(* Claims, jobs and the row they stand for.                                 *)

\* A row's token is replaced by a fresh one or cleared; it survives only while
\* the generation does.
TokenMoves(x) ==
    \/ row'[x].token = row[x].token /\ row'[x].gen = row[x].gen
    \/ row'[x].token = NoToken
    \/ /\ row'[x].gen = row[x].gen
       /\ \A r \in Relays : task[<<r, x>>].token # row'[x].token

\* A row's token is set by a claim only, to one that no task holds.
LEMMA TokenStep ==
    ASSUME TypeOK, [Next]_vars, NEW x \in Events
    PROVE  TokenMoves(x)
<1> USE DEF TokenMoves
<1>1. CASE UNCHANGED row
  BY <1>1
<1>2. ASSUME NEW e \in Events, BusinessStep(e) PROVE TokenMoves(x)
  <2>1. CASE \E available \in BOOLEAN : AddOutboxEvent(e, available)
    BY <2>1 DEF AddOutboxEvent, TypeOK, OutboxEvent
  <2>2. CASE PassExpiry(e)
    BY <2>2 DEF PassExpiry, TypeOK, OutboxEvent
  <2>3. CASE RedriveDeadLetterEvent(e)
    BY <2>3 DEF RedriveDeadLetterEvent, TypeOK, OutboxEvent
  <2>4. CASE EraseAccount(e)
    BY <2>4 DEF EraseAccount, TypeOK, OutboxEvent
  <2>5. CASE PurgeTerminal(e) \/ ProcessEmailProviderEvent(e)
    BY <2>5 DEF PurgeTerminal, ProcessEmailProviderEvent, TypeOK, OutboxEvent
  <2>6. QED BY <1>2, <2>1, <2>2, <2>3, <2>4, <2>5 DEF BusinessStep
<1>3. ASSUME NEW e \in Events, ClockStep(e) PROVE TokenMoves(x)
  BY <1>3 DEF ClockStep, BecomeAvailable, LapseLease, TypeOK, OutboxEvent
<1>4. ASSUME NEW r \in Relays, ClaimStep(r) PROVE TokenMoves(x)
  <2>1. PICK batch \in SUBSET Events, token \in Tokens :
            ClaimOutboxBatch(r, batch, token)
    BY <1>4 DEF ClaimStep
  <2>2. QED BY <2>1 DEF ClaimOutboxBatch, Fresh, TypeOK, OutboxEvent
<1>5. ASSUME NEW e \in Events, NEW s, row' = [row EXCEPT ![e].status = s]
      PROVE  TokenMoves(x)
  BY <1>5 DEF TypeOK, OutboxEvent
<1>6. ASSUME NEW e \in Events, NEW s,
             row' = [row EXCEPT ![e].status = s, ![e].token = NoToken,
                                ![e].lapsed = FALSE]
      PROVE  TokenMoves(x)
  BY <1>6 DEF TypeOK, OutboxEvent
<1>7. ASSUME NEW r \in Relays, NEW e \in Events, TaskStep(r, e)
      PROVE  TokenMoves(x)
  <2>1. CASE AddJob(r, e) \/ MarkEnqueued(r, e)
    BY <1>1, <1>6, <2>1 DEF AddJob, MarkEnqueued
  <2>2. CASE ReleaseClaimAfterEnqueueFailure(r, e)
    BY <2>2 DEF ReleaseClaimAfterEnqueueFailure, TypeOK, OutboxEvent
  <2>3. QED BY <1>7, <2>1, <2>2 DEF TaskStep
<1>8. ASSUME NEW w \in Workers, ProcessStep(w) PROVE TokenMoves(x)
  <2>1. CASE row' # row
    <3>1. worker[w].event \in Events
      BY <1>8, <2>1, RunningWorker
         DEF ProcessStep, ReadEvent, ExpireEvent, StartProcessing,
             LookupDelivery, UpsertDelivery, FinishRecorded, SendAccepted,
             SendFails, RecordDeliveryResult, FinalizeDelivery,
             RecordDeliveryError, RecordDeliveryFailure, CompleteJob, FailJob,
             At
    <3>2. QED
      BY <1>5, <1>6, <1>8, <2>1, <3>1
         DEF ProcessStep, ReadEvent, ExpireEvent, StartProcessing,
             LookupDelivery, UpsertDelivery, FinishRecorded, Finalized,
             SendAccepted, SendFails, RecordDeliveryResult, FinalizeDelivery,
             RecordDeliveryError, RecordDeliveryFailure, Failed, CompleteJob,
             FailJob
  <2>2. QED BY <1>1, <2>1
<1>9. ASSUME NEW e \in Events, NEW g \in Generations, QueueStep(e, g)
      PROVE  TokenMoves(x)
  BY <1>1, <1>5, <1>9 DEF QueueStep, StallOrphanedJob, ReconcileExhaustedJob,
     Failed
<1>10. QED
  BY <1>1, <1>2, <1>3, <1>4, <1>7, <1>8, <1>9
     DEF Next, vars, RelayCrash, TaskFault, AddJobFails, MarkEnqueuedFails,
         ReleaseClaimFails, TakeStep, TakeJob, WorkerCrash, DatabaseError,
         StallRunningJob, RemoveFinishedJob, ReconcileFails

\* Every step keeps ClaimInv: a stale claim never matches its row's token.
LEMMA ClaimStepInv ==
    ASSUME TypeOK, TypeOK', ClaimInv, [Next]_vars
    PROVE  ClaimInv'
<1>1. ASSUME NEW r \in Relays, NEW e \in Events, task'[<<r, e>>].step # "idle"
      PROVE  /\ task'[<<r, e>>].token \in Tokens
             /\ task'[<<r, e>>].token = row'[e].token =>
                   task'[<<r, e>>].gen = row'[e].gen
             /\ task'[<<r, e>>].step = "mark" =>
                   job'[<<e, task'[<<r, e>>].gen>>].state # "ABSENT"
  <2>1. TaskMoves(r, e) /\ TokenMoves(e)
    BY TaskStepMoves, TokenStep
  <2>2. task'[<<r, e>>].token \in Tokens
    BY <1>1, <2>1 DEF TaskMoves, ClaimInv
  <2>3. task'[<<r, e>>].token = row'[e].token =>
            task'[<<r, e>>].gen = row'[e].gen
    BY <1>1, <2>1, <2>2, NullsAssumption DEF TaskMoves, TokenMoves, ClaimInv
  <2>4. ASSUME task'[<<r, e>>].step = "mark"
        PROVE  job'[<<e, task'[<<r, e>>].gen>>].state # "ABSENT"
    <3>1. task[<<r, e>>].gen \in Generations
      BY DEF TypeOK, TaskIds, RelayTask
    <3>2. JobMoves(e, task[<<r, e>>].gen)
      BY <3>1, JobStep
    <3>3. QED BY <2>1, <2>4, <3>2 DEF TaskMoves, JobMoves, ClaimInv
  <2>5. QED BY <2>2, <2>3, <2>4
<1>2. ASSUME NEW w \in Workers, worker'[w].step # "idle"
      PROVE  job'[<<worker'[w].event, worker'[w].gen>>].state # "ABSENT"
  <2>1. worker'[w].event \in Events /\ worker'[w].gen \in Generations
    BY <1>2 DEF TypeOK, WorkersOK, WorkerState, At
  <2>2. JobMoves(worker'[w].event, worker'[w].gen)
    BY <2>1, JobStep
  <2>3. QED BY <1>2, <2>2, SlotStep DEF SlotMoves, JobMoves, ClaimInv
<1>3. QED BY <1>1, <1>2 DEF ClaimInv, At

\* Every step keeps a job behind each row that has left the relay.
LEMMA EnqueuedStep ==
    ASSUME TypeOK, ClaimInv, EnqueuedHasJob, [Next]_vars
    PROVE  EnqueuedHasJob'
<1> SUFFICES ASSUME NEW e \in Events,
                    row'[e].status \in {"ENQUEUED", "PROCESSING"}
             PROVE  job'[<<e, row'[e].gen>>].state # "ABSENT"
  BY DEF EnqueuedHasJob, Queued
<1>1. row[e].gen \in Generations
  BY DEF TypeOK, OutboxEvent
<1>2. JobMoves(e, row[e].gen)
  BY <1>1, JobStep
<1>3. row'[e].gen = row[e].gen
  BY RowStep
     DEF RowMoves, Unmoved, Redriven, Buried, Purged, Inserted, Relayed,
         Started, Finished, Requeued
<1>4. job[<<e, row[e].gen>>].state # "ABSENT"
  <2>1. CASE Unmoved(e)
    BY <2>1 DEF Unmoved, EnqueuedHasJob, Queued
  <2>2. CASE Relayed(e)
    BY <2>2 DEF Relayed, HoldsClaim, ClaimInv
  <2>3. CASE Started(e)
    BY <2>3 DEF Started, ClaimInv
  <2>4. CASE Requeued(e)
    <3>1. PICK w \in Workers : Owns(w, e, row[e].gen)
      BY <2>4 DEF Requeued
    <3>2. QED BY <3>1 DEF Owns, OwningSteps, ClaimInv, At
  <2>5. QED
    BY <2>1, <2>2, <2>3, <2>4, RowStep
       DEF RowMoves, Redriven, Buried, Purged, Inserted, Finished
<1>5. QED BY <1>2, <1>3, <1>4 DEF JobMoves

\* A row that the relay has handed over has a job of its own generation, for
\* any number of relays, lapsed leases, crashes and redrives.
THEOREM EnqueuedHasJobAlways == Spec => []EnqueuedHasJob
<1>1. Init => ClaimInv /\ EnqueuedHasJob
  BY DEF Init, ClaimInv, EnqueuedHasJob, NewRow, TaskIds, NoTask, IdleWorker,
     At
<1>2. TypeOK /\ TypeOK' /\ ClaimInv /\ EnqueuedHasJob /\ [Next]_vars
        => ClaimInv' /\ EnqueuedHasJob'
  BY ClaimStepInv, EnqueuedStep
<1>3. QED BY <1>1, <1>2, TypeCorrect, PTL DEF Spec

\* At most one worker processes a generation of an event at a time, for any
\* number of workers, stalls, crashes, retries and redrives.
THEOREM SingleOwnerAlways == Spec => []OwnershipInv
<1>1. Init => ClaimInv /\ OwnershipInv
  BY DEF Init, ClaimInv, OwnershipInv, NeverAhead, OwnedRowIsHeld,
     SingleOwner, Owns, OwningSteps, TaskIds, NoTask, JobIds, NoJob,
     IdleWorker, At
<1>2. TypeOK /\ TypeOK' /\ ClaimInv /\ OwnershipInv /\ [Next]_vars
        => ClaimInv' /\ OwnershipInv'
  BY ClaimStepInv, NeverAheadStep, OwnedRowStep, SingleOwnerStep
     DEF OwnershipInv
<1>3. QED BY <1>1, <1>2, TypeCorrect, PTL DEF Spec

-----------------------------------------------------------------------------
(* The outbox implements the lifecycle of OutboxLifecycle.                  *)

\* Every action writes at most one row, except the claim of a batch, which
\* moves no row to another phase.
LEMMA OneRowMoves ==
    ASSUME TypeOK, [Next]_vars
    PROVE  \/ \A x \in Events :
                 /\ Phase(row'[x].status) = Phase(row[x].status)
                 /\ row'[x].gen = row[x].gen
           \/ \E e \in Events : \A x \in Events \ {e} : Unmoved(x)
<1> DEFINE Goal == \/ \A x \in Events :
                         /\ Phase(row'[x].status) = Phase(row[x].status)
                         /\ row'[x].gen = row[x].gen
                   \/ \E e \in Events : \A x \in Events \ {e} : Unmoved(x)
<1>1. CASE UNCHANGED row
  BY <1>1
<1>2. ASSUME NEW e \in Events, NEW r, row' = [row EXCEPT ![e] = r]
      PROVE  Goal
  BY <1>2 DEF TypeOK, Unmoved
<1>3. ASSUME NEW r \in Relays, ClaimStep(r) PROVE Goal
  <2>1. PICK batch \in SUBSET Events, token \in Tokens :
            ClaimOutboxBatch(r, batch, token)
    BY <1>3 DEF ClaimStep
  <2>2. ASSUME NEW x \in Events
        PROVE  /\ Phase(row'[x].status) = Phase(row[x].status)
               /\ row'[x].gen = row[x].gen
    <3>1. CASE x \notin batch
      BY <2>1, <3>1 DEF ClaimOutboxBatch
    <3>2. CASE x \in batch
      <4>1. /\ row'[x].status = "CLAIMED" /\ row'[x].gen = row[x].gen
            /\ row[x].status \in {"PENDING", "CLAIMED"}
        BY <2>1, <3>2 DEF ClaimOutboxBatch, Claimable, TypeOK, OutboxEvent
      <4>2. QED BY <4>1 DEF Phase
    <3>3. QED BY <3>1, <3>2
  <2>3. QED BY <2>2
<1>4. ASSUME NEW e \in Events, BusinessStep(e) \/ ClockStep(e) PROVE Goal
  <2>1. \A x \in Events \ {e} : row'[x] = row[x]
    BY <1>4 DEF BusinessStep, ClockStep, AddOutboxEvent, PassExpiry,
       RedriveDeadLetterEvent, EraseAccount, PurgeTerminal,
       ProcessEmailProviderEvent, BecomeAvailable, LapseLease, TypeOK
  <2>2. QED BY <2>1 DEF Unmoved
<1>5. ASSUME NEW r \in Relays, NEW e \in Events, TaskStep(r, e) PROVE Goal
  <2>1. \A x \in Events \ {e} : row'[x] = row[x]
    BY <1>5 DEF TaskStep, AddJob, MarkEnqueued,
       ReleaseClaimAfterEnqueueFailure, TypeOK
  <2>2. QED BY <2>1 DEF Unmoved
<1>6. ASSUME NEW w \in Workers, ProcessStep(w), row' # row PROVE Goal
  <2>1. worker[w].event \in Events
    BY <1>6, RunningWorker
       DEF ProcessStep, ReadEvent, ExpireEvent, StartProcessing,
           LookupDelivery, UpsertDelivery, FinishRecorded, SendAccepted,
           SendFails, RecordDeliveryResult, FinalizeDelivery,
           RecordDeliveryError, RecordDeliveryFailure, CompleteJob, FailJob, At
  <2>2. \A x \in Events \ {worker[w].event} : row'[x] = row[x]
    BY <1>6, <2>1
       DEF ProcessStep, ReadEvent, ExpireEvent, StartProcessing,
           LookupDelivery, UpsertDelivery, FinishRecorded, Finalized,
           SendAccepted, SendFails, RecordDeliveryResult, FinalizeDelivery,
           RecordDeliveryError, RecordDeliveryFailure, Failed, CompleteJob,
           FailJob, TypeOK
  <2>3. QED BY <2>1, <2>2 DEF Unmoved
<1>7. ASSUME NEW e \in Events, NEW g \in Generations, QueueStep(e, g)
      PROVE  Goal
  <2>1. \A x \in Events \ {e} : row'[x] = row[x]
    BY <1>7 DEF QueueStep, StallOrphanedJob, ReconcileExhaustedJob, Failed,
       TypeOK
  <2>2. QED BY <2>1 DEF Unmoved
<1>8. QED
  BY <1>1, <1>3, <1>4, <1>5, <1>6, <1>7
     DEF Next, vars, RelayCrash, TaskFault, AddJobFails, MarkEnqueuedFails,
         ReleaseClaimFails, TakeStep, TakeJob, WorkerCrash, DatabaseError,
         StallRunningJob, RemoveFinishedJob, ReconcileFails

\* A requeued row was PROCESSING: its owner held it until then.
LEMMA RequeueFromProcessing ==
    ASSUME OwnershipInv, NEW e \in Events, Requeued(e)
    PROVE  row[e].status = "PROCESSING"
BY DEF OwnershipInv, OwnedRowIsHeld, Requeued, OutboxStatus, Terminal

\* Every step of the outbox is a step of the lifecycle or leaves it alone.
LEMMA LifecycleStep ==
    ASSUME TypeOK, TypeOK', OwnershipInv, [Next]_vars
    PROVE  [Lifecycle!Next]_(<<[e \in Events |-> Phase(row[e].status)],
                               [e \in Events |-> row[e].gen]>>)
<1> DEFINE ph == [e \in Events |-> Phase(row[e].status)]
           gn == [e \in Events |-> row[e].gen]
<1>1. CASE \A x \in Events : /\ Phase(row'[x].status) = Phase(row[x].status)
                             /\ row'[x].gen = row[x].gen
  BY <1>1
<1>2. ASSUME NEW e \in Events, \A x \in Events \ {e} : Unmoved(x)
      PROVE  [Lifecycle!Next]_(<<ph, gn>>)
  <2>1. /\ ph' = [ph EXCEPT ![e] = Phase(row'[e].status)]
        /\ gn' = [gn EXCEPT ![e] = row'[e].gen]
    BY <1>2 DEF Unmoved
  <2>2. CASE Phase(row'[e].status) = ph[e] /\ row'[e].gen = row[e].gen
    BY <2>1, <2>2
  <2>3. CASE Redriven(e)
    BY ZenonT(40), <2>1, <2>3 DEF Redriven, Phase, Lifecycle!Next, Lifecycle!Redrive
  <2>4. ASSUME NEW a, NEW b, ph[e] = a, row'[e].gen = row[e].gen,
               Phase(row'[e].status) = b,
               <<a, b>> \in {<<"absent", "waiting">>,
                             <<"waiting", "processing">>,
                             <<"processing", "waiting">>,
                             <<"processing", "delivered">>,
                             <<"waiting", "dead">>, <<"processing", "dead">>,
                             <<"delivered", "gone">>, <<"dead", "gone">>}
        PROVE  Lifecycle!Next
    BY <2>1, <2>4
       DEF Lifecycle!Next, Lifecycle!Move, Lifecycle!Insert,
           Lifecycle!Attempt, Lifecycle!Retry, Lifecycle!Deliver,
           Lifecycle!Bury, Lifecycle!Forget
  <2>5. ph[e] = Phase(row[e].status)
    OBVIOUS
  <2>6. CASE Unmoved(e) \/ Relayed(e)
    <3>1. Phase(row'[e].status) = Phase(row[e].status) /\ row'[e].gen = row[e].gen
      BY <2>6 DEF Unmoved, Relayed, Phase
    <3>2. QED BY <2>2, <3>1
  <2>7. CASE Buried(e)
    <3>1. /\ Phase(row[e].status) \in {"waiting", "processing"}
          /\ Phase(row'[e].status) = "dead" /\ row'[e].gen = row[e].gen
      BY <2>7 DEF Buried, OutboxStatus, Terminal, Phase
    <3>2. QED BY <2>4, <3>1
  <2>8. CASE Purged(e)
    <3>1. /\ Phase(row[e].status) \in {"delivered", "dead"}
          /\ Phase(row'[e].status) = "gone" /\ row'[e].gen = row[e].gen
      BY <2>8 DEF Purged, Terminal, Phase
    <3>2. QED BY <2>4, <3>1
  <2>9. CASE Inserted(e) \/ Started(e) \/ Finished(e)
    <3>1. /\ row'[e].gen = row[e].gen
          /\ <<Phase(row[e].status), Phase(row'[e].status)>> \in
               {<<"absent", "waiting">>, <<"waiting", "processing">>,
                <<"processing", "delivered">>}
      BY <2>9 DEF Inserted, Started, Finished, Phase
    <3>2. QED BY <2>4, <3>1
  <2>10. CASE Requeued(e)
    <3>1. /\ Phase(row[e].status) = "processing"
          /\ Phase(row'[e].status) = "waiting" /\ row'[e].gen = row[e].gen
      BY <2>10, RequeueFromProcessing DEF Requeued, Phase
    <3>2. QED BY <2>4, <3>1
  <2>11. QED
    BY <2>3, <2>6, <2>7, <2>8, <2>9, <2>10, RowStep DEF RowMoves
<1>3. QED BY <1>1, <1>2, OneRowMoves

\* The outbox implements its lifecycle for any number of processes: an ending
\* is final for its generation.
THEOREM OutboxImplementsLifecycle == Spec => ImplementsLifecycle
<1>1. Init => Lifecycle!Init
  BY DEF Init, Lifecycle!Init, NewRow, Phase
<1>2. TypeOK /\ TypeOK' /\ OwnershipInv /\ [Next]_vars
        => [Lifecycle!Next]_(<<[e \in Events |-> Phase(row[e].status)],
                               [e \in Events |-> row[e].gen]>>)
  BY LifecycleStep
<1>3. QED
  BY <1>1, <1>2, TypeCorrect, SingleOwnerAlways, PTL
     DEF Spec, ImplementsLifecycle, Lifecycle!Spec

-----------------------------------------------------------------------------
(* Without email provider events, delivered means sent.                     *)

\* A recorded delivery, and a worker that is about to record or to finish one,
\* has an event some provider handled.
HandledInv ==
    /\ \A e \in Events : delivery[e] = "RECORDED" => e \in handled
    /\ \A w \in Workers :
          worker[w].step \in {"record", "finalize", "finishRecorded"} =>
              worker[w].event \in handled
    /\ DeliveredMeansHandled

\* Every step keeps HandledInv: only an accepted send is ever recorded.
LEMMA HandledStep ==
    ASSUME TypeOK, HandledInv, ~EmailEventsConfigured, [Next]_vars
    PROVE  HandledInv'
<1>1. handled \subseteq handled'
  <2>1. ASSUME NEW w \in Workers, ProcessStep(w) PROVE handled \subseteq handled'
    BY <2>1
       DEF ProcessStep, ReadEvent, ExpireEvent, StartProcessing,
           LookupDelivery, UpsertDelivery, FinishRecorded, SendAccepted,
           SendFails, RecordDeliveryResult, FinalizeDelivery,
           RecordDeliveryError, RecordDeliveryFailure, CompleteJob, FailJob
  <2>2. ASSUME \A w \in Workers : ~ProcessStep(w) PROVE handled' = handled
    BY ZenonT(40), <2>2
       DEF Next, vars, BusinessStep, AddOutboxEvent, PassExpiry,
           RedriveDeadLetterEvent, EraseAccount, PurgeTerminal,
           ProcessEmailProviderEvent, ClockStep, BecomeAvailable, LapseLease,
           ClaimStep, ClaimOutboxBatch, RelayCrash, TaskStep, AddJob,
           MarkEnqueued, ReleaseClaimAfterEnqueueFailure, TaskFault,
           AddJobFails, MarkEnqueuedFails, ReleaseClaimFails, WorkerCrash,
           DatabaseError, TakeStep, TakeJob, QueueStep, StallOrphanedJob,
           ReconcileExhaustedJob, StallRunningJob, RemoveFinishedJob,
           ReconcileFails
  <2>3. QED BY <2>1, <2>2
<1>2. ASSUME NEW e \in Events, delivery'[e] = "RECORDED" PROVE e \in handled'
  <2>1. CASE delivery[e] = "RECORDED"
    BY <1>1, <2>1 DEF HandledInv
  <2>2. CASE delivery[e] # "RECORDED"
    <3>1. PICK w \in Workers : RecordDeliveryResult(w) /\ worker[w].event = e
      <4>1. ASSUME NEW w \in Workers, ProcessStep(w)
            PROVE  RecordDeliveryResult(w) /\ worker[w].event = e
        BY <1>2, <2>2, <4>1
           DEF ProcessStep, ReadEvent, ExpireEvent, StartProcessing,
               LookupDelivery, UpsertDelivery, FinishRecorded, SendAccepted,
               SendFails, RecordDeliveryResult, FinalizeDelivery,
               RecordDeliveryError, RecordDeliveryFailure, CompleteJob,
               FailJob, TypeOK
      <4>2. \E w \in Workers : ProcessStep(w)
        BY ZenonT(40), <1>2, <2>2
           DEF Next, vars, BusinessStep, AddOutboxEvent, PassExpiry,
               RedriveDeadLetterEvent, EraseAccount, PurgeTerminal,
               ProcessEmailProviderEvent, ClockStep, BecomeAvailable,
               LapseLease, ClaimStep, ClaimOutboxBatch, RelayCrash, TaskStep,
               AddJob, MarkEnqueued, ReleaseClaimAfterEnqueueFailure,
               TaskFault, AddJobFails, MarkEnqueuedFails, ReleaseClaimFails,
               WorkerCrash, DatabaseError, TakeStep, TakeJob, QueueStep,
               StallOrphanedJob, ReconcileExhaustedJob, StallRunningJob,
               RemoveFinishedJob, ReconcileFails, TypeOK
      <4>3. QED BY <4>1, <4>2
    <3>2. e \in handled
      BY <3>1 DEF RecordDeliveryResult, At, HandledInv
    <3>3. QED BY <1>1, <3>2
  <2>3. QED BY <2>1, <2>2
<1>3. ASSUME NEW v \in Workers,
             worker'[v].step \in {"record", "finalize", "finishRecorded"}
      PROVE  worker'[v].event \in handled'
  <2>1. CASE worker'[v] = worker[v]
    BY <1>1, <1>3, <2>1 DEF HandledInv
  <2>2. ASSUME NEW w \in Workers, NEW s, Goto(w, s), v # w
        PROVE  worker'[v] = worker[v]
    BY <2>2, WorkerWrite
  <2>3. ASSUME NEW w \in Workers, worker'[v] # worker[v], ProcessStep(w)
        PROVE  worker'[v].event \in handled'
    <3>1. CASE worker' = [worker EXCEPT ![w] = IdleWorker]
      BY <1>3, <2>3, <3>1 DEF IdleWorker, TypeOK, WorkersOK
    <3>2. CASE SendAccepted(w)
      BY <2>2, <2>3, <3>2, WorkerWrite DEF SendAccepted
    <3>3. CASE LookupDelivery(w)
      <4>1. v = w /\ delivery[worker[w].event] = "RECORDED"
        BY <1>3, <2>2, <2>3, <3>3, WorkerWrite DEF LookupDelivery
      <4>2. worker[w].event \in Events
        BY <3>3, RunningWorker DEF LookupDelivery, At
      <4>3. worker'[v].event = worker[w].event
        BY <3>3, <4>1, WorkerWrite DEF LookupDelivery
      <4>4. QED BY <1>1, <4>1, <4>2, <4>3 DEF HandledInv
    <3>4. CASE RecordDeliveryResult(w)
      <4>1. v = w /\ worker'[v].event = worker[w].event
        BY <2>2, <2>3, <3>4, WorkerWrite DEF RecordDeliveryResult
      <4>2. QED BY <1>1, <3>4, <4>1 DEF RecordDeliveryResult, At, HandledInv
    <3>5. ASSUME NEW s, Goto(w, s),
                 s \notin {"record", "finalize", "finishRecorded"}
          PROVE  FALSE
      BY <1>3, <2>2, <2>3, <3>5, WorkerWrite
    <3>6. QED
      BY <2>3, <3>1, <3>2, <3>3, <3>4, <3>5
         DEF ProcessStep, ReadEvent, ExpireEvent, StartProcessing,
             UpsertDelivery, FinishRecorded, SendFails, FinalizeDelivery,
             RecordDeliveryError, RecordDeliveryFailure, CompleteJob, FailJob
  <2>4. ASSUME NEW w \in Workers, worker'[v] # worker[v],
               TakeStep(w) \/ WorkerCrash(w) \/ DatabaseError(w)
        PROVE  FALSE
    <3>1. CASE TakeStep(w)
      BY <1>3, <2>4, <3>1 DEF TakeStep, TakeJob, TypeOK, WorkersOK
    <3>2. CASE WorkerCrash(w)
      BY <1>3, <2>4, <3>2 DEF WorkerCrash, IdleWorker, TypeOK, WorkersOK
    <3>3. CASE DatabaseError(w)
      BY <1>3, <2>2, <2>4, <3>3, WorkerWrite DEF DatabaseError
    <3>4. QED BY <2>4, <3>1, <3>2, <3>3
  <2>5. QED
    BY ZenonT(40), <2>1, <2>3, <2>4
       DEF Next, vars, BusinessStep, AddOutboxEvent, PassExpiry,
           RedriveDeadLetterEvent, EraseAccount, PurgeTerminal,
           ProcessEmailProviderEvent, ClockStep, BecomeAvailable, LapseLease,
           ClaimStep, ClaimOutboxBatch, RelayCrash, TaskStep, AddJob,
           MarkEnqueued, ReleaseClaimAfterEnqueueFailure, TaskFault,
           AddJobFails, MarkEnqueuedFails, ReleaseClaimFails, QueueStep,
           StallOrphanedJob, ReconcileExhaustedJob, StallRunningJob,
           RemoveFinishedJob, ReconcileFails
<1>4. ASSUME NEW e \in Events, row'[e].status = "DELIVERED"
      PROVE  e \in handled'
  <2>1. CASE row[e].status = "DELIVERED"
    BY <1>1, <2>1 DEF HandledInv, DeliveredMeansHandled
  <2>2. CASE row[e].status # "DELIVERED"
    <3>1. PICK w \in Workers :
            /\ worker[w].event = e
            /\ worker[w].step \in {"finalize", "finishRecorded"}
      <4>1. Finished(e)
        BY <1>4, <2>2, RowStep
           DEF RowMoves, Unmoved, Redriven, Buried, Purged, Inserted,
               Relayed, Started, Requeued
      <4>2. QED BY <4>1 DEF Finished, Owns
    <3>2. QED BY <1>1, <3>1 DEF HandledInv
  <2>3. QED BY <2>1, <2>2
<1>5. QED BY <1>2, <1>3, <1>4 DEF HandledInv, DeliveredMeansHandled

\* Without the email event webhook, an event is DELIVERED only if a provider
\* has accepted or suppressed it, for any number of processes and faults.
THEOREM DeliveredMeansHandledAlways ==
    ASSUME ~EmailEventsConfigured PROVE Spec => []DeliveredMeansHandled
<1>1. Init => HandledInv
  BY DEF Init, HandledInv, DeliveredMeansHandled, NewRow, IdleWorker
<1>2. TypeOK /\ HandledInv /\ [Next]_vars => HandledInv'
  BY HandledStep
<1>3. HandledInv => DeliveredMeansHandled
  BY DEF HandledInv
<1>4. QED BY <1>1, <1>2, <1>3, TypeCorrect, PTL DEF Spec


-----------------------------------------------------------------------------
(* A recorded success is not sent again.                                    *)

\* No statement of a worker has failed, and no running worker has lost its job.
Calm == faults["database"] = FaultBudget["database"]
Steady == faults["stall"] = FaultBudget["stall"]

FaultsBounded == \A k \in FaultKinds : faults[k] <= FaultBudget[k]

\* A job with a holder runs, and one whose 'failed' handler is due has failed.
QueueInv ==
    /\ \A id \in JobIds : job[id].holder # NoWorker => job[id].state = "ACTIVE"
    /\ \A id \in reconciling : job[id].state = "FAILED"

\* Without stalls every busy worker holds its job, so it is alone on it.
Holding ==
    \A w \in Workers :
        ~At(w, "idle") => job[<<worker[w].event, worker[w].gen>>].holder = w
HolderInv == Steady => Holding

Working(w, e) == worker[w].step \in OwningSteps /\ worker[w].event = e

\* Without stalls an event is redriven only after its last owner has gone.
CurrentInv ==
    Steady => \A w \in Workers, e \in Events : Working(w, e) =>
        /\ worker[w].gen = row[e].gen
        /\ row[e].status = "DEAD_LETTER" => row[e].expired

\* Within the first generation nobody starts an event after its success was
\* recorded.
FirstInv ==
    Calm => \A e \in recorded : row[e].gen = 0 =>
        /\ row[e].status \in {"PROCESSING", "DELIVERED", "DEAD_LETTER", "PURGED"}
        /\ \A w \in Workers : Working(w, e) =>
              /\ worker[w].step \in {"finalize", "recordError", "recordFailure"}
              /\ worker[w].step # "finalize" => row[e].status # "PROCESSING"

\* Events that cannot be redriven.
Gone(e) == \/ row[e].status \in {"DELIVERED", "PURGED"}
           \/ row[e].status = "DEAD_LETTER" /\ row[e].expired

\* Without stalls the success stays in the delivery row as long as the event can
\* be started, and whoever starts it finds it there.
SteadyInv ==
    Calm /\ Steady => \A e \in recorded :
        /\ Gone(e) \/ delivery[e] = "RECORDED"
        /\ \A w \in Workers : Working(w, e) =>
              /\ worker[w].step \notin {"send", "record"}
              /\ worker[w].step = "upsert" => row[e].status = "PURGED"
              /\ worker[w].step = "lookup" =>
                    row[e].status = "PURGED" \/ delivery[e] = "RECORDED"
              /\ worker[w].step \in {"recordError", "recordFailure"} => Gone(e)

\* Faults are only spent.
LEMMA FaultStep ==
    ASSUME TypeOK, FaultsBounded, [Next]_vars
    PROVE  /\ FaultsBounded'
           /\ Calm' => Calm /\ ~\E w \in Workers : DatabaseError(w)
           /\ Steady' => /\ Steady
                         /\ ~\E e \in Events, g \in Generations : StallRunningJob(e, g)
<1>1. /\ faults \in [FaultKinds -> Nat] /\ FaultBudget \in [FaultKinds -> Nat]
      /\ {"relay", "workerCrash", "stall", "database"} = FaultKinds
  BY BoundsAssumption DEF TypeOK, FaultKinds
<1>2. ASSUME NEW k \in FaultKinds, Spend(k)
      PROVE  FaultsBounded' /\ (Calm' => Calm /\ k # "database")
                            /\ (Steady' => Steady /\ k # "stall")
  BY <1>1, <1>2 DEF Spend, FaultsBounded, Calm, Steady
<1>3. CASE UNCHANGED faults
  <2>1. \A k \in FaultKinds : ~Spend(k)
    BY <1>1, <1>3 DEF Spend
  <2> QED
    BY <1>1, <1>3, <2>1 DEF FaultsBounded, Calm, Steady, DatabaseError, StallRunningJob
<1>4. CASE \E k \in FaultKinds : Spend(k)
  <2>1. PICK k \in FaultKinds : Spend(k)
    BY <1>4
  <2>2. \A m \in FaultKinds : Spend(m) => m = k
    BY <1>1, <2>1 DEF Spend
  <2> QED
    BY <1>1, <1>2, <2>1, <2>2 DEF DatabaseError, StallRunningJob
<1>5. UNCHANGED faults \/ \E k \in FaultKinds : Spend(k)
  BY ZenonT(40), <1>1
     DEF Next, vars, BusinessStep, AddOutboxEvent, PassExpiry,
         RedriveDeadLetterEvent, EraseAccount, PurgeTerminal,
         ProcessEmailProviderEvent, ClockStep, BecomeAvailable, LapseLease,
         ClaimStep, ClaimOutboxBatch, RelayCrash, TaskStep, AddJob,
         MarkEnqueued, ReleaseClaimAfterEnqueueFailure, TaskFault,
         AddJobFails, MarkEnqueuedFails, ReleaseClaimFails, TakeStep, TakeJob,
         ProcessStep, ReadEvent, ExpireEvent, StartProcessing, LookupDelivery,
         UpsertDelivery, FinishRecorded, SendAccepted, SendFails,
         RecordDeliveryResult, FinalizeDelivery, RecordDeliveryError,
         RecordDeliveryFailure, CompleteJob, FailJob, WorkerCrash,
         DatabaseError, QueueStep, StallOrphanedJob, ReconcileExhaustedJob,
         StallRunningJob, RemoveFinishedJob, ReconcileFails
<1> QED
  BY <1>3, <1>4, <1>5

\* One job is written, and has no holder then.
LEMMA QueueWrite ==
    ASSUME TypeOK, QueueInv, NEW id \in JobIds, NEW j, job' = [job EXCEPT ![id] = j],
           j.holder = NoWorker, id \in reconciling' => j.state = "FAILED",
           reconciling' \subseteq reconciling \cup {id}
    PROVE  QueueInv'
<1>1. job'[id] = j /\ \A x \in JobIds \ {id} : job'[x] = job[x]
  BY DEF TypeOK
<1>2. reconciling \subseteq JobIds
  BY DEF TypeOK
<1> QED
  BY <1>1, <1>2 DEF QueueInv

\* Its former holder, if it had one, has gone.
LEMMA HoldingWrite ==
    ASSUME TypeOK, Holding, NEW id \in JobIds, NEW j, job' = [job EXCEPT ![id] = j],
           \A v \in Workers : worker'[v].step # "idle" =>
               worker'[v] = worker[v] /\ job[id].holder # v
    PROVE  Holding'
<1> SUFFICES ASSUME NEW v \in Workers, worker'[v].step # "idle"
             PROVE  job'[<<worker'[v].event, worker'[v].gen>>].holder = v
  BY DEF Holding, At
<1>1. PICK x \in JobIds : x = <<worker[v].event, worker[v].gen>>
  BY RunningWorker DEF JobIds, At
<1>2. worker'[v] = worker[v] /\ job[x].holder = v /\ job[id].holder # v
  BY <1>1 DEF Holding, At
<1>3. job'[x] = job[x]
  BY <1>2 DEF TypeOK
<1> QED
  BY <1>1, <1>2, <1>3

\* Workers that only move on keep their jobs.
LEMMA HoldingSame ==
    ASSUME TypeOK, Holding, UNCHANGED job,
           \A v \in Workers : worker'[v].step # "idle" =>
               /\ ~At(v, "idle") /\ worker'[v].event = worker[v].event
               /\ worker'[v].gen = worker[v].gen
    PROVE  Holding'
BY DEF Holding, At

\* The steps of the queue, and those that take a job, end or crash.
LEMMA HolderStep ==
    ASSUME TypeOK, QueueInv, [Next]_vars
    PROVE  /\ QueueInv'
           /\ Holding /\ (\A e \in Events, g \in Generations : ~StallRunningJob(e, g))
                => Holding'
<1> DEFINE Goal == /\ QueueInv'
                   /\ Holding /\ (\A e \in Events, g \in Generations : ~StallRunningJob(e, g))
                        => Holding'
<1>1. ASSUME UNCHANGED <<job, reconciling>>,
             \A v \in Workers : worker'[v].step # "idle" =>
               /\ ~At(v, "idle") /\ worker'[v].event = worker[v].event
               /\ worker'[v].gen = worker[v].gen
      PROVE  Goal
  <2>1. QueueInv'
    BY <1>1 DEF QueueInv
  <2> QED
    BY <1>1, <2>1, HoldingSame
<1>2. CASE UNCHANGED <<job, reconciling, worker>>
  BY <1>1, <1>2 DEF At
<1>3. ASSUME NEW w \in Workers, NEW s, Goto(w, s), ~At(w, "idle"), UNCHANGED <<job, reconciling>>
      PROVE  Goal
  BY <1>1, <1>3, WorkerWrite DEF At
<1>4. ASSUME NEW w \in Workers, worker' = [worker EXCEPT ![w] = IdleWorker]
      PROVE  \A v \in Workers : worker'[v].step # "idle" => v # w /\ worker'[v] = worker[v]
  BY <1>4 DEF TypeOK, WorkersOK, IdleWorker
<1>5. ASSUME NEW id \in JobIds, NEW j, job' = [job EXCEPT ![id] = j], j.holder = NoWorker,
             id \in reconciling' => j.state = "FAILED", reconciling' \subseteq reconciling \cup {id},
             job[id].holder = NoWorker, UNCHANGED worker
      PROVE  Goal
  <2>1. \A v \in Workers : worker'[v] = worker[v] /\ job[id].holder # v
    BY <1>5, NullsAssumption
  <2> QED
    BY <1>5, <2>1, QueueWrite, HoldingWrite
<1>6. ASSUME NEW r \in Relays, NEW e \in Events, job' \in {job, Added(e, task[<<r, e>>].gen)},
             UNCHANGED <<reconciling, worker>>
      PROVE  Goal
  <2> DEFINE j == [NoJob EXCEPT !.state = "WAITING"]
  <2>1. PICK id \in JobIds : id = <<e, task[<<r, e>>].gen>>
    BY DEF TypeOK, TaskIds, RelayTask, JobIds
  <2>2. CASE job[id].state \in {"ABSENT", "REMOVED"} /\ job' = [job EXCEPT ![id] = j]
    <3>1. j.holder = NoWorker
      BY DEF NoJob
    <3> HIDE DEF j
    <3>2. job[id].holder = NoWorker /\ id \notin reconciling
      BY <2>2 DEF QueueInv
    <3> QED
      BY <1>5, <1>6, <2>2, <3>1, <3>2
  <2>3. CASE job' = job
    BY <1>2, <1>6, <2>3
  <2> QED
    BY <1>6, <2>1, <2>2, <2>3 DEF Added
<1>7. ASSUME NEW r \in Relays, NEW e \in Events, TaskStep(r, e) \/ TaskFault(r, e) PROVE Goal
  BY <1>2, <1>6, <1>7 DEF TaskStep, TaskFault, AddJob, AddJobFails, MarkEnqueued,
     MarkEnqueuedFails, ReleaseClaimAfterEnqueueFailure, ReleaseClaimFails
<1>8. ASSUME NEW w \in Workers, TakeStep(w) PROVE Goal
  <2>1. PICK e \in Events, g \in Generations : TakeJob(w, e, g)
    BY <1>8 DEF TakeStep
  <2>2. PICK id \in JobIds : id = <<e, g>>
    BY DEF JobIds
  <2>3. /\ job[id].state = "WAITING" /\ worker[w].step = "idle" /\ UNCHANGED reconciling
        /\ job' = [job EXCEPT ![id].state = "ACTIVE", ![id].holder = w]
        /\ worker' = [worker EXCEPT ![w] = [step |-> "read", event |-> e, gen |-> g,
                                            attemptsMade |-> job[id].attemptsMade]]
    BY <2>1, <2>2 DEF TakeJob, At
  <2>4. /\ job'[id].state = "ACTIVE" /\ job'[id].holder = w
        /\ \A x \in JobIds \ {id} : job'[x] = job[x]
    BY <2>3 DEF TypeOK, Job
  <2>5. /\ worker'[w].event = e /\ worker'[w].gen = g
        /\ \A v \in Workers \ {w} : worker'[v] = worker[v]
    BY <2>3 DEF TypeOK, WorkersOK
  <2>6. QueueInv'
    BY <2>3, <2>4 DEF QueueInv, TypeOK
  <2>7. ASSUME Holding, NEW v \in Workers, worker'[v].step # "idle"
        PROVE  job'[<<worker'[v].event, worker'[v].gen>>].holder = v
    <3>1. CASE v = w
      BY <2>2, <2>4, <2>5, <3>1
    <3>2. CASE v # w
      <4>1. PICK x \in JobIds : x = <<worker[v].event, worker[v].gen>>
        BY <2>5, <2>7, <3>2, RunningWorker DEF JobIds, At
      <4>2. job[x].holder = v
        BY <2>5, <2>7, <3>2, <4>1 DEF Holding, At
      <4>3. x # id
        BY <2>3, <4>2, NullsAssumption DEF QueueInv
      <4> QED
        BY <2>4, <2>5, <3>2, <4>1, <4>2, <4>3
    <3> QED
      BY <3>1, <3>2
  <2> QED
    BY <2>6, <2>7 DEF Holding, At
<1>9. ASSUME NEW w \in Workers, NEW id \in JobIds, NEW j, job[id].holder = w,
             job' = [job EXCEPT ![id] = j], j.holder = NoWorker,
             id \in reconciling' => j.state = "FAILED", reconciling' \subseteq reconciling \cup {id},
             worker' = [worker EXCEPT ![w] = IdleWorker]
      PROVE  Goal
  <2>1. \A v \in Workers : worker'[v].step # "idle" => worker'[v] = worker[v] /\ job[id].holder # v
    BY <1>4, <1>9
  <2> QED
    BY <1>9, <2>1, QueueWrite, HoldingWrite
<1>10. ASSUME NEW w \in Workers, worker' = [worker EXCEPT ![w] = IdleWorker],
              UNCHANGED <<job, reconciling>>
       PROVE  Goal
  BY <1>1, <1>4, <1>10 DEF At
<1>11. ASSUME NEW w \in Workers, CompleteJob(w) \/ FailJob(w) \/ WorkerCrash(w) PROVE Goal
  <2> DEFINE made == worker[w].attemptsMade + 1
             over == made >= MaxAttempts
             s == IF over THEN "FAILED" ELSE "WAITING"
  <2>1. PICK id \in JobIds : id = <<worker[w].event, worker[w].gen>>
    BY <1>11, RunningWorker DEF JobIds, At, CompleteJob, FailJob, WorkerCrash
  <2>2. worker' = [worker EXCEPT ![w] = IdleWorker]
    BY <1>11 DEF CompleteJob, FailJob, WorkerCrash
  <2>3. CASE job[id].holder # w
    <3>1. UNCHANGED <<job, reconciling>>
      BY <1>11, <2>1, <2>3 DEF CompleteJob, FailJob, WorkerCrash
    <3> QED
      BY <1>10, <2>2, <3>1
  <2>4. CASE job[id].holder = w
    <3>1. job[id].state = "ACTIVE" /\ id \notin reconciling /\ job[id] \in Job
      BY <2>4, NullsAssumption DEF QueueInv, TypeOK
    <3>2. CASE CompleteJob(w)
      <4> DEFINE j == [job[id] EXCEPT !.state = "COMPLETED", !.holder = NoWorker]
      <4>1. job' = [job EXCEPT ![id] = j] /\ UNCHANGED reconciling
        BY <2>1, <2>4, <3>2 DEF CompleteJob, TypeOK
      <4>2. j.holder = NoWorker
        BY <3>1 DEF Job
      <4> HIDE DEF j
      <4> QED
        BY <1>9, <2>2, <2>4, <3>1, <4>1, <4>2
    <3>3. CASE WorkerCrash(w)
      <4> DEFINE j == [job[id] EXCEPT !.holder = NoWorker]
      <4>1. job' = [job EXCEPT ![id] = j] /\ UNCHANGED reconciling
        BY <2>1, <2>4, <3>3 DEF WorkerCrash, TypeOK
      <4>2. j.holder = NoWorker
        BY <3>1 DEF Job
      <4> HIDE DEF j
      <4> QED
        BY <1>9, <2>2, <2>4, <3>1, <4>1, <4>2
    <3>4. CASE FailJob(w)
      <4> DEFINE j == [job[id] EXCEPT !.state = s, !.attemptsMade = made, !.holder = NoWorker]
      <4>1. /\ job' = [job EXCEPT ![id] = j]
            /\ reconciling' = IF over THEN reconciling \cup {id} ELSE reconciling
        BY <2>1, <2>4, <3>4 DEF FailJob, TypeOK
      <4>2. over \in BOOLEAN /\ (over => s = "FAILED")
        OBVIOUS
      <4> HIDE DEF over, s, made
      <4>3. j.holder = NoWorker /\ j.state = s
        BY <3>1 DEF Job
      <4> HIDE DEF j
      <4>4. id \in reconciling' => j.state = "FAILED"
        BY <3>1, <4>1, <4>2, <4>3
      <4>5. reconciling' \subseteq reconciling \cup {id}
        BY <4>1
      <4> QED
        BY <1>9, <2>2, <2>4, <4>1, <4>3, <4>4, <4>5
    <3> QED
      BY <1>11, <3>2, <3>3, <3>4
  <2> QED
    BY <2>3, <2>4
<1>12. ASSUME NEW e \in Events, NEW g \in Generations, job[<<e, g>>].state = "ACTIVE",
              Stalled(e, g)
       PROVE  /\ QueueInv'
              /\ job[<<e, g>>].holder = NoWorker /\ UNCHANGED worker => Goal
  <2>1. PICK id \in JobIds : id = <<e, g>>
    BY DEF JobIds
  <2>2. job[id] \in Job /\ id \notin reconciling
    BY <1>12, <2>1 DEF TypeOK, QueueInv
  <2>3. ASSUME NEW j, job' = [job EXCEPT ![id] = j], j.holder = NoWorker,
               id \in reconciling' => j.state = "FAILED",
               reconciling' \subseteq reconciling \cup {id}
        PROVE  /\ QueueInv'
               /\ job[id].holder = NoWorker /\ UNCHANGED worker => Goal
    BY <1>5, <2>3, QueueWrite
  <2>4. CASE job[id].stalls < MaxStalledCount
    <3> DEFINE n == job[id].stalls + 1
               j == [job[id] EXCEPT !.state = "WAITING", !.stalls = n, !.holder = NoWorker]
    <3>1. /\ job' = [job EXCEPT ![id].state = "WAITING", ![id].stalls = n, ![id].holder = NoWorker]
          /\ reconciling' = reconciling
      BY <1>12, <2>1, <2>4 DEF Stalled, TypeOK
    <3> HIDE DEF n
    <3>2. job' = [job EXCEPT ![id] = j]
      BY <3>1 DEF TypeOK
    <3>3. j.holder = NoWorker
      BY <2>2 DEF Job
    <3> HIDE DEF j
    <3> QED
      BY <2>1, <2>2, <2>3, <3>1, <3>2, <3>3
  <2>5. CASE ~(job[id].stalls < MaxStalledCount)
    <3> DEFINE j == [job[id] EXCEPT !.state = "FAILED", !.holder = NoWorker]
    <3>1. /\ job' = [job EXCEPT ![id].state = "FAILED", ![id].holder = NoWorker]
          /\ reconciling' = reconciling \cup {id}
      BY <1>12, <2>1, <2>5 DEF Stalled
    <3>2. job' = [job EXCEPT ![id] = j]
      BY <3>1 DEF TypeOK
    <3>3. j.holder = NoWorker /\ j.state = "FAILED"
      BY <2>2 DEF Job
    <3> HIDE DEF j
    <3> QED
      BY <2>1, <2>3, <3>1, <3>2, <3>3
  <2> QED
    BY <2>4, <2>5
<1>13. ASSUME NEW e \in Events, NEW g \in Generations,
              \/ QueueStep(e, g) \/ StallRunningJob(e, g)
              \/ RemoveFinishedJob(e, g) \/ ReconcileFails(e, g)
       PROVE  Goal
  <2>1. CASE StallOrphanedJob(e, g)
    BY <1>12, <2>1 DEF StallOrphanedJob
  <2>2. CASE StallRunningJob(e, g)
    BY <1>12, <2>2 DEF StallRunningJob
  <2>3. CASE ReconcileExhaustedJob(e, g) \/ ReconcileFails(e, g)
    <3>1. UNCHANGED <<job, worker>> /\ reconciling' \subseteq reconciling
      BY <2>3 DEF ReconcileExhaustedJob, ReconcileFails
    <3> QED
      BY <3>1 DEF QueueInv, Holding, At
  <2>4. CASE RemoveFinishedJob(e, g)
    <3> DEFINE j == [NoJob EXCEPT !.state = "REMOVED"]
    <3>1. PICK id \in JobIds : id = <<e, g>>
      BY DEF JobIds
    <3>2. /\ job[id].state \in {"COMPLETED", "FAILED"} /\ id \notin reconciling
          /\ job' = [job EXCEPT ![id] = j] /\ UNCHANGED <<worker, reconciling>>
      BY <2>4, <3>1 DEF RemoveFinishedJob
    <3>3. j.holder = NoWorker
      BY DEF NoJob
    <3> HIDE DEF j
    <3>4. job[id].holder = NoWorker
      BY <3>2 DEF QueueInv
    <3> QED
      BY <1>5, <3>2, <3>3, <3>4
  <2> QED
    BY <1>13, <2>1, <2>2, <2>3, <2>4 DEF QueueStep
<1>14. ASSUME NEW w \in Workers, ProcessStep(w) \/ DatabaseError(w) PROVE Goal
  <2>1. CASE DatabaseError(w)
    BY <1>3, <2>1 DEF DatabaseError, At
  <2>2. CASE ProcessStep(w)
    BY <1>3, <1>11, <2>2
       DEF ProcessStep, ReadEvent, ExpireEvent, StartProcessing,
           LookupDelivery, UpsertDelivery, FinishRecorded, SendAccepted,
           SendFails, RecordDeliveryResult, FinalizeDelivery,
           RecordDeliveryError, RecordDeliveryFailure, At
  <2> QED
    BY <1>14, <2>1, <2>2
<1>15. CASE \/ \E e \in Events : BusinessStep(e) \/ ClockStep(e)
            \/ \E r \in Relays : ClaimStep(r) \/ RelayCrash(r)
            \/ UNCHANGED vars
  <2>1. UNCHANGED <<job, reconciling, worker>>
    BY ZenonT(40), <1>15
       DEF vars, BusinessStep, AddOutboxEvent, PassExpiry,
           RedriveDeadLetterEvent, EraseAccount, PurgeTerminal,
           ProcessEmailProviderEvent, ClockStep, BecomeAvailable, LapseLease,
           ClaimStep, ClaimOutboxBatch, RelayCrash
  <2> QED
    BY <1>2, <2>1
<1> QED
  BY <1>7, <1>8, <1>11, <1>13, <1>14, <1>15 DEF Next

\* How a row is dead lettered, and that expiresAt stays in the past: the
\* account is erased, a worker finds the event expired, its owner gives up, or
\* its job is exhausted.
ExpiryMoves(x) ==
    /\ row[x].expired => row'[x].expired
    /\ Redriven(x) => ~row[x].expired
    /\ Buried(x) =>
          \/ row'[x].expired
          \/ \E w \in Workers : /\ worker[w].step = "expire" /\ worker[w].event = x
                                /\ worker[w].gen = row[x].gen
          \/ \E w \in Workers : Owns(w, x, row[x].gen) /\ worker'[w].step = "throw"
          \/ <<x, row[x].gen>> \in reconciling

\* Every step moves a row's expiry like that.
LEMMA ExpiryStep ==
    ASSUME TypeOK, [Next]_vars, NEW x \in Events
    PROVE  ExpiryMoves(x)
<1> DEFINE Same == row'[x].status = row[x].status /\ row'[x].expired = row[x].expired
                   /\ row'[x].gen = row[x].gen
<1>0. row[x] \in OutboxEvent /\ row[x].gen \in Nat
  BY BoundsAssumption DEF TypeOK, OutboxEvent, Generations
<1>1. ASSUME Same PROVE ExpiryMoves(x)
  BY <1>0, <1>1 DEF ExpiryMoves, Redriven, Buried, Terminal
<1>2. CASE UNCHANGED row
  BY <1>1, <1>2
<1>3. ASSUME NEW e \in Events, NEW s, row' = [row EXCEPT ![e].status = s],
             s = "DEAD_LETTER" =>
                \/ \E w \in Workers : /\ worker[w].step = "expire" /\ worker[w].event = e
                                      /\ worker[w].gen = row[e].gen
                \/ \E w \in Workers : Owns(w, e, row[e].gen) /\ worker'[w].step = "throw"
                \/ <<e, row[e].gen>> \in reconciling
      PROVE  ExpiryMoves(x)
  <2>1. CASE x = e
    <3>1. row'[x].status = s /\ row'[x].expired = row[x].expired /\ row'[x].gen = row[x].gen
      BY <1>3, <2>1 DEF TypeOK, OutboxEvent
    <3> QED
      BY <1>0, <1>3, <2>1, <3>1 DEF ExpiryMoves, Redriven, Buried
  <2>2. CASE x # e
    BY <1>1, <1>3, <2>2 DEF TypeOK
  <2> QED
    BY <2>1, <2>2
<1>4. ASSUME NEW e \in Events, NEW v, row' = [row EXCEPT ![e] = v],
             v.status # "DEAD_LETTER" \/ v.expired, row[e].expired => v.expired,
             v.gen = row[e].gen
      PROVE  ExpiryMoves(x)
  <2>1. CASE x = e
    <3>1. row'[x] = v
      BY <1>4, <2>1 DEF TypeOK
    <3> QED
      BY <1>0, <1>4, <2>1, <3>1 DEF ExpiryMoves, Redriven, Buried
  <2>2. CASE x # e
    BY <1>1, <1>4, <2>2 DEF TypeOK
  <2> QED
    BY <2>1, <2>2
<1>5. ASSUME NEW e \in Events, BusinessStep(e) PROVE ExpiryMoves(x)
  <2>1. CASE \E available \in BOOLEAN : AddOutboxEvent(e, available)
    <3>1. PICK available \in BOOLEAN : AddOutboxEvent(e, available)
      BY <2>1
    <3>2. row'[x].expired = row[x].expired
          /\ (Same \/ (row[x].status = "NONE" /\ row'[x].status = "PENDING"))
      <4> DEFINE v == [row[e] EXCEPT !.status = "PENDING", !.available = available]
      <4>1. row' = [row EXCEPT ![e] = v] /\ row[e].status = "NONE"
        BY <3>1 DEF AddOutboxEvent, TypeOK
      <4>2. v.status = "PENDING" /\ v.expired = row[e].expired
        BY DEF TypeOK, OutboxEvent
      <4> HIDE DEF v
      <4> QED
        BY <4>1, <4>2 DEF TypeOK
    <3> QED
      BY <1>1, <3>2 DEF ExpiryMoves, Redriven, Buried
  <2>2. CASE PassExpiry(e)
    BY <1>0, <2>2 DEF PassExpiry, TypeOK, OutboxEvent, ExpiryMoves, Redriven, Buried, Terminal
  <2>3. CASE RedriveDeadLetterEvent(e)
    BY <1>0, <2>3 DEF RedriveDeadLetterEvent, TypeOK, OutboxEvent, ExpiryMoves, Redriven, Buried,
       Terminal
  <2>4. CASE EraseAccount(e)
    BY <1>0, <2>4 DEF EraseAccount, TypeOK, OutboxEvent, ExpiryMoves, Redriven, Buried, Terminal
  <2>5. CASE PurgeTerminal(e)
    BY <1>0, <2>5 DEF PurgeTerminal, TypeOK, OutboxEvent, ExpiryMoves, Redriven, Buried, Terminal
  <2>6. CASE ProcessEmailProviderEvent(e)
    BY <1>2, <2>6 DEF ProcessEmailProviderEvent
  <2> QED
    BY <1>5, <2>1, <2>2, <2>3, <2>4, <2>5, <2>6 DEF BusinessStep
<1>6. ASSUME NEW e \in Events, ClockStep(e) PROVE ExpiryMoves(x)
  <2>1. Same
    BY <1>6 DEF ClockStep, BecomeAvailable, LapseLease, TypeOK, OutboxEvent
  <2> QED
    BY <1>1, <2>1
<1>7. ASSUME NEW r \in Relays, ClaimStep(r) PROVE ExpiryMoves(x)
  <2>1. PICK batch \in SUBSET Events, token \in Tokens : ClaimOutboxBatch(r, batch, token)
    BY <1>7 DEF ClaimStep
  <2>2. CASE x \in batch
    <3>1. row'[x] = [row[x] EXCEPT !.status = "CLAIMED", !.token = token, !.lapsed = FALSE]
      BY <2>1, <2>2 DEF ClaimOutboxBatch
    <3>2. row'[x].status = "CLAIMED" /\ row'[x].expired = row[x].expired
      BY <1>0, <3>1 DEF OutboxEvent
    <3> QED
      BY <3>2 DEF ExpiryMoves, Redriven, Buried
  <2>3. CASE x \notin batch
    BY <1>1, <2>1, <2>3 DEF ClaimOutboxBatch
  <2> QED
    BY <2>2, <2>3
<1>8. ASSUME NEW e \in Events, NEW s,
             row' = [row EXCEPT ![e].status = s, ![e].token = NoToken, ![e].lapsed = FALSE],
             s # "DEAD_LETTER"
      PROVE  ExpiryMoves(x)
  <2>1. CASE x = e
    <3>1. row'[x].status = s /\ row'[x].expired = row[x].expired /\ row'[x].gen = row[x].gen
      BY <1>8, <2>1 DEF TypeOK, OutboxEvent
    <3> QED
      BY <1>0, <1>8, <3>1 DEF ExpiryMoves, Redriven, Buried
  <2>2. CASE x # e
    BY <1>1, <1>8, <2>2 DEF TypeOK, OutboxEvent
  <2> QED
    BY <2>1, <2>2
<1>9. ASSUME NEW r \in Relays, NEW e \in Events, TaskStep(r, e) PROVE ExpiryMoves(x)
  <2>1. CASE AddJob(r, e) \/ MarkEnqueued(r, e)
    BY <1>2, <1>8, <2>1 DEF AddJob, MarkEnqueued
  <2>2. CASE ReleaseClaimAfterEnqueueFailure(r, e)
    <3> DEFINE v == [row[e] EXCEPT !.status = "PENDING", !.available = FALSE,
                                   !.token = NoToken, !.lapsed = FALSE]
    <3>1. row' = row \/ row' = [row EXCEPT ![e] = v]
      BY <2>2 DEF ReleaseClaimAfterEnqueueFailure
    <3>2. v.status = "PENDING" /\ v.expired = row[e].expired /\ v.gen = row[e].gen
      BY DEF TypeOK, OutboxEvent
    <3> HIDE DEF v
    <3> QED
      BY <1>2, <1>4, <3>1, <3>2
  <2> QED
    BY <1>9, <2>1, <2>2 DEF TaskStep
<1>10. ASSUME NEW w \in Workers, ProcessStep(w), row' # row PROVE ExpiryMoves(x)
  <2>1. PICK e \in Events : e = worker[w].event
    BY <1>10, RunningWorker
       DEF ProcessStep, ReadEvent, ExpireEvent, StartProcessing, LookupDelivery,
           UpsertDelivery, FinishRecorded, SendAccepted, SendFails,
           RecordDeliveryResult, FinalizeDelivery, RecordDeliveryError,
           RecordDeliveryFailure, CompleteJob, FailJob, At
  <2>2. CASE ExpireEvent(w)
    <3>1. /\ worker[w].step = "expire" /\ worker[w].gen = row[e].gen
          /\ row' = [row EXCEPT ![e].status = "DEAD_LETTER"]
      BY <1>10, <2>1, <2>2 DEF ExpireEvent, At
    <3> QED
      BY <1>3, <2>1, <3>1
  <2>3. CASE StartProcessing(w)
    BY <1>8, <1>10, <2>1, <2>3 DEF StartProcessing
  <2>4. CASE FinishRecorded(w) \/ FinalizeDelivery(w)
    BY <1>3, <1>10, <2>1, <2>4 DEF FinishRecorded, FinalizeDelivery, Finalized
  <2>5. CASE RecordDeliveryFailure(w)
    <3>1. PICK s : row' = [row EXCEPT ![e].status = s] /\ ~Skip(e, worker[w].gen)
      BY <1>10, <2>1, <2>5 DEF RecordDeliveryFailure, Failed
    <3>2. Owns(w, e, row[e].gen) /\ worker'[w].step = "throw"
      BY <2>1, <2>5, <3>1, WorkerWrite DEF RecordDeliveryFailure, At, Owns, OwningSteps, Skip
    <3> QED
      BY <1>3, <3>1, <3>2
  <2> QED
    BY <1>10, <2>2, <2>3, <2>4, <2>5
       DEF ProcessStep, ReadEvent, LookupDelivery, UpsertDelivery, SendAccepted, SendFails,
           RecordDeliveryResult, RecordDeliveryError, CompleteJob, FailJob
<1>11. ASSUME NEW e \in Events, NEW g \in Generations, QueueStep(e, g) PROVE ExpiryMoves(x)
  <2>1. CASE row' # row
    <3>1. /\ row' = [row EXCEPT ![e].status = "DEAD_LETTER"] /\ row[e].gen = g
          /\ <<e, g>> \in reconciling
      BY <1>11, <2>1 DEF QueueStep, StallOrphanedJob, ReconcileExhaustedJob, Failed, Skip
    <3> QED
      BY <1>3, <3>1
  <2> QED
    BY <1>2, <2>1
<1> QED
  BY <1>2, <1>5, <1>6, <1>7, <1>9, <1>10, <1>11
     DEF Next, vars, RelayCrash, TaskFault, AddJobFails, MarkEnqueuedFails,
         ReleaseClaimFails, TakeStep, TakeJob, WorkerCrash, DatabaseError,
         StallRunningJob, RemoveFinishedJob, ReconcileFails


\* How a worker moves along an attempt when no statement fails: it looks the
\* delivery up, upserts it, sends, records and finalizes.
OwnerMoves(v) ==
    LET e == worker[v].event
        from == worker[v].step
        to == worker'[v].step
    IN  to \in OwningSteps => /\ worker'[v].event = e
                              /\ \/ to = from
                                 \/ /\ from = "start" /\ to = "lookup" /\ UNCHANGED delivery
                                    /\ row[e].status \in Startable
                                 \/ from = "lookup" /\ to = "finishRecorded"
                                 \/ from = "lookup" /\ to = "upsert" /\ delivery[e] # "RECORDED"
                                 \/ from = "upsert" /\ to = "send" /\ Exists(e)
                                 \/ from = "send"
                                 \/ from = "record"
                                 \/ from = "finalize" /\ to = "recordError" /\ ~CanFinalize(v)
                                 \/ from = "recordError" /\ to = "recordFailure"

\* Every step moves each owner like that.
LEMMA OwnerStep ==
    ASSUME TypeOK, [Next]_vars, \A w \in Workers : ~DatabaseError(w), NEW v \in Workers
    PROVE  OwnerMoves(v)
<1>1. CASE worker'[v] = worker[v]
  BY <1>1 DEF OwnerMoves
<1>2. ASSUME NEW w \in Workers, NEW s, Goto(w, s), v = w => s \notin OwningSteps
      PROVE  OwnerMoves(v)
  BY <1>1, <1>2, WorkerWrite DEF OwnerMoves
<1>3. ASSUME NEW w \in Workers, worker' = [worker EXCEPT ![w] = IdleWorker]
      PROVE  OwnerMoves(v)
  <2>1. worker'[v] = worker[v] \/ worker'[v].step = "idle"
    BY <1>3 DEF TypeOK, WorkersOK, IdleWorker
  <2> QED
    BY <1>1, <2>1 DEF OwnerMoves, OwningSteps
<1>4. ASSUME NEW w \in Workers, ProcessStep(w) PROVE OwnerMoves(v)
  <2>1. CASE v # w
    <3>1. worker' = [worker EXCEPT ![w] = IdleWorker] \/ \E s : Goto(w, s)
      BY <1>4
         DEF ProcessStep, ReadEvent, ExpireEvent, StartProcessing,
             LookupDelivery, UpsertDelivery, FinishRecorded, SendAccepted,
             SendFails, RecordDeliveryResult, FinalizeDelivery,
             RecordDeliveryError, RecordDeliveryFailure, CompleteJob, FailJob
    <3> QED
      BY <1>2, <1>3, <2>1, <3>1
  <2>2. CASE v = w
    <3>1. CASE ReadEvent(w) \/ ExpireEvent(w)
      BY <1>2, <3>1 DEF ReadEvent, ExpireEvent, OwningSteps
    <3>2. CASE StartProcessing(w)
      BY <2>2, <3>2, WorkerWrite DEF StartProcessing, At, OwnerMoves, OwningSteps
    <3>3. CASE LookupDelivery(w)
      BY <2>2, <3>3, WorkerWrite DEF LookupDelivery, At, OwnerMoves
    <3>4. CASE UpsertDelivery(w)
      BY <2>2, <3>4, WorkerWrite DEF UpsertDelivery, At, OwnerMoves, OwningSteps
    <3>5. CASE FinishRecorded(w) \/ RecordDeliveryFailure(w)
      BY <1>2, <3>5 DEF FinishRecorded, RecordDeliveryFailure, OwningSteps
    <3>6. CASE SendAccepted(w) \/ SendFails(w) \/ RecordDeliveryResult(w)
      BY <2>2, <3>6, WorkerWrite DEF SendAccepted, SendFails, RecordDeliveryResult, At, OwnerMoves
    <3>7. CASE FinalizeDelivery(w)
      BY <2>2, <3>7, WorkerWrite DEF FinalizeDelivery, At, OwnerMoves, OwningSteps
    <3>8. CASE RecordDeliveryError(w)
      BY <2>2, <3>8, WorkerWrite DEF RecordDeliveryError, At, OwnerMoves
    <3>9. CASE CompleteJob(w) \/ FailJob(w)
      BY <1>3, <3>9 DEF CompleteJob, FailJob
    <3> QED
      BY <1>4, <3>1, <3>2, <3>3, <3>4, <3>5, <3>6, <3>7, <3>8, <3>9 DEF ProcessStep
  <2> QED
    BY <2>1, <2>2
<1>5. ASSUME NEW w \in Workers, TakeStep(w) PROVE OwnerMoves(v)
  <2>1. worker'[v] = worker[v] \/ worker'[v].step = "read"
    BY <1>5 DEF TakeStep, TakeJob, TypeOK, WorkersOK
  <2> QED
    BY <1>1, <2>1 DEF OwnerMoves, OwningSteps
<1>6. ASSUME NEW w \in Workers, WorkerCrash(w) PROVE OwnerMoves(v)
  BY <1>3, <1>6 DEF WorkerCrash
<1> QED
  BY ZenonT(40), <1>1, <1>4, <1>5, <1>6
     DEF Next, vars, BusinessStep, AddOutboxEvent, PassExpiry,
         RedriveDeadLetterEvent, EraseAccount, PurgeTerminal,
         ProcessEmailProviderEvent, ClockStep, BecomeAvailable, LapseLease,
         ClaimStep, ClaimOutboxBatch, RelayCrash, TaskStep, AddJob,
         MarkEnqueued, ReleaseClaimAfterEnqueueFailure, TaskFault,
         AddJobFails, MarkEnqueuedFails, ReleaseClaimFails, QueueStep,
         StallOrphanedJob, ReconcileExhaustedJob, StallRunningJob,
         RemoveFinishedJob, ReconcileFails

\* How the delivery row of an event and the history of recorded successes move.
DeliveryMoves(x) ==
    /\ \/ delivery'[x] = delivery[x] \/ delivery'[x] = "RECORDED"
       \/ row'[x].status = "PURGED"
       \/ \E w \in Workers : worker[w].step = "upsert" /\ worker[w].event = x /\ Exists(x)
       \/ \E w \in Workers : worker[w].step = "recordError" /\ worker[w].event = x
    /\ x \in recorded' =>
          \/ x \in recorded
          \/ /\ delivery'[x] = "RECORDED"
             /\ \E w \in Workers : worker'[w].step = "finalize" /\ worker'[w].event = x

\* Every step moves an event's delivery like that.
LEMMA DeliveryStep ==
    ASSUME TypeOK, [Next]_vars, NEW x \in Events
    PROVE  DeliveryMoves(x)
<1>1. CASE UNCHANGED <<delivery, recorded>>
  BY <1>1 DEF DeliveryMoves
<1>2. ASSUME NEW w \in Workers, ProcessStep(w) PROVE DeliveryMoves(x)
  <2>1. CASE UpsertDelivery(w)
    BY <1>1, <2>1 DEF UpsertDelivery, At, DeliveryMoves, TypeOK
  <2>2. CASE RecordDeliveryResult(w)
    BY <1>1, <2>2, WorkerWrite DEF RecordDeliveryResult, At, DeliveryMoves, TypeOK
  <2>3. CASE RecordDeliveryError(w)
    BY <1>1, <2>3 DEF RecordDeliveryError, At, DeliveryMoves, TypeOK
  <2> QED
    BY <1>1, <1>2, <2>1, <2>2, <2>3
       DEF ProcessStep, ReadEvent, ExpireEvent, StartProcessing,
           LookupDelivery, FinishRecorded, SendAccepted,
           SendFails, FinalizeDelivery, RecordDeliveryFailure, CompleteJob, FailJob
<1>3. ASSUME NEW e \in Events, BusinessStep(e) PROVE DeliveryMoves(x)
  <2>1. CASE PurgeTerminal(e)
    BY <1>1, <2>1 DEF PurgeTerminal, DeliveryMoves, TypeOK, OutboxEvent
  <2>2. CASE ProcessEmailProviderEvent(e)
    BY <1>1, <2>2 DEF ProcessEmailProviderEvent, DeliveryMoves, TypeOK
  <2> QED
    BY <1>1, <1>3, <2>1, <2>2 DEF BusinessStep, AddOutboxEvent, PassExpiry,
       RedriveDeadLetterEvent, EraseAccount
<1> QED
  BY ZenonT(40), <1>1, <1>2, <1>3
     DEF Next, vars, ClockStep, BecomeAvailable, LapseLease,
         ClaimStep, ClaimOutboxBatch, RelayCrash, TaskStep, AddJob,
         MarkEnqueued, ReleaseClaimAfterEnqueueFailure, TaskFault,
         AddJobFails, MarkEnqueuedFails, ReleaseClaimFails, QueueStep,
         StallOrphanedJob, ReconcileExhaustedJob, StallRunningJob,
         RemoveFinishedJob, ReconcileFails, TakeStep, TakeJob, WorkerCrash, DatabaseError


\* Settled rows stay settled, and only the redrive moves the generation.
LEMMA SettledStep ==
    ASSUME TypeOK, [Next]_vars, NEW x \in Events
    PROVE  /\ row[x].gen \in Nat /\ (row'[x].gen = row[x].gen \/ Redriven(x))
           /\ row[x].status = "PURGED" => row'[x].status = "PURGED"
           /\ Gone(x) => Gone(x)'
           /\ row[x].status \in Terminal \cup {"PURGED"} /\ row'[x].gen = row[x].gen =>
                 row'[x].status \in Terminal \cup {"PURGED"}
<1>1. row[x].gen \in Nat
  BY BoundsAssumption DEF TypeOK, OutboxEvent, Generations
<1>2. RowMoves(x) /\ ExpiryMoves(x)
  BY RowStep, ExpiryStep
<1>3. row'[x].gen = row[x].gen \/ Redriven(x)
  BY <1>2 DEF RowMoves, Unmoved, Buried, Purged, Inserted, Relayed, Started, Finished, Requeued
<1>4. row[x].status = "PURGED" => row'[x].status = "PURGED"
  BY <1>2 DEF RowMoves, Unmoved, Redriven, Buried, Purged, Inserted, Relayed, Started, Finished,
     Requeued, OutboxStatus, Terminal
<1>5. row[x].status = "DELIVERED" => row'[x].status \in {"DELIVERED", "PURGED"}
  BY <1>2 DEF RowMoves, Unmoved, Redriven, Buried, Purged, Inserted, Relayed, Started, Finished,
     Requeued, OutboxStatus, Terminal
<1>6. row[x].status = "DEAD_LETTER" => row'[x].status \in {"DEAD_LETTER", "PURGED"} \/ Redriven(x)
  BY <1>2 DEF RowMoves, Unmoved, Buried, Purged, Inserted, Relayed, Started, Finished,
     Requeued, OutboxStatus, Terminal
<1>7. Gone(x) => Gone(x)'
  BY <1>2, <1>4, <1>5, <1>6 DEF Gone, ExpiryMoves
<1>8. Redriven(x) => row'[x].gen # row[x].gen
  BY <1>1 DEF Redriven
<1> QED
  BY <1>1, <1>3, <1>4, <1>5, <1>6, <1>7, <1>8 DEF Terminal

\* Without stalls nobody buries a row under its owner except account erasure.
LEMMA CurrentStep ==
    ASSUME TypeOK, OwnershipInv, QueueInv, Holding, CurrentInv, Steady, [Next]_vars
    PROVE  CurrentInv'
<1> SUFFICES ASSUME NEW w \in Workers, NEW e \in Events,
                    worker'[w].step \in OwningSteps, worker'[w].event = e
             PROVE  /\ worker'[w].gen = row'[e].gen
                    /\ row'[e].status = "DEAD_LETTER" => row'[e].expired
  BY DEF CurrentInv, Working
<1>1. /\ worker[w].event = e /\ worker'[w].gen = worker[w].gen /\ worker[w].step # "idle"
      /\ WorkerMoves(w)
  BY WorkerStep DEF WorkerMoves, At
<1>2. RowMoves(e) /\ ExpiryMoves(e) /\ (row'[e].gen = row[e].gen \/ Redriven(e))
  BY RowStep, ExpiryStep, SettledStep
<1>3. CASE worker[w].step \notin OwningSteps
  <2>1. /\ worker[w].gen = row[e].gen /\ row[e].status \in {"ENQUEUED", "FAILED"}
        /\ row'[e].status = "PROCESSING"
    BY <1>1, <1>3 DEF WorkerMoves
  <2> QED
    BY <1>1, <1>2, <2>1 DEF Redriven
<1>4. CASE worker[w].step \in OwningSteps
  <2>1. worker[w].gen = row[e].gen /\ (row[e].status = "DEAD_LETTER" => row[e].expired)
    BY <1>1, <1>4 DEF CurrentInv, Working
  <2>2. row'[e].gen = row[e].gen
    BY <1>2, <2>1 DEF ExpiryMoves, Redriven
  <2>3. ASSUME Buried(e), ~row'[e].expired PROVE FALSE
    <3>1. PICK g \in Generations : g = row[e].gen
      BY DEF TypeOK, OutboxEvent
    <3>2. PICK id \in JobIds : id = <<e, g>>
      BY DEF JobIds
    <3>3. job[id].holder = w /\ job[id].state = "ACTIVE"
      BY <1>1, <2>1, <3>1, <3>2, NullsAssumption DEF Holding, At, QueueInv
    <3>4. Owns(w, e, g)
      BY <1>1, <1>4, <2>1, <3>1 DEF Owns
    <3>5. ASSUME NEW v \in Workers, worker[v].step = "expire", worker[v].event = e,
                 worker[v].gen = g
          PROVE  FALSE
      <4>1. job[id].holder = v
        BY <3>2, <3>5 DEF Holding, At
      <4> QED
        BY <1>4, <3>3, <3>5, <4>1 DEF OwningSteps
    <3>6. ASSUME NEW v \in Workers, Owns(v, e, g), worker'[v].step = "throw" PROVE FALSE
      <4>1. v = w
        BY <3>4, <3>6 DEF OwnershipInv, SingleOwner
      <4> QED
        BY <3>6, <4>1 DEF OwningSteps
    <3>7. id \notin reconciling
      BY <3>3 DEF QueueInv
    <3> QED
      BY <1>2, <2>3, <3>1, <3>2, <3>5, <3>6, <3>7 DEF ExpiryMoves
  <2>4. row'[e].status = "DEAD_LETTER" => row[e].status = "DEAD_LETTER" \/ Buried(e)
    BY <1>2 DEF RowMoves, Unmoved, Redriven, Purged, Inserted, Relayed, Started, Finished, Requeued
  <2> QED
    BY <1>1, <1>2, <2>1, <2>2, <2>3, <2>4 DEF ExpiryMoves
<1> QED
  BY <1>3, <1>4

\* The first generation of an event has one owner, which has recorded the
\* success and only finishes.
LEMMA FirstStep ==
    ASSUME TypeOK, TypeOK', OwnershipInv, OwnershipInv', FirstInv, Calm,
           [Next]_vars, \A w \in Workers : ~DatabaseError(w)
    PROVE  FirstInv'
<1> SUFFICES ASSUME NEW e \in Events, e \in recorded', row'[e].gen = 0
             PROVE  /\ row'[e].status \in {"PROCESSING", "DELIVERED", "DEAD_LETTER", "PURGED"}
                    /\ \A w \in Workers : worker'[w].step \in OwningSteps /\ worker'[w].event = e =>
                          /\ worker'[w].step \in {"finalize", "recordError", "recordFailure"}
                          /\ worker'[w].step # "finalize" => row'[e].status # "PROCESSING"
  BY DEF FirstInv, Working, TypeOK
<1>1. RowMoves(e) /\ row[e].gen \in Nat /\ (row'[e].gen = row[e].gen \/ Redriven(e))
  BY RowStep, SettledStep
<1>2. row[e].gen = 0 /\ ~Redriven(e) /\ 0 \in Generations
  BY <1>1, BoundsAssumption DEF Redriven, Generations
<1>3. ASSUME e \notin recorded
      PROVE  /\ row'[e].status \in {"PROCESSING", "DEAD_LETTER", "PURGED"}
             /\ \A w \in Workers : worker'[w].step \in OwningSteps /\ worker'[w].event = e =>
                   worker'[w].step = "finalize"
  <2>1. ASSUME NEW v \in Workers, worker'[v].step \in OwningSteps, worker'[v].event = e
        PROVE  worker'[v].gen = 0
    <3>1. worker'[v].gen \in Nat
      BY BoundsAssumption DEF TypeOK, WorkersOK, WorkerState, Generations
    <3>2. worker'[v].gen <= row'[worker'[v].event].gen
      BY <2>1 DEF OwnershipInv, NeverAhead, At, OwningSteps
    <3> QED
      BY <2>1, <3>1, <3>2
  <2>2. PICK w \in Workers : worker'[w].step = "finalize" /\ worker'[w].event = e
    BY <1>3, DeliveryStep DEF DeliveryMoves
  <2>3. worker'[w].step \in OwningSteps
    BY <2>2 DEF OwningSteps
  <2>4. Owns(w, e, 0)'
    BY <2>1, <2>2, <2>3 DEF Owns
  <2>5. ASSUME NEW v \in Workers, worker'[v].step \in OwningSteps, worker'[v].event = e
        PROVE  v = w
    BY <1>2, <2>1, <2>4, <2>5 DEF OwnershipInv, SingleOwner, Owns
  <2>6. row'[e].status \in {"PROCESSING", "DEAD_LETTER", "PURGED"}
    BY <2>4 DEF OwnershipInv, OwnedRowIsHeld, Owns
  <2> QED
    BY <2>2, <2>5, <2>6
<1>4. ASSUME e \in recorded
      PROVE  /\ row'[e].status \in {"PROCESSING", "DELIVERED", "DEAD_LETTER", "PURGED"}
             /\ \A w \in Workers : worker'[w].step \in OwningSteps /\ worker'[w].event = e =>
                   /\ worker'[w].step \in {"finalize", "recordError", "recordFailure"}
                   /\ worker'[w].step # "finalize" => row'[e].status # "PROCESSING"
  <2>1. /\ row[e].status \in {"PROCESSING", "DELIVERED", "DEAD_LETTER", "PURGED"}
        /\ \A w \in Workers : Working(w, e) =>
              /\ worker[w].step \in {"finalize", "recordError", "recordFailure"}
              /\ worker[w].step # "finalize" => row[e].status # "PROCESSING"
    BY <1>2, <1>4 DEF FirstInv
  <2>2. ~Requeued(e)
    <3>1. ASSUME NEW w \in Workers, Owns(w, e, row[e].gen), worker[w].step = "recordFailure"
          PROVE  row[e].status # "PROCESSING"
      BY <2>1, <3>1 DEF Owns, Working
    <3> QED
      BY <2>1, <3>1 DEF Requeued, OutboxStatus, Terminal
  <2>3. row'[e].status \in {"PROCESSING", "DELIVERED", "DEAD_LETTER", "PURGED"}
    BY <1>1, <1>2, <2>1, <2>2 DEF RowMoves, Unmoved, Buried, Purged, Inserted, Relayed, Started,
       Finished
  <2>4. row[e].status # "PROCESSING" => row'[e].status # "PROCESSING"
    BY <1>1, <1>2, <2>1, SettledStep DEF Terminal
  <2>5. ASSUME NEW w \in Workers, worker'[w].step \in OwningSteps, worker'[w].event = e
        PROVE  /\ worker'[w].step \in {"finalize", "recordError", "recordFailure"}
               /\ worker'[w].step # "finalize" => row'[e].status # "PROCESSING"
    <3>1. worker[w].event = e /\ OwnerMoves(w)
      BY <2>5, OwnerStep DEF OwnerMoves
    <3>2. worker[w].step \in OwningSteps
      BY <2>1, <2>5, <3>1 DEF OwnerMoves, Startable, OwningSteps
    <3>3. /\ worker[w].step \in {"finalize", "recordError", "recordFailure"}
          /\ worker[w].step # "finalize" => row[e].status # "PROCESSING"
      BY <2>1, <3>1, <3>2 DEF Working
    <3>4. worker[w].gen = row[e].gen
      <4>1. worker[w].gen \in Nat
        BY BoundsAssumption DEF TypeOK, WorkersOK, WorkerState, Generations
      <4>2. worker[w].gen <= row[e].gen
        BY <3>1, <3>3 DEF OwnershipInv, NeverAhead, At
      <4> QED
        BY <1>2, <4>1, <4>2
    <3>5. ~CanFinalize(w) => row[e].status # "PROCESSING"
      BY <3>1, <3>4 DEF CanFinalize
    <3> QED
      BY <2>4, <2>5, <3>1, <3>3, <3>5 DEF OwnerMoves
  <2> QED
    BY <2>3, <2>5
<1> QED
  BY <1>3, <1>4


\* Without stalls the recorded success is there for whoever starts the event.
LEMMA SteadyStep ==
    ASSUME TypeOK, TypeOK', OwnershipInv, OwnershipInv', CurrentInv, CurrentInv', SteadyInv,
           Calm, Steady, Steady', [Next]_vars, \A w \in Workers : ~DatabaseError(w)
    PROVE  SteadyInv'
<1> SUFFICES ASSUME NEW e \in Events, e \in recorded'
             PROVE  /\ Gone(e)' \/ delivery'[e] = "RECORDED"
                    /\ \A w \in Workers : worker'[w].step \in OwningSteps /\ worker'[w].event = e =>
                          /\ worker'[w].step \notin {"send", "record"}
                          /\ worker'[w].step = "upsert" => row'[e].status = "PURGED"
                          /\ worker'[w].step = "lookup" =>
                                row'[e].status = "PURGED" \/ delivery'[e] = "RECORDED"
                          /\ worker'[w].step \in {"recordError", "recordFailure"} => Gone(e)'
  BY DEF SteadyInv, Working, TypeOK
<1>1. /\ DeliveryMoves(e) /\ (Gone(e) => Gone(e)')
      /\ row[e].status = "PURGED" => row'[e].status = "PURGED"
  BY DeliveryStep, SettledStep
<1>2. ASSUME e \notin recorded
      PROVE  /\ delivery'[e] = "RECORDED"
             /\ \A w \in Workers : worker'[w].step \in OwningSteps /\ worker'[w].event = e =>
                   worker'[w].step = "finalize"
  <2>1. PICK w \in Workers : worker'[w].step = "finalize" /\ worker'[w].event = e
    BY <1>1, <1>2 DEF DeliveryMoves
  <2>2. worker'[w].step \in OwningSteps /\ row'[e].gen \in Generations
    BY <2>1 DEF OwningSteps, TypeOK, OutboxEvent
  <2>3. ASSUME NEW v \in Workers, worker'[v].step \in OwningSteps, worker'[v].event = e
        PROVE  v = w
    <3>1. worker'[v].gen = row'[e].gen /\ worker'[w].gen = row'[e].gen
      BY <2>1, <2>2, <2>3 DEF CurrentInv, Working
    <3> QED
      BY <2>1, <2>2, <2>3, <3>1 DEF OwnershipInv, SingleOwner, Owns
  <2> QED
    BY <1>1, <1>2, <2>1, <2>3 DEF DeliveryMoves
<1>3. ASSUME e \in recorded
      PROVE  /\ Gone(e)' \/ delivery'[e] = "RECORDED"
             /\ \A w \in Workers : worker'[w].step \in OwningSteps /\ worker'[w].event = e =>
                   /\ worker'[w].step \notin {"send", "record"}
                   /\ worker'[w].step = "upsert" => row'[e].status = "PURGED"
                   /\ worker'[w].step = "lookup" =>
                         row'[e].status = "PURGED" \/ delivery'[e] = "RECORDED"
                   /\ worker'[w].step \in {"recordError", "recordFailure"} => Gone(e)'
  <2>1. /\ Gone(e) \/ delivery[e] = "RECORDED"
        /\ \A w \in Workers : Working(w, e) =>
              /\ worker[w].step \notin {"send", "record"}
              /\ worker[w].step = "upsert" => row[e].status = "PURGED"
              /\ worker[w].step = "lookup" =>
                    row[e].status = "PURGED" \/ delivery[e] = "RECORDED"
              /\ worker[w].step \in {"recordError", "recordFailure"} => Gone(e)
    BY <1>3 DEF SteadyInv
  <2>2. \/ delivery'[e] = delivery[e] \/ delivery'[e] = "RECORDED" \/ row'[e].status = "PURGED"
        \/ \E v \in Workers : Working(v, e) /\ worker[v].step = "recordError"
    <3>1. ASSUME NEW v \in Workers, worker[v].step = "upsert", worker[v].event = e, Exists(e)
          PROVE  FALSE
      BY <2>1, <3>1 DEF Working, OwningSteps, Exists
    <3> QED
      BY <1>1, <3>1 DEF DeliveryMoves, Working, OwningSteps
  <2>3. Gone(e)' \/ delivery'[e] = "RECORDED"
    BY <1>1, <2>1, <2>2 DEF Gone
  <2>4. ASSUME NEW w \in Workers, NEW v \in Workers, Working(w, e), Working(v, e)
        PROVE  v = w
    <3>1. worker[v].gen = row[e].gen /\ worker[w].gen = row[e].gen /\ row[e].gen \in Generations
      BY <2>4 DEF CurrentInv, TypeOK, OutboxEvent
    <3> QED
      BY <2>4, <3>1 DEF OwnershipInv, SingleOwner, Owns, Working
  <2>5. ASSUME NEW w \in Workers, worker'[w].step \in OwningSteps, worker'[w].event = e
        PROVE  /\ worker'[w].step \notin {"send", "record"}
               /\ worker'[w].step = "upsert" => row'[e].status = "PURGED"
               /\ worker'[w].step = "lookup" =>
                     row'[e].status = "PURGED" \/ delivery'[e] = "RECORDED"
               /\ worker'[w].step \in {"recordError", "recordFailure"} => Gone(e)'
    <3>1. worker[w].event = e /\ OwnerMoves(w)
      BY <2>5, OwnerStep DEF OwnerMoves
    <3>2. CASE worker[w].step \notin OwningSteps
      <4>1. /\ worker'[w].step = "lookup" /\ delivery'[e] = delivery[e]
            /\ row[e].status \in Startable
        BY <2>5, <3>1, <3>2 DEF OwnerMoves, OwningSteps
      <4>2. ~Gone(e)
        BY <4>1 DEF Gone, Startable
      <4> QED
        BY <2>1, <4>1, <4>2
    <3>3. CASE worker[w].step \in OwningSteps
      <4>1. Working(w, e)
        BY <3>1, <3>3 DEF Working
      <4>2. CASE worker'[w].step = worker[w].step
        <5>1. worker[w].step = "lookup" =>
                 \A v \in Workers : ~(Working(v, e) /\ worker[v].step = "recordError")
          BY <2>4, <4>1
        <5> QED
          BY <1>1, <2>1, <2>2, <4>1, <4>2, <5>1
      <4>3. CASE worker[w].step = "finalize" /\ worker'[w].step = "recordError" /\ ~CanFinalize(w)
        <5>1. worker[w].gen = row[e].gen /\ (row[e].status = "DEAD_LETTER" => row[e].expired)
          BY <4>1 DEF CurrentInv
        <5>2. Owns(w, e, row[e].gen)
          BY <4>1, <5>1 DEF Owns, Working
        <5>3. row[e].status \in {"DEAD_LETTER", "PURGED"}
          BY <3>1, <4>3, <5>1, <5>2 DEF OwnershipInv, OwnedRowIsHeld, CanFinalize
        <5> QED
          BY <1>1, <4>3, <5>1, <5>3 DEF Gone
      <4>4. CASE worker[w].step = "lookup" /\ worker'[w].step = "upsert" /\ delivery[e] # "RECORDED"
        BY <1>1, <2>1, <4>1, <4>4
      <4>5. CASE worker[w].step = "upsert" /\ worker'[w].step = "send" /\ Exists(e)
        BY <2>1, <4>1, <4>5 DEF Exists
      <4>6. CASE worker[w].step = "lookup" /\ worker'[w].step = "finishRecorded"
        BY <4>6
      <4>7. CASE worker[w].step = "recordError" /\ worker'[w].step = "recordFailure"
        BY <1>1, <2>1, <4>1, <4>7
      <4> QED
        BY <2>1, <2>5, <3>1, <3>3, <4>1, <4>2, <4>3, <4>4, <4>5, <4>6, <4>7
           DEF OwnerMoves, OwningSteps
    <3> QED
      BY <3>2, <3>3
  <2> QED
    BY <2>3, <2>5
<1> QED
  BY <1>2, <1>3

\* The inductive invariant of the recorded successes.
RecordInv == /\ FaultsBounded /\ QueueInv /\ HolderInv /\ CurrentInv
             /\ FirstInv /\ SteadyInv

\* Every step keeps it.
LEMMA RecordStep ==
    ASSUME TypeOK, TypeOK', OwnershipInv, OwnershipInv', RecordInv, [Next]_vars
    PROVE  RecordInv'
<1>1. /\ FaultsBounded'
      /\ Calm' => Calm /\ ~\E w \in Workers : DatabaseError(w)
      /\ Steady' => /\ Steady
                    /\ ~\E e \in Events, g \in Generations : StallRunningJob(e, g)
  BY FaultStep DEF RecordInv
<1>2. QueueInv' /\ (Holding /\ Steady' => Holding')
  BY <1>1, HolderStep DEF RecordInv
<1>3. HolderInv'
  BY <1>1, <1>2 DEF RecordInv, HolderInv
<1>4. CurrentInv'
  <2>1. CASE Steady'
    BY <1>1, <2>1, CurrentStep DEF RecordInv, HolderInv
  <2>2. CASE ~Steady'
    BY <2>2 DEF CurrentInv
  <2> QED
    BY <2>1, <2>2
<1>5. FirstInv'
  <2>1. CASE Calm'
    BY <1>1, <2>1, FirstStep DEF RecordInv
  <2>2. CASE ~Calm'
    BY <2>2 DEF FirstInv
  <2> QED
    BY <2>1, <2>2
<1>6. SteadyInv'
  <2>1. CASE Calm' /\ Steady'
    BY <1>1, <1>4, <2>1, SteadyStep DEF RecordInv
  <2>2. CASE ~(Calm' /\ Steady')
    BY <2>2 DEF SteadyInv
  <2> QED
    BY <2>1, <2>2
<1> QED
  BY <1>1, <1>2, <1>3, <1>4, <1>5, <1>6 DEF RecordInv

\* The delivery row keeps a retry from sending an event again once its success
\* was recorded, for any number of workers, crashes, retries and redrives, while
\* no statement of a worker has failed and, after a redrive, no running worker
\* has lost its job.
THEOREM NoResendAlways == Spec => []NoResendAfterRecord
<1>1. Init => RecordInv
  <2> SUFFICES ASSUME Init PROVE RecordInv
    OBVIOUS
  <2>1. FaultsBounded
    BY BoundsAssumption DEF Init, FaultsBounded
  <2>2. QueueInv
    BY DEF Init, QueueInv, NoJob
  <2>3. \A w \in Workers : worker[w].step = "idle"
    BY DEF Init, IdleWorker
  <2>4. HolderInv /\ CurrentInv
    BY <2>3 DEF HolderInv, Holding, CurrentInv, Working, OwningSteps, At
  <2>5. FirstInv /\ SteadyInv
    BY DEF Init, FirstInv, SteadyInv
  <2> QED
    BY <2>1, <2>2, <2>4, <2>5 DEF RecordInv
<1>2. TypeOK /\ TypeOK' /\ OwnershipInv /\ OwnershipInv' /\ RecordInv /\ [Next]_vars => RecordInv'
  BY RecordStep
<1>3. TypeOK /\ OwnershipInv /\ RecordInv => NoResendAfterRecord
  <2> SUFFICES ASSUME TypeOK, OwnershipInv, RecordInv, NEW w \in Workers, worker[w].step = "send",
                      Calm, row[worker[w].event].gen = 0 \/ Steady,
                      worker[w].event \in recorded
               PROVE  FALSE
    BY DEF NoResendAfterRecord, At, Calm, Steady
  <2>1. PICK e \in Events : e = worker[w].event
    BY RunningWorker DEF At
  <2>2. Working(w, e)
    BY <2>1 DEF Working, OwningSteps
  <2>3. CASE row[e].gen = 0
    BY <2>1, <2>2, <2>3 DEF RecordInv, FirstInv
  <2>4. CASE Steady
    BY <2>1, <2>2, <2>4 DEF RecordInv, SteadyInv
  <2> QED
    BY <2>1, <2>3, <2>4
<1> QED
  BY <1>1, <1>2, <1>3, TypeCorrect, SingleOwnerAlways, PTL DEF Spec

=============================================================================
