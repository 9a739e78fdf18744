------------------------------ MODULE Scheduler ------------------------------
(***************************************************************************)
(* runScheduledJob: one job of the registry, run by the scheduler workers   *)
(* of several processes under a lock in Redis.  The timeout only rejects the *)
(* promise and aborts a signal: the handler runs on until it looks at it.    *)
(* What lastRun reports is left out, it is read by the operator alone.       *)
(***************************************************************************)
EXTENDS Integers

CONSTANTS
    Slots,        \* scheduler workers, each runs one job at a time
    NoSlot,
    MaxTicks      \* bound on the runs that start

ASSUME SchedulerAssumption == NoSlot \notin Slots /\ MaxTicks \in Nat

VARIABLES
    lock,         \* the slot whose token is in the lock key
    run,
    ticks
scheduler == <<lock, run, ticks>>

\* handler: the handler is executing; aborted: its signal.
Run == [state: {"idle", "running", "releasing"},
        handler: BOOLEAN, aborted: BOOLEAN]
NotRunning == [state |-> "idle", handler |-> FALSE, aborted |-> FALSE]

SchedulerTypeOK ==
    /\ lock \in Slots \cup {NoSlot}
    /\ run \in [Slots -> Run]
    /\ ticks \in 0..MaxTicks

SchedulerInit ==
    /\ lock = NoSlot
    /\ run = [w \in Slots |-> NotRunning]
    /\ ticks = 0

\* Slots are alike: the first free one takes the job.
FreeSlot(w) == run[w].state = "idle" /\ ~run[w].handler

\* A cron tick or a manual trigger: SET key token PX timeoutMs + 60 s NX.  (A
\* job that finds the lock taken throws and changes nothing.)  A handler that
\* outlived its run keeps its slot; the next run is on another one.
AcquireLock(w) ==
    /\ FreeSlot(w) /\ w = CHOOSE v \in Slots : FreeSlot(v)
    /\ ticks < MaxTicks
    /\ lock = NoSlot
    /\ lock' = w
    /\ run' = [run EXCEPT ![w] = [state |-> "running", handler |-> TRUE,
                                  aborted |-> FALSE]]
    /\ ticks' = ticks + 1

\* The timer rejects the race and aborts the signal.
Timeout(w) ==
    /\ run[w].state = "running"
    /\ run' = [run EXCEPT ![w].state = "releasing", ![w].aborted = TRUE]
    /\ UNCHANGED <<lock, ticks>>

\* The handler returns or throws; the race may be over.
HandlerEnds(w) ==
    /\ run[w].handler
    /\ run' = [run EXCEPT ![w].handler = FALSE, ![w].aborted = FALSE,
                          ![w].state = IF @ = "running" THEN "releasing" ELSE @]
    /\ UNCHANGED <<lock, ticks>>

\* Mutant: DEL without comparing the token.
ReleaseAnyLock(w) ==
    /\ run[w].state = "releasing"
    /\ lock' = NoSlot
    /\ run' = [run EXCEPT ![w].state = "idle"]
    /\ UNCHANGED ticks

\* The finally block deletes the key if it still holds the token.
ReleaseLock(w) ==
    /\ run[w].state = "releasing"
    /\ lock' = IF lock = w THEN NoSlot ELSE lock
    /\ run' = [run EXCEPT ![w].state = "idle"]
    /\ UNCHANGED ticks

\* Redis fails, which is ignored.
ReleaseFails(w) ==
    /\ run[w].state = "releasing"
    /\ run' = [run EXCEPT ![w].state = "idle"]
    /\ UNCHANGED <<lock, ticks>>

\* The key lives a minute longer than the timer of the run that set it.
LockExpires ==
    /\ lock # NoSlot
    /\ run[lock].state # "running"
    /\ lock' = NoSlot
    /\ UNCHANGED <<run, ticks>>

\* The process dies; the key stays until it expires.
SlotCrash(w) ==
    /\ run[w].state # "idle" \/ run[w].handler
    /\ run' = [run EXCEPT ![w] = NotRunning]
    /\ UNCHANGED <<lock, ticks>>

\* "is already running": a run within its time holds the lock, so no second one
\* starts beside it, whatever run releases late, lost its lock to expiry or
\* died holding it.
RunHoldsLock == \A w \in Slots : run[w].state = "running" => lock = w

=============================================================================
