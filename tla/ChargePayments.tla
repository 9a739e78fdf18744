--------------------------- MODULE ChargePayments ---------------------------
(***************************************************************************)
(* Paying for one chargeable item: createCharge requests under several      *)
(* business keys, the reservation of the item, Stripe's PaymentIntents, the *)
(* stored webhook events and their projection on the item and on the        *)
(* stripe_payments row.                                                     *)
(*                                                                          *)
(* Every request forwards its business key to Stripe as the idempotency     *)
(* key, so a key has at most one PaymentIntent, which is named by the key    *)
(* here.  Events of other items never touch this one.                        *)
(***************************************************************************)
EXTENDS Naturals

CONSTANTS
    Calls,        \* createCharge requests in flight
    Keys, NoKey,  \* business idempotency keys (their reservationKeyHash)
    Handlers,     \* INTERNAL worker slots that process stored events
    MaxFailures   \* bound: how often the processing of an event fails

ASSUME NoKeyAssumption == NoKey \notin Keys
ASSUME FailuresAssumption == MaxFailures \in Nat

VARIABLES
    item,      \* the chargeable_items row
    call,      \* per request: where createCharge is
    intent,    \* Stripe: the PaymentIntent of a key
    answer,    \* Stripe: the response it replays for a key
    event,     \* stripe_webhook_events, by PaymentIntent and kind
    handler,   \* per slot: where processStoredStripeEvent is
    payment,   \* stripe_payments.status, by PaymentIntent
    failures

stripe == <<intent, answer>>
vars == <<item, call, stripe, event, handler, payment, failures>>

Item == [status: {"OPEN", "RESERVED", "CONSUMED"},
         key: Keys \cup {NoKey},         \* reservationKeyHash
         intent: Keys \cup {NoKey}]      \* paymentIntentId
OpenItem == [status |-> "OPEN", key |-> NoKey, intent |-> NoKey]

\* "open" stands for every status that is neither succeeded nor canceled.
IntentStatus == {"none", "open", "succeeded", "canceled", "refunded"}

Kinds == {"created", "succeeded", "canceled", "refunded"}
EventIds == Keys \X Kinds

\* "STORED" stands for RECEIVED, PROCESSING and FAILED.
EventStatus == {"none", "STORED", "PROCESSED"}

CallState == [step: {"idle", "read", "reserve", "create", "persist"},
              key: Keys \cup {NoKey},
              attempt: {0, 1},
              succeeded: BOOLEAN]
NoCall == [step |-> "idle", key |-> NoKey, attempt |-> 0, succeeded |-> FALSE]

HandlerState == [step: {"idle", "retrieve", "project"},
                 key: Keys \cup {NoKey},
                 kind: Kinds,
                 seen: IntentStatus]
IdleHandler == [step |-> "idle", key |-> NoKey, kind |-> "created",
                seen |-> "none"]

Init ==
    /\ item = OpenItem
    /\ call = [c \in Calls |-> NoCall]
    /\ intent = [k \in Keys |-> "none"]
    /\ answer = [k \in Keys |-> "none"]
    /\ event = [e \in EventIds |-> "none"]
    /\ handler = [h \in Handlers |-> IdleHandler]
    /\ payment = [k \in Keys |-> "none"]
    /\ failures = 0

At(c, step) == call[c].step = step
Goto(c, step) == call' = [call EXCEPT ![c].step = step]
Return(c) == call' = [call EXCEPT ![c] = NoCall]

-----------------------------------------------------------------------------
(* createCharge.                                                            *)

\* A request for the reference arrives.
Charge(c, k) ==
    /\ At(c, "idle")
    /\ call' = [call EXCEPT ![c] = [NoCall EXCEPT !.step = "read", !.key = k]]
    /\ UNCHANGED <<item, stripe, event, handler, payment, failures>>

\* The same logical request resumes its own reservation.
Resumes(c) == item.status = "RESERVED" /\ item.key = call[c].key

\* reserve reads the item: it is resumed, or to be reserved, or refused (it has
\* expired, belongs to another user, is reserved or consumed).
ReadItem(c) ==
    /\ At(c, "read")
    /\ \/ Resumes(c) /\ Goto(c, "create")
       \/ item.status = "OPEN" /\ Goto(c, "reserve")
       \/ Return(c)
    /\ UNCHANGED <<item, stripe, event, handler, payment, failures>>

\* Mutant: the update does not repeat the condition on the status.
ReservableAlways == TRUE

Reservable == item.status = "OPEN"

\* The compare-and-set from OPEN to RESERVED; losing it once, the request
\* reads again, losing it twice, it gives up.
ReserveItem(c) ==
    /\ At(c, "reserve")
    /\ IF Reservable
       THEN /\ item' = [item EXCEPT !.status = "RESERVED",
                                    !.key = call[c].key]
            /\ Goto(c, "create")
       ELSE /\ UNCHANGED item
            /\ \/ /\ call[c].attempt = 0
                  /\ call' = [call EXCEPT ![c] = [@ EXCEPT !.step = "read",
                                                           !.attempt = 1]]
               \/ call[c].attempt = 1 /\ Return(c)
    /\ UNCHANGED <<stripe, event, handler, payment, failures>>

\* Stripe creates the intent of a new key: it waits for the customer (an
\* off-session charge may also be declined or need authentication, which the
\* error reports with the intent), or an off-session charge succeeds at once.
NewIntent(k, status) ==
    /\ intent[k] = "none"
    /\ intent' = [intent EXCEPT ![k] = status]
    /\ answer' = [answer EXCEPT ![k] = status]

\* paymentIntents.create: a known key is answered as the first time, whatever
\* has become of the intent.
CreateIntent(c) ==
    LET k == call[c].key
    IN  /\ At(c, "create")
        /\ \/ intent[k] # "none" /\ UNCHANGED stripe
           \/ \E status \in {"open", "succeeded"} : NewIntent(k, status)
        /\ call' = [call EXCEPT ![c] =
                      [@ EXCEPT !.step = "persist",
                                !.succeeded = answer'[k] = "succeeded"]]
        /\ UNCHANGED <<item, event, handler, payment, failures>>

\* The amount is out of bounds, the process dies, or the answer is lost with
\* or without an intent: the item stays reserved for the key.
CreateIntentFails(c) ==
    /\ At(c, "create")
    /\ \/ UNCHANGED stripe
       \/ \E status \in {"open", "succeeded"} : NewIntent(call[c].key, status)
    /\ Return(c)
    /\ UNCHANGED <<item, event, handler, payment, failures>>

\* The condition of recordPaymentIntent and of the projection: the row has no
\* payment yet, or this one.
Unclaimed(k) == item.key = k /\ item.intent \in {NoKey, k}

\* recordPaymentIntent; a reservation that was lost meanwhile is a conflict.
PersistIntent(c) ==
    LET k == call[c].key
    IN  /\ At(c, "persist")
        /\ item' = IF item.status = "RESERVED" /\ Unclaimed(k)
                   THEN [item EXCEPT !.intent = k,
                                     !.status = IF call[c].succeeded
                                                THEN "CONSUMED"
                                                ELSE "RESERVED"]
                   ELSE item
        /\ Return(c)
        /\ UNCHANGED <<stripe, event, handler, payment, failures>>

\* The process dies, or the statement fails.
PersistFails(c) ==
    /\ At(c, "persist")
    /\ Return(c)
    /\ UNCHANGED <<item, stripe, event, handler, payment, failures>>

-----------------------------------------------------------------------------
(* Stripe.                                                                  *)

Settle(k, from, to) ==
    /\ intent[k] = from
    /\ intent' = [intent EXCEPT ![k] = to]
    /\ UNCHANGED <<item, call, answer, event, handler, payment, failures>>

\* The customer pays, the payment is canceled, or it is refunded.
PayIntent(k) == Settle(k, "open", "succeeded")
CancelIntent(k) == Settle(k, "open", "canceled")
RefundIntent(k) == Settle(k, "succeeded", "refunded")

-----------------------------------------------------------------------------
(* Webhooks.                                                                *)

Paid(k) == intent[k] \in {"succeeded", "refunded"}

\* Stripe has an event of the kind to send.
Occurred(k, kind) ==
    CASE kind = "created"   -> intent[k] # "none"
      [] kind = "succeeded" -> Paid(k)
      [] kind = "canceled"  -> intent[k] = "canceled"
      [] kind = "refunded"  -> intent[k] = "refunded"

\* verifyAndStoreStripeEvent stores an event once, with its outbox row; a
\* duplicate changes nothing.
StoreStripeEvent(k, kind) ==
    /\ Occurred(k, kind)
    /\ event[<<k, kind>>] = "none"
    /\ event' = [event EXCEPT ![<<k, kind>>] = "STORED"]
    /\ UNCHANGED <<item, call, stripe, handler, payment, failures>>

Idle(h) == handler[h].step = "idle"

\* processInternal; the outbox gives an event to one worker at a time, and
\* again after a failure.
TakeStripeEvent(h, k, kind) ==
    /\ Idle(h)
    /\ event[<<k, kind>>] = "STORED"
    /\ \A g \in Handlers : ~Idle(g) => <<handler[g].key, handler[g].kind>> # <<k, kind>>
    /\ handler' = [handler EXCEPT ![h] =
                     [step |-> "retrieve", key |-> k, kind |-> kind,
                      seen |-> "none"]]
    /\ UNCHANGED <<item, call, stripe, event, payment, failures>>

\* retrieveCurrentStripeObject, before the transaction and its advisory lock.
RetrieveCurrentStripeObject(h) ==
    /\ handler[h].step = "retrieve"
    /\ handler' = [handler EXCEPT ![h] =
                     [@ EXCEPT !.step = "project",
                               !.seen = intent[handler[h].key]]]
    /\ UNCHANGED <<item, call, stripe, event, payment, failures>>

\* Mutant: the reservation is found by the item's id alone.
ProjectUnowned(k, seen) ==
    CASE seen \in {"succeeded", "refunded"} ->
            IF item.status # "OPEN" /\ Unclaimed(k)
            THEN [item EXCEPT !.intent = k, !.status = "CONSUMED"] ELSE item
      [] seen = "canceled" ->
            IF item.status = "RESERVED" /\ item.intent \in {NoKey, k}
            THEN OpenItem ELSE item
      [] OTHER -> item

\* Mutant: a success is left to the API request to record.
ProjectWithoutSuccess(k, seen) ==
    IF seen = "canceled" /\ item.status = "RESERVED" /\ Unclaimed(k)
    THEN OpenItem ELSE item

\* The item after a look at a PaymentIntent (whose status stays succeeded when
\* its charge is refunded).
ProjectChargeableItem(k, seen) ==
    CASE seen \in {"succeeded", "refunded"} ->
            IF item.status # "OPEN" /\ Unclaimed(k)
            THEN [item EXCEPT !.intent = k, !.status = "CONSUMED"] ELSE item
      [] seen = "canceled" ->
            IF item.status = "RESERVED" /\ Unclaimed(k)
            THEN OpenItem ELSE item
      [] OTHER ->
            IF item.status = "RESERVED" /\ Unclaimed(k)
            THEN [item EXCEPT !.intent = k] ELSE item

\* upsertPayment: what was retrieved counts as authoritative, so the row takes
\* it whichever event it comes from; a PaymentIntent does not show its refunds.
UpsertPayment(k, kind, seen) ==
    [payment EXCEPT ![k] =
        CASE kind = "refunded" -> "refunded"
          [] kind # "refunded" /\ seen = "refunded" -> "succeeded"
          [] OTHER -> seen]

\* What the transaction of a slot writes about its object.
ProjectObject(h) ==
    LET k == handler[h].key
        kind == handler[h].kind
        seen == handler[h].seen
    IN  /\ handler[h].step = "project"
        /\ item' = IF kind = "refunded" THEN item
                   ELSE ProjectChargeableItem(k, seen)
        /\ payment' = UpsertPayment(k, kind, seen)

Release(h) == handler' = [handler EXCEPT ![h] = IdleHandler]

Fault ==
    /\ failures < MaxFailures
    /\ failures' = failures + 1

\* The transaction that projects the object and marks the event PROCESSED.
ProjectStripeEvent(h) ==
    /\ ProjectObject(h)
    /\ event' = [event EXCEPT ![<<handler[h].key, handler[h].kind>>] = "PROCESSED"]
    /\ Release(h)
    /\ UNCHANGED <<call, stripe, failures>>

\* The transaction commits but its answer is lost, or the outbox row cannot be
\* finalized: recordDeliveryFailure puts the event back to FAILED.
ProjectThenFail(h) ==
    /\ ProjectObject(h)
    /\ Fault
    /\ Release(h)
    /\ UNCHANGED <<call, stripe, event>>

\* Stripe or the database fails, or the process dies, before the transaction.
HandlerFails(h) ==
    /\ ~Idle(h)
    /\ Fault
    /\ Release(h)
    /\ UNCHANGED <<item, call, stripe, event, payment>>

-----------------------------------------------------------------------------
CallStep(c) ==
    \/ ReadItem(c)
    \/ ReserveItem(c)
    \/ CreateIntent(c)
    \/ CreateIntentFails(c)
    \/ PersistIntent(c)
    \/ PersistFails(c)

HandlerStep(h) ==
    \/ \E k \in Keys, kind \in Kinds : TakeStripeEvent(h, k, kind)
    \/ RetrieveCurrentStripeObject(h)
    \/ ProjectStripeEvent(h)

Next ==
    \/ \E c \in Calls, k \in Keys : Charge(c, k)
    \/ \E c \in Calls : CallStep(c)
    \/ \E k \in Keys : PayIntent(k) \/ CancelIntent(k) \/ RefundIntent(k)
    \/ \E k \in Keys, kind \in Kinds : StoreStripeEvent(k, kind)
    \/ \E h \in Handlers :
          HandlerStep(h) \/ ProjectThenFail(h) \/ HandlerFails(h)

Spec == Init /\ [][Next]_vars

\* Stripe repeats an event until it is stored, and the outbox is taken to hand a
\* stored event to the workers as often as MaxFailures asks (OutboxDelivery
\* shows when it does not).  Requests, customers and failures owe nothing.
Fairness ==
    /\ \A k \in Keys, kind \in Kinds : WF_vars(StoreStripeEvent(k, kind))
    /\ \A h \in Handlers : WF_vars(HandlerStep(h))

FairSpec == Spec /\ Fairness

-----------------------------------------------------------------------------
\* The rows, Stripe's objects and the local state keep their types.
TypeOK ==
    /\ item \in Item
    /\ call \in [Calls -> CallState]
    /\ intent \in [Keys -> IntentStatus]
    /\ answer \in [Keys -> {"none", "open", "succeeded"}]
    /\ event \in [EventIds -> EventStatus]
    /\ handler \in [Handlers -> HandlerState]
    /\ payment \in [Keys -> IntentStatus]
    /\ failures \in 0..MaxFailures

\* "A different key receives 409 instead of charging the same invoice/order
\* again": as long as a PaymentIntent is payable or paid, the item is held for
\* its key, whatever crashes, retries and late webhooks do.
PaymentHoldsItem ==
    \A k \in Keys :
        intent[k] \in {"open", "succeeded", "refunded"} =>
            item.status # "OPEN" /\ Unclaimed(k)

\* So no two keys ever pay for the item, and it is consumed only by a payment
\* that Stripe has settled.
PaidOnce ==
    /\ \A k, l \in Keys : Paid(k) /\ Paid(l) => k = l
    /\ item.status = "CONSUMED" => item.intent \in Keys /\ Paid(item.intent)

\* A held item names its key, and no payment but that key's.
ItemHeld ==
    IF item.status = "OPEN" THEN item = OpenItem
    ELSE item.key \in Keys /\ item.intent \in {NoKey, item.key}

\* A request that may still create an intent holds the reservation, and one that
\* records an intent knows it from Stripe.
CallsHold ==
    \A c \in Calls :
        /\ ~At(c, "idle") => call[c].key \in Keys
        /\ At(c, "create") /\ intent[call[c].key] = "none" =>
              item.status = "RESERVED" /\ item.key = call[c].key
        /\ At(c, "persist") => intent[call[c].key] # "none"
        /\ call[c].succeeded => At(c, "persist") /\ Paid(call[c].key)

\* The answer Stripe replays is one it could have given.
AnswersTrue ==
    \A k \in Keys :
        /\ intent[k] = "none" <=> answer[k] = "none"
        /\ answer[k] = "succeeded" => Paid(k)

\* A settled intent that a worker has seen, even long ago, is still settled so.
SeenTrue ==
    \A h \in Handlers :
        /\ ~Idle(h) => handler[h].key \in Keys
        /\ handler[h].seen # "none" => ~Idle(h)
        /\ handler[h].seen = "canceled" => intent[handler[h].key] = "canceled"
        /\ handler[h].seen \in {"succeeded", "refunded"} => Paid(handler[h].key)

\* What makes PaymentHoldsItem inductive: nobody who still has a step to take can
\* take the item from the key that holds it.
ReservationInv == ItemHeld /\ CallsHold /\ AnswersTrue /\ SeenTrue

\* "Webhook reconciliation can finish the transition after an API crash": a
\* payment that succeeds consumes the item in the end.
PaidIsConsumed == \A k \in Keys : Paid(k) ~> item.status = "CONSUMED"

=============================================================================
