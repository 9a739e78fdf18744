------------------------------- MODULE Billing -------------------------------
(***************************************************************************)
(* The billing of one user beside charges: the Stripe customer, refunds of a *)
(* payment, saved cards and a subscription.  API requests call Stripe and    *)
(* the database in turn; what happens at Stripe comes back as events through *)
(* webhook workers, which retrieve the object first and project it later.    *)
(***************************************************************************)
EXTENDS Integers, Sequences

CONSTANTS
    Requests,       \* API requests under way at once
    Handlers,       \* INTERNAL worker slots that process stored events
    Keys, NoKey,    \* business idempotency keys of refunds
    Cards, NoCard,
    Received,       \* amount_received of the payment
    RefundLimit,    \* REFUND_MAX_AMOUNT_BY_CURRENCY
    MaxCalls,       \* bound on the requests
    MaxCardCalls,   \* bound on the requests of a user who manages cards
    MaxChanges,     \* bound on what happens at Stripe by itself
    MaxFaults       \* bound on crashes and lost answers

ASSUME BillingAssumption ==
    /\ {Received, RefundLimit} \subseteq Nat \ {0}
    /\ {MaxCalls, MaxCardCalls, MaxChanges, MaxFaults} \subseteq Nat
    /\ NoKey \notin Keys /\ NoCard \notin Cards

VARIABLES
    customer,      \* stripeCustomerId of the user's row; 0 is null
    operation,     \* rows of stripe_refund_operations, by key
    card,          \* rows of payment_methods
    subscription,  \* status of the row of stripe_subscriptions
    customers,     \* Stripe: customers created for the user
    refund,        \* Stripe: amounts of the refunds made under a key
    refunded,      \* Stripe: amount_refunded of the charge
    attached,      \* Stripe: cards of the customer
    preferred,     \* Stripe: default_payment_method of the customer
    plan,          \* Stripe: the subscription
    checkout,      \* Stripe: a checkout session of the customer is open
    event,         \* stored events that wait for a worker
    handler,       \* per slot: the event and what was retrieved for it
    request,       \* per request: where it is
    erasure,       \* the erasure event of the account
    topic,         \* what the user is about: see Init
    calls, changes, faults,
    superseded,    \* history: a default was written that Stripe had replaced
    late           \* history: a plan began after the deletion had begun

tables == <<customer, operation, card, subscription>>
stripe == <<customers, refund, refunded, attached, preferred, plan, checkout>>
bounds == <<topic, calls, changes, faults>>
history == <<superseded, late>>
vars == <<tables, stripe, event, handler, request, erasure, bounds, history>>

Amounts == 0..Received
\* A refund of 1, or 0 for everything that is left.
Inputs == {0, 1}
Operation == [exists: BOOLEAN, input: Inputs, requested: Amounts,
              refund: Nat, status: {"PENDING", "FAILED", "succeeded"}]
NoOperation == [exists |-> FALSE, input |-> 0, requested |-> 0, refund |-> 0,
                status |-> "PENDING"]
Card == [saved: BOOLEAN, default: BOOLEAN]
Live == {"active", "past_due"}
Status == Live \cup {"none", "canceled"}

Events == ({"setup", "detached"} \X Cards)
            \cup ({"customer", "subscription"} \X {NoCard})
NoEvent == <<"none", NoCard>>
Handler == [event: Events \cup {NoEvent},
            status: Status, preferred: Cards \cup {NoCard}]
Waiting == [event |-> NoEvent, status |-> "none",
            preferred |-> NoCard]

Request == [step: {"idle", "createCustomer", "saveCustomer", "setup",
                   "checkout", "target",
                   "record", "stripeRefund", "fail", "complete",
                   "stripeDefault", "clearDefault", "setDefault",
                   "countCards", "stripeDetach", "markDetached",
                   "update", "erase"},
            key: Keys \cup {NoKey}, input: Inputs, amount: Nat,
            id: Nat,                       \* of a customer or a refund
            card: Cards \cup {NoCard},
            list: SUBSET Cards,            \* rows the statement has matched
            ending: BOOLEAN]
Idle == [step |-> "idle", key |-> NoKey, input |-> 0, amount |-> 0, id |-> 0,
         card |-> NoCard, list |-> {}, ending |-> FALSE]

\* A new user, or one with a payment, cards and a subscription.  The user asks
\* for refunds, or manages cards, or the subscription: the three have little in
\* common but the customer.
Init ==
    \E known \in BOOLEAN :
        /\ topic \in {"refunds", "cards", "subscription"}
        /\ customer = IF known THEN 1 ELSE 0
        /\ operation = [k \in Keys |-> NoOperation]
        /\ card = [c \in Cards |-> [saved |-> known, default |-> FALSE]]
        /\ subscription = IF known THEN "active" ELSE "none"
        /\ customers = customer
        /\ refund = [k \in Keys |-> <<>>] /\ refunded = 0
        /\ attached = IF known THEN Cards ELSE {}
        /\ preferred = NoCard
        /\ plan = [status |-> subscription, ending |-> FALSE]
        /\ checkout = FALSE
        /\ event = {} /\ handler = [h \in Handlers |-> Waiting]
        /\ request = [r \in Requests |-> Idle]
        /\ erasure = [step |-> "none", customer |-> FALSE]
        /\ calls = 0 /\ changes = 0 /\ faults = 0
        /\ superseded = FALSE /\ late = FALSE

At(r, step) == request[r].step = step
Goto(r, step) == request' = [request EXCEPT ![r].step = step]
End(r) == request' = [request EXCEPT ![r] = Idle]
Spend == faults < MaxFaults /\ faults' = faults + 1
         /\ UNCHANGED <<topic, calls, changes>>
Saved == {c \in Cards : card[c].saved}
Defaults == {c \in Cards : card[c].default}
Deleted == erasure.step # "none"

\* A request arrives; requests are alike, and the first free one is taken.
Call(r, values) ==
    /\ At(r, "idle") /\ r = CHOOSE q \in Requests : At(q, "idle")
    /\ ~Deleted /\ calls < (IF topic = "cards" THEN MaxCardCalls ELSE MaxCalls)
    /\ request' = [request EXCEPT ![r] = [values EXCEPT !.list = {}]]
    /\ calls' = calls + 1
    /\ UNCHANGED <<tables, stripe, event, handler, erasure, topic, changes,
                   faults, history>>

\* The process dies between two steps.
Crash(r) ==
    /\ ~At(r, "idle") /\ Spend
    /\ End(r)
    /\ UNCHANGED <<tables, stripe, event, handler, erasure, history>>

-----------------------------------------------------------------------------
(* ensureCustomer, createSetupIntent and createCheckoutSession.              *)

\* What the request needs the customer for.
WithCustomer == IF topic = "subscription" THEN "checkout" ELSE "setup"

\* The user's row is read: it has its customer, or one is created.
EnsureCustomer(r) ==
    Call(r, [Idle EXCEPT !.step = IF customer = 0 THEN "createCustomer"
                                                  ELSE WithCustomer])

CreateSetupIntent(r) == topic = "cards" /\ EnsureCustomer(r)
CreateCheckoutSession(r) == topic = "subscription" /\ EnsureCustomer(r)

\* Mutant: the call to Stripe has no idempotency key.
NewCustomer == customers + 1

\* customers.create under the key customer:<user>, which Stripe remembers.
StripeCustomer == 1

CreateCustomer(r) ==
    /\ At(r, "createCustomer")
    /\ request' = [request EXCEPT ![r].step = "saveCustomer",
                                  ![r].id = StripeCustomer]
    /\ customers' = IF StripeCustomer > customers THEN StripeCustomer
                                                  ELSE customers
    /\ UNCHANGED <<tables, checkout, refund, refunded, attached, preferred, plan, event,
                   handler, erasure, bounds, history>>

\* user.update throws when the account has been deleted.
SaveCustomer(r) ==
    /\ At(r, "saveCustomer")
    /\ IF Deleted
       THEN UNCHANGED customer /\ End(r)
       ELSE customer' = request[r].id /\ Goto(r, WithCustomer)
    /\ UNCHANGED <<operation, card, subscription, stripe, event, handler,
                   erasure, bounds, history>>

\* setupIntents.create; the client confirms it with a card of his, if he does.
ConfirmSetup(r) ==
    /\ At(r, "setup")
    /\ \/ \E c \in Cards : /\ attached' = attached \cup {c}
                           /\ event' = event \cup {<<"setup", c>>}
       \/ UNCHANGED <<attached, event>>
    /\ End(r)
    /\ UNCHANGED <<tables, checkout, customers, refund, refunded, preferred, plan, handler,
                   erasure, bounds, history>>

\* checkout.sessions.create: the session stays open until the user completes it.
OpenCheckout(r) ==
    /\ At(r, "checkout")
    /\ checkout' = TRUE
    /\ End(r)
    /\ UNCHANGED <<tables, customers, refund, refunded, attached, preferred, plan,
                   event, handler, erasure, bounds, history>>

-----------------------------------------------------------------------------
(* createRefund.                                                            *)

\* The row was made by the same request and has no refund yet; otherwise the
\* call answers a conflict, or the refund it finds.
Resumes(k, input) == operation[k].input = input /\ operation[k].refund = 0

CreateRefund(r, k, input) ==
    /\ topic = "refunds" /\ customer # 0
    /\ operation[k].exists => Resumes(k, input)
    /\ Call(r, [Idle EXCEPT !.step = "target", !.key = k, !.input = input,
                            !.amount = operation[k].requested])

\* enforceSelfServiceRefundPolicy: the amount, and whether the policy grants it.
Refundable(input) == IF input = 0 THEN Received - refunded ELSE input

PolicyAllows(input) ==
    /\ refunded < Received
    /\ Refundable(input) <= Received - refunded
    /\ Refundable(input) <= RefundLimit

\* The customer of an account that was deleted is not found.  The payment is
\* retrieved; the amount of an operation found before is kept.
RetrieveTarget(r) ==
    LET input == request[r].input
    IN  /\ At(r, "target")
        /\ \/ ~Deleted /\ request[r].amount > 0 /\ Goto(r, "stripeRefund")
           \/ /\ ~Deleted /\ request[r].amount = 0 /\ PolicyAllows(input)
              /\ request' = [request EXCEPT ![r].step = "record",
                                            ![r].amount = Refundable(input)]
           \/ /\ Deleted \/ (request[r].amount = 0 /\ ~PolicyAllows(input))
              /\ End(r)
        /\ UNCHANGED <<tables, stripe, event, handler, erasure, bounds, history>>

\* The insertion, or after P2002 the row of the concurrent request: the amount
\* stays the one computed here.
RecordOperation(r) ==
    LET k == request[r].key
    IN  /\ At(r, "record")
        /\ \/ /\ ~operation[k].exists
              /\ operation' = [operation EXCEPT ![k] =
                                 [NoOperation EXCEPT !.exists = TRUE,
                                                     !.input = request[r].input,
                                                     !.requested = request[r].amount]]
              /\ Goto(r, "stripeRefund")
           \/ /\ operation[k].exists
              /\ IF Resumes(k, request[r].input) THEN Goto(r, "stripeRefund")
                                                 ELSE End(r)
              /\ UNCHANGED operation
        /\ UNCHANGED <<customer, card, subscription, stripe, event, handler,
                       erasure, bounds, history>>

\* Mutant: every attempt has a Stripe key of its own.
NeverReplayed(k) == FALSE

\* Stripe remembers the refund of a key.
Replayed(k) == refund[k] # <<>>

\* refunds.create: a known key replays its refund if the amount is the same,
\* a new one refunds what the charge still has.
Refunds(r) ==
    LET k == request[r].key
        amount == request[r].amount
    IN  \/ /\ Replayed(k) /\ refund[k][1] = amount
           /\ UNCHANGED <<refund, refunded>>
        \/ /\ ~Replayed(k) /\ refunded + amount <= Received
           /\ refund' = [refund EXCEPT ![k] = Append(@, amount)]
           /\ refunded' = refunded + amount

Refused(r) ==
    LET k == request[r].key
        amount == request[r].amount
    IN  IF Replayed(k) THEN refund[k][1] # amount ELSE refunded + amount > Received

StripeRefund(r) ==
    /\ At(r, "stripeRefund")
    /\ Refunds(r)
    /\ request' = [request EXCEPT ![r].step = "complete",
                                  ![r].id = Len(refund'[request[r].key])]
    /\ UNCHANGED <<tables, checkout, customers, attached, preferred, plan, event, handler,
                   erasure, bounds, history>>

\* Stripe refuses, or its answer is lost with or without a refund.
StripeRefundFails(r) ==
    /\ At(r, "stripeRefund")
    /\ \/ Refused(r) /\ UNCHANGED <<refund, refunded, bounds>>
       \/ Spend /\ UNCHANGED <<refund, refunded>>
       \/ Spend /\ Refunds(r)
    /\ Goto(r, "fail")
    /\ UNCHANGED <<tables, checkout, customers, attached, preferred, plan, event, handler,
                   erasure, history>>

\* The update of the catch block has no condition.
FailOperation(r) ==
    /\ At(r, "fail")
    /\ operation' = [operation EXCEPT ![request[r].key].status = "FAILED"]
    /\ End(r)
    /\ UNCHANGED <<customer, card, subscription, stripe, event, handler, erasure,
                   bounds, history>>

CompleteOperation(r) ==
    LET k == request[r].key
    IN  /\ At(r, "complete")
        /\ operation' = IF operation[k].refund # 0 THEN operation
                        ELSE [operation EXCEPT ![k].refund = request[r].id,
                                               ![k].status = "succeeded"]
        /\ End(r)
        /\ UNCHANGED <<customer, card, subscription, stripe, event, handler,
                       erasure, bounds, history>>

-----------------------------------------------------------------------------
(* Payment methods.                                                         *)

SetDefaultPaymentMethod(r, c) ==
    /\ topic = "cards" /\ c \in Saved
    /\ Call(r, [Idle EXCEPT !.step = "stripeDefault", !.card = c])

\* ensureCustomer, which does not find a deleted account, and customers.update,
\* which Stripe refuses for a card that is not attached.
StripeDefault(r) ==
    LET c == request[r].card
    IN  /\ At(r, "stripeDefault")
        /\ IF c \in attached /\ ~Deleted
           THEN /\ preferred' = c
                /\ event' = event \cup {<<"customer", NoCard>>}
                /\ Goto(r, "clearDefault")
           ELSE UNCHANGED <<preferred, event>> /\ End(r)
        /\ UNCHANGED <<tables, checkout, customers, refund, refunded, attached, plan,
                       handler, erasure, bounds, history>>

\* The first statement of the transaction: the rows it has matched.
ClearDefault(r) ==
    /\ At(r, "clearDefault")
    /\ request' = [request EXCEPT ![r].step = "setDefault",
                                  ![r].list = Defaults]
    /\ UNCHANGED <<tables, stripe, event, handler, erasure, bounds, history>>

\* The second statement and the commit; a row that was deleted meanwhile makes
\* the transaction throw.
SetDefault(r) ==
    LET c == request[r].card
    IN  /\ At(r, "setDefault")
        /\ IF card[c].saved
           THEN /\ card' = [d \in Cards |->
                              [card[d] EXCEPT !.default =
                                 d = c \/ (@ /\ d \notin request[r].list)]]
                /\ superseded' = (superseded \/ preferred # c
                                    \/ ~(Defaults \subseteq request[r].list \cup {c}))
           ELSE UNCHANGED <<card, superseded>>
        /\ End(r)
        /\ UNCHANGED <<customer, operation, subscription, stripe, event, handler,
                       erasure, bounds, late>>

DetachPaymentMethod(r, c) ==
    /\ topic = "cards" /\ c \in Saved
    /\ Call(r, [Idle EXCEPT !.step = "countCards", !.card = c])

\* The last card of a live subscription stays.
CountCards(r) ==
    /\ At(r, "countCards")
    /\ IF subscription \in Live /\ Saved \subseteq {request[r].card}
       THEN End(r)
       ELSE Goto(r, "stripeDetach")
    /\ UNCHANGED <<tables, stripe, event, handler, erasure, bounds, history>>

\* What a detachment does at Stripe, whoever asks for it.
Detach(c) ==
    /\ attached' = attached \ {c}
    /\ preferred' = IF preferred = c THEN NoCard ELSE preferred
    /\ event' = event \cup {<<"detached", c>>}
                      \cup (IF preferred = c THEN {<<"customer", NoCard>>} ELSE {})

\* paymentMethods.detach, an error when the card is not attached any more.
StripeDetach(r) ==
    LET c == request[r].card
    IN  /\ At(r, "stripeDetach")
        /\ \/ c \in attached /\ Detach(c) /\ Goto(r, "markDetached")
           \/ c \notin attached /\ UNCHANGED <<attached, preferred, event>> /\ End(r)
        /\ UNCHANGED <<tables, checkout, customers, refund, refunded, plan, handler,
                       erasure, bounds, history>>

Gone == [saved |-> FALSE, default |-> FALSE]

\* paymentMethod.update throws when the event has been projected before.
MarkDetached(r) ==
    /\ At(r, "markDetached")
    /\ card' = [card EXCEPT ![request[r].card] = IF @.saved THEN Gone ELSE @]
    /\ End(r)
    /\ UNCHANGED <<customer, operation, subscription, stripe, event, handler,
                   erasure, bounds, history>>

-----------------------------------------------------------------------------
(* Subscriptions, and what happens at Stripe by itself.                     *)

\* cancelSubscription (ending), resumeSubscription and changeSubscriptionPrice
\* (not ending) retrieve the subscription, and update it.
UpdateSubscription(r, ending) ==
    /\ topic = "subscription" /\ plan.status # "none"
    /\ Call(r, [Idle EXCEPT !.step = "update", !.ending = ending])

StripeUpdate(r) ==
    /\ At(r, "update")
    /\ \/ /\ plan.status \in Live
          /\ plan' = [plan EXCEPT !.ending = request[r].ending]
          /\ event' = event \cup {<<"subscription", NoCard>>}
       \/ plan.status \notin Live /\ UNCHANGED <<plan, event>>
    /\ End(r)
    /\ UNCHANGED <<tables, checkout, customers, refund, refunded, attached, preferred,
                   handler, erasure, bounds, history>>

Change(t) == /\ topic = t /\ changes < MaxChanges /\ changes' = changes + 1
             /\ UNCHANGED <<topic, calls, faults>>

\* The user completes a checkout, renewals fail and succeed, the period of a
\* subscription that is to end ends, and dunning gives up.
PlanChanges(status) ==
    /\ Change("subscription")
    /\ \/ plan.status = "none" /\ checkout /\ status = "active"
       \/ plan.status = "active" /\ status = "past_due"
       \/ plan.status = "past_due" /\ status = "active"
       \/ plan.status = "past_due" /\ status = "canceled"
       \/ plan.status \in Live /\ plan.ending /\ status = "canceled"
    /\ plan' = [plan EXCEPT !.status = status]
    /\ event' = event \cup {<<"subscription", NoCard>>}
    /\ late' = (late \/ (plan.status = "none"
                          /\ (Deleted \/ \E r \in Requests : At(r, "erase"))))
    /\ UNCHANGED <<tables, checkout, customers, refund, refunded, attached, preferred,
                   handler, request, erasure, superseded>>

\* A card of the customer is preferred or detached in the billing portal.
PortalDefault(c) ==
    /\ Change("cards") /\ c \in attached
    /\ preferred' = c
    /\ event' = event \cup {<<"customer", NoCard>>}
    /\ UNCHANGED <<tables, checkout, customers, refund, refunded, attached, plan, handler,
                   request, erasure, history>>

PortalDetach(c) ==
    /\ Change("cards") /\ c \in attached /\ Detach(c)
    /\ UNCHANGED <<tables, checkout, customers, refund, refunded, plan, handler, request,
                   erasure, history>>

\* An administrator refunds a part of the charge in the dashboard.
DashboardRefund ==
    /\ Change("refunds") /\ customers > 0 /\ refunded < Received
    /\ refunded' = refunded + 1
    /\ UNCHANGED <<tables, checkout, customers, refund, attached, preferred, plan, event,
                   handler, request, erasure, history>>

-----------------------------------------------------------------------------
(* processStoredStripeEvent.                                                *)

Busy(h) == handler[h].event # NoEvent

\* An event is taken, its object is retrieved: what Stripe says at this time.
RetrieveObject(h, e) ==
    /\ ~Busy(h) /\ h = CHOOSE g \in Handlers : ~Busy(g)
    /\ e \in event
    /\ event' = event \ {e}
    /\ handler' = [handler EXCEPT ![h] =
                     [event |-> e,
                      status |-> IF e[1] = "subscription" THEN plan.status ELSE "none",
                      preferred |-> IF e[1] = "customer" THEN preferred ELSE NoCard]]
    /\ UNCHANGED <<tables, stripe, request, erasure, bounds, history>>

\* payment_method.detached.
ProjectDetached(c) == IF card[c].saved THEN Gone ELSE card[c]

\* setup_intent.succeeded: the upsert revives the row of a detached card.
ProjectAttachedPaymentMethod(c) == [card[c] EXCEPT !.saved = TRUE]

\* Mutant: the old default is not cleared.
ProjectNewDefault(p) ==
    [c \in Cards |-> [card[c] EXCEPT !.default = @ \/ (c = p /\ card[c].saved)]]

\* customer.updated: the default is cleared, and set on a row that is there.
ProjectCustomer(p) ==
    [c \in Cards |-> [card[c] EXCEPT !.default = c = p /\ card[c].saved]]

\* Mutant: the update reaches rows that were deleted.
ProjectDeletedSubscription(status) == status

\* projectSubscription: the update finds no row that was deleted with status
\* canceled, the upsert inserts a row that is missing.
ProjectSubscription(status) ==
    IF subscription = "canceled" THEN subscription ELSE status

ProjectEvent(h) ==
    LET e == handler[h].event
    IN  /\ Busy(h)
        /\ card' = CASE e[1] = "setup" ->
                          [card EXCEPT ![e[2]] = ProjectAttachedPaymentMethod(e[2])]
                     [] e[1] = "detached" ->
                          [card EXCEPT ![e[2]] = ProjectDetached(e[2])]
                     [] e[1] = "customer" -> ProjectCustomer(handler[h].preferred)
                     [] OTHER -> card
        /\ subscription' = IF e[1] = "subscription"
                           THEN ProjectSubscription(handler[h].status)
                           ELSE subscription
        /\ superseded' = (superseded
                            \/ (e[1] = "setup" /\ preferred = e[2] /\ ~card[e[2]].saved)
                            \/ (e[1] = "customer" /\ preferred # handler[h].preferred))
        /\ handler' = [handler EXCEPT ![h] = Waiting]
        /\ UNCHANGED <<customer, operation, stripe, event, request, erasure,
                       bounds, late>>

\* The worker dies or a statement fails: the event is taken again.
HandlerFails(h) ==
    /\ Busy(h) /\ Spend
    /\ event' = event \cup {handler[h].event}
    /\ handler' = [handler EXCEPT ![h] = Waiting]
    /\ UNCHANGED <<tables, stripe, request, erasure, history>>

-----------------------------------------------------------------------------
(* Deletion of the account and the external half of its erasure.            *)

\* The user's row is read before the transaction.
DeleteAccount(r) ==
    topic # "cards" /\ Call(r, [Idle EXCEPT !.step = "erase", !.id = customer])

\* user.update throws when another request has deleted the account.
EraseAccount(r) ==
    /\ At(r, "erase")
    /\ \/ /\ ~Deleted
          /\ customer' = 0
          /\ subscription' = IF subscription \in Live THEN "canceled" ELSE subscription
          /\ erasure' = [step |-> "requested", customer |-> request[r].id # 0]
       \/ Deleted /\ UNCHANGED <<customer, subscription, erasure>>
    /\ End(r)
    /\ UNCHANGED <<operation, card, stripe, event, handler, bounds, history>>

\* Mutant: only active subscriptions are canceled.
ActiveOnly(status) == status = "active"

ToCancel(status) == status \notin {"none", "canceled"}

\* cancelCustomerSubscriptions lists the subscriptions,
ListSubscriptions ==
    /\ erasure.step = "requested"
    /\ erasure' = [erasure EXCEPT !.step =
                     IF erasure.customer /\ ToCancel(plan.status) THEN "cancel" ELSE "done"]
    /\ UNCHANGED <<tables, stripe, event, handler, request, bounds, history>>

\* and cancels them; an error makes the event run again from the start.
CancelCustomerSubscriptions ==
    /\ erasure.step = "cancel"
    /\ \/ /\ plan.status \in Live
          /\ plan' = [plan EXCEPT !.status = "canceled"]
          /\ event' = event \cup {<<"subscription", NoCard>>}
          /\ erasure' = [erasure EXCEPT !.step = "done"]
          /\ UNCHANGED bounds
       \/ /\ plan.status \notin Live \/ faults < MaxFaults
          /\ erasure' = [erasure EXCEPT !.step = "requested"]
          /\ IF plan.status \in Live THEN Spend ELSE UNCHANGED bounds
          /\ UNCHANGED <<plan, event>>
    /\ UNCHANGED <<tables, checkout, customers, refund, refunded, attached, preferred,
                   handler, request, history>>

-----------------------------------------------------------------------------
Refunding(r) ==
    \/ \E k \in Keys, input \in Inputs : CreateRefund(r, k, input)
    \/ RetrieveTarget(r) \/ RecordOperation(r) \/ StripeRefund(r)
    \/ StripeRefundFails(r) \/ FailOperation(r) \/ CompleteOperation(r)

Saving(r) ==
    \/ CreateSetupIntent(r) \/ CreateCheckoutSession(r) \/ CreateCustomer(r)
    \/ SaveCustomer(r) \/ ConfirmSetup(r) \/ OpenCheckout(r)
    \/ \E c \in Cards : SetDefaultPaymentMethod(r, c) \/ DetachPaymentMethod(r, c)
    \/ StripeDefault(r) \/ ClearDefault(r) \/ SetDefault(r)
    \/ CountCards(r) \/ StripeDetach(r) \/ MarkDetached(r)

Subscribing(r) ==
    \/ \E ending \in BOOLEAN : UpdateSubscription(r, ending)
    \/ StripeUpdate(r)

Deleting(r) == DeleteAccount(r) \/ EraseAccount(r)

AtStripe ==
    \/ \E status \in Status : PlanChanges(status)
    \/ \E c \in Cards : PortalDefault(c) \/ PortalDetach(c)
    \/ DashboardRefund

HandlerStep ==
    \E h \in Handlers : (\E e \in Events : RetrieveObject(h, e)) \/ ProjectEvent(h)

ErasureStep == ListSubscriptions \/ CancelCustomerSubscriptions

Next ==
    \/ \E r \in Requests :
          Refunding(r) \/ Saving(r) \/ Subscribing(r) \/ Deleting(r) \/ Crash(r)
    \/ AtStripe
    \/ HandlerStep \/ \E h \in Handlers : HandlerFails(h)
    \/ ErasureStep

Spec == Init /\ [][Next]_vars

\* Workers run as long as there is something to do; requests may die.
FairSpec == Spec /\ WF_vars(HandlerStep) /\ WF_vars(ErasureStep)

-----------------------------------------------------------------------------
(* Properties.                                                              *)

\* Types of the variables; the event of the account's erasure carries the
\* customer that was read.
TypeOK ==
    /\ {customer, customers} \subseteq Nat
    /\ operation \in [Keys -> Operation]
    /\ card \in [Cards -> Card]
    /\ subscription \in Status
    /\ \A k \in Keys : \A i \in DOMAIN refund[k] : refund[k][i] \in Amounts \ {0}
    /\ refunded \in Amounts
    /\ attached \subseteq Cards /\ preferred \in attached \cup {NoCard}
    /\ plan \in [status: Status, ending: BOOLEAN] /\ checkout \in BOOLEAN
    /\ event \subseteq Events
    /\ handler \in [Handlers -> Handler]
    /\ request \in [Requests -> Request]
    /\ erasure \in [step: {"none", "requested", "cancel", "done"}, customer: BOOLEAN]
    /\ calls \in Nat /\ changes \in 0..MaxChanges /\ faults \in 0..MaxFaults
    /\ topic \in {"refunds", "cards", "subscription"} /\ {superseded, late} \subseteq BOOLEAN

\* Two requests of a new user that create his customer at the same time agree
\* on it: the id in the row is never replaced by another (ensureCustomer).
CustomerStable == [][customer # 0 => customer' \in {0, customer}]_vars

\* A business key refunds at most once, through lost answers, crashes and
\* retries, and an operation that is complete names that refund; its amount is
\* not more than the operation recorded, which the policy had allowed, although a
\* request that loses the insertion keeps the amount it had computed itself.
RefundOnce ==
    \A k \in Keys :
        /\ Len(refund[k]) <= 1
        /\ operation[k].refund \in 0..Len(refund[k])
        /\ \A i \in DOMAIN refund[k] :
              /\ operation[k].exists
              /\ refund[k][i] <= operation[k].requested
              /\ operation[k].requested <= RefundLimit

\* A default is a card that is still saved: detachments by the user and in the
\* portal, their events and late confirmations of a card included.
DefaultIsSaved == Defaults \subseteq Saved

\* Nothing is under way that could still change the default.
Quiet ==
    /\ event = {} /\ \A h \in Handlers : ~Busy(h)
    /\ \A r \in Requests : request[r].step \notin {"clearDefault", "setDefault"}

\* When everything has been processed, the rows name the default Stripe has,
\* also after a request died between Stripe and its transaction, unless a
\* request or a worker wrote a default that had been replaced meanwhile.
DefaultFollowsStripe ==
    Quiet /\ ~superseded => Defaults = {preferred} \cap Saved

\* A cancellation at Stripe reaches the row and stays there: no worker that
\* retrieved the subscription before brings it back (projectSubscription).
CancellationIsProjected ==
    plan.status = "canceled" ~> [](subscription = "canceled")

\* The subscription of a deleted account ends at Stripe, unless it began after
\* the deletion had read the account.
DeletionEndsPlan == Deleted ~> (plan.status \notin Live \/ late)

\* The invariant of the cards: types, a default is a saved card, and it is
\* Stripe's when everything has been processed.
BillingInv == TypeOK /\ DefaultIsSaved /\ DefaultFollowsStripe

=============================================================================
