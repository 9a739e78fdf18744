------------------------ MODULE ChargePaymentsProofs ------------------------
(* One payment per chargeable item, for every number of requests, keys,     *)
(* workers and failures.                                                    *)
EXTENDS ChargePayments, TLAPS

\* The inductive invariant.
ChargeInv == TypeOK /\ ReservationInv /\ PaymentHoldsItem /\ PaidOnce

USE NoKeyAssumption, FailuresAssumption

\* The start: an open item, no intent, nobody at work.
LEMMA InitInv == Init => ChargeInv
<1> SUFFICES ASSUME Init PROVE ChargeInv
    OBVIOUS
<1>1. TypeOK
    BY DEF Init, TypeOK, OpenItem, Item, NoCall, CallState, IntentStatus, EventStatus,
           IdleHandler, HandlerState, Kinds
<1>2. ReservationInv
    BY DEF Init, ReservationInv, ItemHeld, CallsHold, AnswersTrue, SeenTrue, OpenItem, NoCall,
           IdleHandler, At, Idle, Paid
<1>3. PaymentHoldsItem /\ PaidOnce
    BY DEF Init, PaymentHoldsItem, PaidOnce, OpenItem, Paid
<1> QED
    BY <1>1, <1>2, <1>3 DEF ChargeInv

\* The rows a projection writes have their types.
LEMMA ProjectType ==
    ASSUME TypeOK, NEW h \in Handlers, handler[h].key \in Keys, ProjectObject(h)
    PROVE  item' \in Item /\ payment' \in [Keys -> IntentStatus]
<1> DEFINE k == handler[h].key
           seen == handler[h].seen
<1> USE DEF TypeOK, Item, IntentStatus, HandlerState, Kinds
<1>1. k \in Keys /\ seen \in IntentStatus
    OBVIOUS
<1>2. item' = item \/ item' = ProjectChargeableItem(k, seen)
    BY DEF ProjectObject
<1>3. payment' = UpsertPayment(k, handler[h].kind, seen)
    BY DEF ProjectObject
<1> HIDE DEF k, seen
<1>4. ProjectChargeableItem(k, seen) \in Item
    BY <1>1 DEF ProjectChargeableItem, OpenItem, Unclaimed
<1>5. payment' \in [Keys -> IntentStatus]
    BY <1>1, <1>3 DEF UpsertPayment
<1> QED
    BY <1>2, <1>4, <1>5

\* A request that moves on is still a request.
LEMMA CallTypes ==
    ASSUME call \in [Calls -> CallState], NEW c \in Calls
    PROVE  /\ [call EXCEPT ![c] = NoCall] \in [Calls -> CallState]
           /\ Goto(c, "reserve") \/ Goto(c, "create") \/ Return(c)
                 => call' \in [Calls -> CallState]
           /\ [call EXCEPT ![c] = [@ EXCEPT !.step = "read", !.attempt = 1]]
                 \in [Calls -> CallState]
           /\ \A b \in BOOLEAN :
                 [call EXCEPT ![c] = [@ EXCEPT !.step = "persist", !.succeeded = b]]
                     \in [Calls -> CallState]
           /\ \A k \in Keys :
                 [call EXCEPT ![c] = [NoCall EXCEPT !.step = "read", !.key = k]]
                     \in [Calls -> CallState]
<1>1. NoCall \in CallState
    BY DEF NoCall, CallState
<1>2. call[c] \in CallState
    OBVIOUS
<1>3. /\ Goto(c, "reserve") => call' \in [Calls -> CallState]
      /\ Goto(c, "create") => call' \in [Calls -> CallState]
      /\ Return(c) => call' \in [Calls -> CallState]
  <2>1. /\ [call[c] EXCEPT !.step = "reserve"] \in CallState
        /\ [call[c] EXCEPT !.step = "create"] \in CallState
      BY <1>2 DEF CallState
  <2> QED
      BY <1>1, <2>1 DEF Goto, Return
<1>4. [call[c] EXCEPT !.step = "read", !.attempt = 1] \in CallState
    BY <1>2 DEF CallState
<1>5. \A b \in BOOLEAN : [call[c] EXCEPT !.step = "persist", !.succeeded = b] \in CallState
    BY <1>2 DEF CallState
<1>6. \A k \in Keys : [NoCall EXCEPT !.step = "read", !.key = k] \in CallState
    BY DEF NoCall, CallState
<1> QED
    BY <1>1, <1>3, <1>4, <1>5, <1>6

\* Every step keeps the types.
LEMMA TypeStep == TypeOK /\ ReservationInv /\ [Next]_vars => TypeOK'
<1> SUFFICES ASSUME TypeOK, ReservationInv, [Next]_vars PROVE TypeOK'
    OBVIOUS
<1> USE DEF TypeOK
<1>1. ASSUME NEW c \in Calls, NEW k \in Keys, Charge(c, k) PROVE TypeOK'
    BY <1>1, CallTypes DEF Charge, stripe
<1>2. ASSUME NEW c \in Calls, ReadItem(c) PROVE TypeOK'
    BY <1>2, CallTypes DEF ReadItem, stripe
<1>3. ASSUME NEW c \in Calls, ReserveItem(c) PROVE TypeOK'
  <2>1. item' \in Item
    <3>1. call[c].key \in Keys \cup {NoKey}
        BY DEF CallState
    <3> QED
        BY <1>3, <3>1 DEF ReserveItem, Item
  <2>2. call' \in [Calls -> CallState]
      BY ZenonT(40), <1>3, CallTypes DEF ReserveItem
  <2> QED
      BY <1>3, <2>1, <2>2 DEF ReserveItem, stripe
<1>4. ASSUME NEW c \in Calls, CreateIntent(c) PROVE TypeOK'
  <2>1. intent' \in [Keys -> IntentStatus]
      BY <1>4 DEF CreateIntent, NewIntent, stripe, IntentStatus
  <2>2. answer' \in [Keys -> {"none", "open", "succeeded"}]
      BY <1>4 DEF CreateIntent, NewIntent, stripe
  <2>3. call' \in [Calls -> CallState]
    <3> DEFINE b == answer'[call[c].key] = "succeeded"
    <3>1. b \in BOOLEAN
        OBVIOUS
    <3>2. call' = [call EXCEPT ![c] = [@ EXCEPT !.step = "persist", !.succeeded = b]]
        BY <1>4 DEF CreateIntent
    <3> HIDE DEF b
    <3> QED
        BY <3>1, <3>2, CallTypes
  <2> QED
      BY <1>4, <2>1, <2>2, <2>3 DEF CreateIntent
<1>5. ASSUME NEW c \in Calls, CreateIntentFails(c) PROVE TypeOK'
  <2>1. intent' \in [Keys -> IntentStatus]
      BY <1>5 DEF CreateIntentFails, NewIntent, stripe, IntentStatus
  <2>2. answer' \in [Keys -> {"none", "open", "succeeded"}]
      BY <1>5 DEF CreateIntentFails, NewIntent, stripe
  <2> QED
      BY <1>5, <2>1, <2>2, CallTypes DEF CreateIntentFails, Return
<1>6. ASSUME NEW c \in Calls, PersistIntent(c) PROVE TypeOK'
  <2>1. item' \in Item
    <3>1. call[c].key \in Keys \cup {NoKey}
        BY DEF CallState
    <3> QED
        BY <1>6, <3>1 DEF PersistIntent, Item
  <2> QED
      BY <1>6, <2>1, CallTypes DEF PersistIntent, Return, stripe
<1>7. ASSUME NEW c \in Calls, PersistFails(c) PROVE TypeOK'
    BY <1>7, CallTypes DEF PersistFails, Return, stripe
<1>8. ASSUME NEW k \in Keys, PayIntent(k) \/ CancelIntent(k) \/ RefundIntent(k)
      PROVE  TypeOK'
    BY <1>8 DEF PayIntent, CancelIntent, RefundIntent, Settle, IntentStatus
<1>9. ASSUME NEW k \in Keys, NEW kind \in Kinds, StoreStripeEvent(k, kind) PROVE TypeOK'
    BY <1>9 DEF StoreStripeEvent, stripe, EventStatus
<1>10. ASSUME NEW h \in Handlers, NEW k \in Keys, NEW kind \in Kinds,
              TakeStripeEvent(h, k, kind)
       PROVE  TypeOK'
  <2>1. [step |-> "retrieve", key |-> k, kind |-> kind, seen |-> "none"] \in HandlerState
      BY DEF HandlerState, IntentStatus
  <2> QED
      BY <1>10, <2>1 DEF TakeStripeEvent, stripe
<1>11. ASSUME NEW h \in Handlers, RetrieveCurrentStripeObject(h) PROVE TypeOK'
  <2>1. handler[h].key \in Keys
      BY <1>11 DEF RetrieveCurrentStripeObject, ReservationInv, SeenTrue, Idle
  <2>2. intent[handler[h].key] \in IntentStatus
      BY <2>1
  <2>3. [handler[h] EXCEPT !.step = "project", !.seen = intent[handler[h].key]]
            \in HandlerState
      BY <2>2 DEF HandlerState
  <2> QED
      BY <1>11, <2>3 DEF RetrieveCurrentStripeObject, stripe
<1>12. IdleHandler \in HandlerState
    BY DEF IdleHandler, HandlerState, Kinds, IntentStatus
<1>13. ASSUME NEW h \in Handlers, ProjectStripeEvent(h) PROVE TypeOK'
  <2>1. handler[h].key \in Keys
      BY <1>13 DEF ProjectStripeEvent, ProjectObject, ReservationInv, SeenTrue, Idle
  <2>2. item' \in Item /\ payment' \in [Keys -> IntentStatus]
      BY <1>13, <2>1, ProjectType DEF ProjectStripeEvent
  <2>3. event' \in [EventIds -> EventStatus]
      BY <1>13 DEF ProjectStripeEvent, EventStatus
  <2> QED
      BY <1>12, <1>13, <2>2, <2>3 DEF ProjectStripeEvent, Release, stripe
<1>14. ASSUME NEW h \in Handlers, ProjectThenFail(h) \/ HandlerFails(h) PROVE TypeOK'
  <2>1. item' \in Item /\ payment' \in [Keys -> IntentStatus]
    <3>1. CASE ProjectThenFail(h)
      <4>1. handler[h].key \in Keys
          BY <3>1 DEF ProjectThenFail, ProjectObject, ReservationInv, SeenTrue, Idle
      <4> QED
          BY <3>1, <4>1, ProjectType DEF ProjectThenFail
    <3>2. CASE HandlerFails(h)
        BY <3>2 DEF HandlerFails
    <3> QED
        BY <1>14, <3>1, <3>2
  <2>2. failures' \in 0..MaxFailures
      BY <1>14 DEF ProjectThenFail, HandlerFails, Fault
  <2>3. handler' \in [Handlers -> HandlerState]
      BY <1>12, <1>14 DEF ProjectThenFail, HandlerFails, Release
  <2> QED
      BY <1>14, <2>1, <2>2, <2>3 DEF ProjectThenFail, HandlerFails, stripe
<1>15. CASE UNCHANGED vars
    BY <1>15 DEF vars, stripe
<1> QED
    BY <1>1, <1>2, <1>3, <1>4, <1>5, <1>6, <1>7, <1>8, <1>9, <1>10, <1>11, <1>13, <1>14,
       <1>15 DEF Next, CallStep, HandlerStep

\* The steps of a request.
LEMMA CallStepInv ==
    ASSUME ChargeInv, TypeOK', NEW c \in Calls, CallStep(c) \/ \E k \in Keys : Charge(c, k)
    PROVE  ReservationInv' /\ PaymentHoldsItem' /\ PaidOnce'
<1> USE DEF ChargeInv, TypeOK
<1>1. ASSUME NEW k \in Keys, Charge(c, k)
      PROVE  ReservationInv' /\ PaymentHoldsItem' /\ PaidOnce'
  <2>1. CallsHold'
      BY <1>1 DEF Charge, ReservationInv, CallsHold, At, NoCall, CallState, Paid, stripe
  <2>2. ItemHeld' /\ AnswersTrue' /\ SeenTrue' /\ PaymentHoldsItem' /\ PaidOnce'
      BY <1>1 DEF Charge, ReservationInv, ItemHeld, AnswersTrue, SeenTrue,
                  PaymentHoldsItem, PaidOnce, Idle, Unclaimed, Paid, stripe
  <2> QED
      BY <2>1, <2>2 DEF ReservationInv
<1>2. ASSUME ReadItem(c) PROVE ReservationInv' /\ PaymentHoldsItem' /\ PaidOnce'
  <2>1. CallsHold'
      BY <1>2 DEF ReadItem, Goto, Return, Resumes, ReservationInv, CallsHold, At, NoCall,
                  CallState, Paid, stripe
  <2>2. ItemHeld' /\ AnswersTrue' /\ SeenTrue' /\ PaymentHoldsItem' /\ PaidOnce'
      BY <1>2 DEF ReadItem, ReservationInv, ItemHeld, AnswersTrue, SeenTrue,
                  PaymentHoldsItem, PaidOnce, Idle, Unclaimed, Paid, stripe
  <2> QED
      BY <2>1, <2>2 DEF ReservationInv
<1>3. ASSUME ReserveItem(c) PROVE ReservationInv' /\ PaymentHoldsItem' /\ PaidOnce'
  <2>1. call[c].key \in Keys /\ At(c, "reserve")
      BY <1>3 DEF ReserveItem, ReservationInv, CallsHold, At
  <2>2. AnswersTrue' /\ SeenTrue'
      BY <1>3 DEF ReserveItem, ReservationInv, AnswersTrue, SeenTrue, Idle, Paid, stripe
  <2>3. CASE Reservable
    <3>1. /\ item'.status = "RESERVED"
          /\ item'.key = call[c].key
          /\ item'.intent = NoKey
      <4>1. item = OpenItem
          BY <2>3 DEF Reservable, ReservationInv, ItemHeld
      <4>2. item' = [item EXCEPT !.status = "RESERVED", !.key = call[c].key]
          BY <1>3, <2>3 DEF ReserveItem
      <4> QED
          BY <4>1, <4>2 DEF OpenItem
    <3>2. call' = [call EXCEPT ![c].step = "create"] /\ UNCHANGED intent
        BY <1>3, <2>3 DEF ReserveItem, Goto, stripe
    <3>3. /\ \A k \in Keys : intent[k] \in {"none", "canceled"}
          /\ \A d \in Calls : At(d, "create") => intent[call[d].key] # "none"
        BY <2>3 DEF Reservable, PaymentHoldsItem, ReservationInv, CallsHold, IntentStatus
    <3>4. CallsHold'
        BY <2>1, <3>1, <3>2, <3>3 DEF CallsHold, ReservationInv, At, CallState, Paid
    <3>5. ItemHeld'
        BY <2>1, <3>1 DEF ItemHeld
    <3>6. PaymentHoldsItem' /\ PaidOnce'
        BY <3>1, <3>2, <3>3 DEF PaymentHoldsItem, PaidOnce, Paid
    <3> QED
        BY <2>2, <3>4, <3>5, <3>6 DEF ReservationInv
  <2>4. CASE ~Reservable
    <3>1. CallsHold'
      <4>1. CASE call' = [call EXCEPT ![c] = [@ EXCEPT !.step = "read", !.attempt = 1]]
          BY <1>3, <2>1, <2>4, <4>1 DEF ReserveItem, ReservationInv, CallsHold, At,
                                        CallState, Paid, stripe
      <4>2. CASE call' = [call EXCEPT ![c] = NoCall]
          BY <1>3, <2>4, <4>2 DEF ReserveItem, ReservationInv, CallsHold, At, NoCall,
                                  CallState, Paid, stripe
      <4> QED
          BY <1>3, <2>4, <4>1, <4>2 DEF ReserveItem, Return
    <3>2. ItemHeld' /\ PaymentHoldsItem' /\ PaidOnce'
        BY <1>3, <2>4 DEF ReserveItem, ReservationInv, ItemHeld, PaymentHoldsItem,
                          PaidOnce, Unclaimed, Paid, stripe
    <3> QED
        BY <2>2, <3>1, <3>2 DEF ReservationInv
  <2> QED
      BY <2>3, <2>4
<1>4. ASSUME CreateIntent(c) PROVE ReservationInv' /\ PaymentHoldsItem' /\ PaidOnce'
  <2> DEFINE k == call[c].key
  <2>0. k \in Keys
      BY <1>4 DEF CreateIntent, ReservationInv, CallsHold, At
  <2>1. CallsHold'
      BY <1>4, <2>0 DEF CreateIntent, NewIntent, ReservationInv, CallsHold, AnswersTrue,
                        At, CallState, Paid, stripe
  <2>2. PaymentHoldsItem' /\ PaidOnce'
      BY <1>4, <2>0 DEF CreateIntent, NewIntent, ReservationInv, ItemHeld, CallsHold,
                        PaymentHoldsItem, PaidOnce, At, Unclaimed, Paid, stripe, OpenItem,
                        Item
  <2>3. ItemHeld' /\ AnswersTrue' /\ SeenTrue'
      BY <1>4, <2>0 DEF CreateIntent, NewIntent, ReservationInv, ItemHeld, AnswersTrue,
                        SeenTrue, Idle, Paid, stripe
  <2> QED
      BY <2>1, <2>2, <2>3 DEF ReservationInv
<1>5. ASSUME CreateIntentFails(c) PROVE ReservationInv' /\ PaymentHoldsItem' /\ PaidOnce'
  <2> DEFINE k == call[c].key
  <2>0. k \in Keys
      BY <1>5 DEF CreateIntentFails, ReservationInv, CallsHold, At
  <2>1. CallsHold'
      BY <1>5, <2>0 DEF CreateIntentFails, Return, NoCall, NewIntent, ReservationInv,
                        CallsHold, AnswersTrue, At, CallState, Paid, stripe
  <2>2. PaymentHoldsItem' /\ PaidOnce'
      BY <1>5, <2>0 DEF CreateIntentFails, NewIntent, ReservationInv, ItemHeld, CallsHold,
                        PaymentHoldsItem, PaidOnce, At, Unclaimed, Paid, stripe, OpenItem,
                        Item
  <2>3. ItemHeld' /\ AnswersTrue' /\ SeenTrue'
      BY <1>5, <2>0 DEF CreateIntentFails, NewIntent, ReservationInv, ItemHeld,
                        AnswersTrue, SeenTrue, Idle, Paid, stripe
  <2> QED
      BY <2>1, <2>2, <2>3 DEF ReservationInv
<1>6. ASSUME PersistIntent(c) PROVE ReservationInv' /\ PaymentHoldsItem' /\ PaidOnce'
  <2> DEFINE k == call[c].key
  <2>0. k \in Keys /\ intent[k] # "none"
      BY <1>6 DEF PersistIntent, ReservationInv, CallsHold, At
  <2>1. CallsHold'
      BY <1>6, <2>0 DEF PersistIntent, Return, NoCall, Unclaimed, ReservationInv,
                        CallsHold, At, CallState, Paid, stripe, Item
  <2>2. ItemHeld' /\ PaymentHoldsItem' /\ PaidOnce'
      BY <1>6, <2>0 DEF PersistIntent, ReservationInv, ItemHeld, CallsHold,
                        PaymentHoldsItem, PaidOnce, At, Unclaimed, Paid, stripe, OpenItem,
                        Item
  <2>3. AnswersTrue' /\ SeenTrue'
      BY <1>6 DEF PersistIntent, ReservationInv, AnswersTrue, SeenTrue, Idle, Paid, stripe
  <2> QED
      BY <2>1, <2>2, <2>3 DEF ReservationInv
<1>7. ASSUME PersistFails(c) PROVE ReservationInv' /\ PaymentHoldsItem' /\ PaidOnce'
  <2>1. CallsHold'
      BY <1>7 DEF PersistFails, Return, ReservationInv, CallsHold, At, NoCall, CallState,
                  Paid, stripe
  <2>2. ItemHeld' /\ AnswersTrue' /\ SeenTrue' /\ PaymentHoldsItem' /\ PaidOnce'
      BY <1>7 DEF PersistFails, ReservationInv, ItemHeld, AnswersTrue, SeenTrue,
                  PaymentHoldsItem, PaidOnce, Idle, Unclaimed, Paid, stripe
  <2> QED
      BY <2>1, <2>2 DEF ReservationInv
<1> QED
    BY <1>1, <1>2, <1>3, <1>4, <1>5, <1>6, <1>7 DEF CallStep

\* The steps of Stripe, and the storing of its events.
LEMMA StripeStepInv ==
    ASSUME ChargeInv, TypeOK', NEW k \in Keys,
           \/ PayIntent(k) \/ CancelIntent(k) \/ RefundIntent(k)
           \/ \E kind \in Kinds : StoreStripeEvent(k, kind)
    PROVE  ReservationInv' /\ PaymentHoldsItem' /\ PaidOnce'
<1> USE DEF ChargeInv, TypeOK, ReservationInv
<1>1. CASE PayIntent(k) \/ RefundIntent(k)
  <2>1. CallsHold'
      BY <1>1 DEF PayIntent, RefundIntent, Settle, CallsHold, At, Paid
  <2>2. AnswersTrue' /\ ItemHeld'
      BY <1>1 DEF PayIntent, RefundIntent, Settle, AnswersTrue, ItemHeld, Paid
  <2>3. SeenTrue'
      BY <1>1 DEF PayIntent, RefundIntent, Settle, SeenTrue, Idle, Paid
  <2>4. PaymentHoldsItem'
      BY <1>1 DEF PayIntent, RefundIntent, Settle, PaymentHoldsItem, Unclaimed
  <2>5. PaidOnce'
    <3>1. \A i, j \in Keys : Paid(i)' /\ Paid(j)' => i = j
        BY <2>4 DEF PaymentHoldsItem, Unclaimed, Paid
    <3>2. \A i \in Keys : Paid(i) => Paid(i)'
        BY <1>1 DEF PayIntent, RefundIntent, Settle, Paid
    <3>3. item' = item
        BY <1>1 DEF PayIntent, RefundIntent, Settle
    <3>4. item.status = "CONSUMED" => item.intent \in Keys
        BY DEF PaidOnce, ItemHeld, Paid
    <3> QED
        BY <3>1, <3>2, <3>3, <3>4 DEF PaidOnce
  <2> QED
      BY <2>1, <2>2, <2>3, <2>4, <2>5
<1>2. CASE CancelIntent(k)
  <2>1. CallsHold'
      BY <1>2 DEF CancelIntent, Settle, CallsHold, At, Paid
  <2>2. AnswersTrue' /\ ItemHeld'
      BY <1>2 DEF CancelIntent, Settle, AnswersTrue, ItemHeld, Paid
  <2>3. SeenTrue'
      BY <1>2 DEF CancelIntent, Settle, SeenTrue, Idle, Paid
  <2>4. PaymentHoldsItem' /\ PaidOnce'
      BY <1>2 DEF CancelIntent, Settle, PaymentHoldsItem, PaidOnce, Unclaimed, Paid
  <2> QED
      BY <2>1, <2>2, <2>3, <2>4
<1>3. ASSUME NEW kind \in Kinds, StoreStripeEvent(k, kind)
      PROVE  ReservationInv' /\ PaymentHoldsItem' /\ PaidOnce'
    BY <1>3 DEF StoreStripeEvent, stripe, CallsHold, AnswersTrue, ItemHeld, SeenTrue,
                PaymentHoldsItem, PaidOnce, Unclaimed, At, Idle, Paid
<1> QED
    BY <1>1, <1>2, <1>3

\* What a worker writes about the item keeps it with the key that holds it: a
\* success it has seen consumes the item for its own key, and a cancellation it
\* has seen frees only an item whose intent nobody can pay any more.
LEMMA ProjectionInv ==
    ASSUME ChargeInv, NEW h \in Handlers, ProjectObject(h), UNCHANGED <<call, stripe>>
    PROVE  ItemHeld' /\ CallsHold' /\ AnswersTrue' /\ PaymentHoldsItem' /\ PaidOnce'
<1> DEFINE k == handler[h].key
           seen == handler[h].seen
<1> USE DEF ChargeInv, TypeOK, ReservationInv
<1>1. /\ k \in Keys
      /\ seen = "canceled" => intent[k] = "canceled"
      /\ seen \in {"succeeded", "refunded"} => Paid(k)
    BY DEF ProjectObject, SeenTrue, Idle
<1>2. item' = item \/ item' = ProjectChargeableItem(k, seen)
    BY DEF ProjectObject
<1> HIDE DEF k, seen
<1>3. AnswersTrue'
    BY DEF AnswersTrue, Paid, stripe
<1>4. CASE item' = item
    BY <1>3, <1>4 DEF ItemHeld, CallsHold, PaymentHoldsItem, PaidOnce, Unclaimed, At,
                      Paid, stripe
<1>5. CASE /\ Paid(k) /\ item.status # "OPEN" /\ Unclaimed(k)
           /\ item' = [item EXCEPT !.intent = k, !.status = "CONSUMED"]
  <2>1. item'.status = "CONSUMED" /\ item'.key = k /\ item'.intent = k /\ item.key = k
      BY <1>5 DEF Item, Unclaimed
  <2>2. ItemHeld' /\ PaymentHoldsItem' /\ PaidOnce'
      BY <1>1, <1>5, <2>1 DEF ItemHeld, PaymentHoldsItem, PaidOnce, Unclaimed, Paid,
                              stripe
  <2>3. CallsHold'
      BY <1>1, <1>5, <2>1 DEF CallsHold, At, Paid, stripe
  <2> QED
      BY <1>3, <2>2, <2>3
<1>6. CASE /\ intent[k] = "canceled" /\ item.status = "RESERVED" /\ Unclaimed(k)
           /\ item' = OpenItem
  <2>1. ItemHeld'
      BY <1>6 DEF ItemHeld, OpenItem
  <2>2. PaymentHoldsItem' /\ PaidOnce'
      BY <1>1, <1>6 DEF PaymentHoldsItem, PaidOnce, Unclaimed, Paid, stripe, OpenItem
  <2>3. CallsHold'
      BY <1>1, <1>6 DEF CallsHold, At, Paid, stripe, Unclaimed
  <2> QED
      BY <1>3, <2>1, <2>2, <2>3
<1>7. CASE item.status = "RESERVED" /\ Unclaimed(k) /\ item' = [item EXCEPT !.intent = k]
  <2>1. item'.status = "RESERVED" /\ item'.key = k /\ item'.intent = k /\ item.key = k
      BY <1>7 DEF Item, Unclaimed
  <2>2. ItemHeld' /\ PaymentHoldsItem' /\ PaidOnce'
      BY <1>1, <1>7, <2>1 DEF ItemHeld, PaymentHoldsItem, PaidOnce, Unclaimed, Paid,
                              stripe
  <2>3. CallsHold'
      BY <1>7, <2>1 DEF CallsHold, At, Paid, stripe
  <2> QED
      BY <1>3, <2>2, <2>3
<1> QED
    BY <1>1, <1>2, <1>4, <1>5, <1>6, <1>7 DEF ProjectChargeableItem

\* The steps of a worker.
LEMMA HandlerStepInv ==
    ASSUME ChargeInv, TypeOK', NEW h \in Handlers,
           HandlerStep(h) \/ ProjectThenFail(h) \/ HandlerFails(h)
    PROVE  ReservationInv' /\ PaymentHoldsItem' /\ PaidOnce'
<1> USE DEF ChargeInv, TypeOK, ReservationInv
<1>1. ASSUME Release(h), UNCHANGED intent PROVE SeenTrue'
    BY <1>1 DEF Release, IdleHandler, SeenTrue, Idle, Paid
<1>2. ASSUME UNCHANGED <<item, call, stripe>>
      PROVE  ItemHeld' /\ CallsHold' /\ AnswersTrue' /\ PaymentHoldsItem' /\ PaidOnce'
    BY <1>2 DEF stripe, CallsHold, AnswersTrue, ItemHeld, PaymentHoldsItem, PaidOnce,
                Unclaimed, At, Paid
<1>3. ASSUME NEW k \in Keys, NEW kind \in Kinds, TakeStripeEvent(h, k, kind)
      PROVE  ReservationInv' /\ PaymentHoldsItem' /\ PaidOnce'
  <2>1. SeenTrue'
      BY <1>3 DEF TakeStripeEvent, SeenTrue, Idle, Paid, stripe
  <2> QED
      BY <1>2, <1>3, <2>1 DEF TakeStripeEvent
<1>4. CASE RetrieveCurrentStripeObject(h)
  <2>1. handler[h].key \in Keys
      BY <1>4 DEF RetrieveCurrentStripeObject, SeenTrue, Idle
  <2>2. SeenTrue'
      BY <1>4, <2>1 DEF RetrieveCurrentStripeObject, SeenTrue, Idle, Paid, stripe,
                        HandlerState
  <2> QED
      BY <1>2, <1>4, <2>2 DEF RetrieveCurrentStripeObject
<1>5. CASE ProjectStripeEvent(h)
    BY <1>1, <1>5, ProjectionInv DEF ProjectStripeEvent, stripe
<1>6. CASE ProjectThenFail(h)
    BY <1>1, <1>6, ProjectionInv DEF ProjectThenFail, stripe
<1>7. CASE HandlerFails(h)
    BY <1>1, <1>2, <1>7 DEF HandlerFails, stripe
<1> QED
    BY <1>3, <1>4, <1>5, <1>6, <1>7 DEF HandlerStep

\* The invariant is inductive.
LEMMA NextInv == ChargeInv /\ [Next]_vars => ChargeInv'
<1> SUFFICES ASSUME ChargeInv, [Next]_vars PROVE ChargeInv'
    OBVIOUS
<1>1. TypeOK'
    BY TypeStep DEF ChargeInv
<1>2. CASE UNCHANGED vars
    BY <1>1, <1>2 DEF vars, stripe, ChargeInv, ReservationInv, CallsHold, AnswersTrue,
                      ItemHeld, SeenTrue, PaymentHoldsItem, PaidOnce, Unclaimed, At, Idle,
                      Paid
<1>3. CASE Next
  <2>1. ReservationInv' /\ PaymentHoldsItem' /\ PaidOnce'
      BY <1>1, <1>3, CallStepInv, StripeStepInv, HandlerStepInv DEF Next
  <2> QED
      BY <1>1, <2>1 DEF ChargeInv
<1> QED
    BY <1>2, <1>3

\* The invariant holds in every reachable state.
LEMMA ChargeInvAlways == Spec => []ChargeInv
    BY InitInv, NextInv, PTL DEF Spec

\* The chargeable_items row, requests, events and workers keep their types.
THEOREM TypeCorrect == Spec => []TypeOK
    BY ChargeInvAlways, PTL DEF ChargeInv

\* Nobody who still has a step to take can take the item from the key that
\* holds it: reserve, recordPaymentIntent and projectChargeableItem agree.
THEOREM ReservationAlways == Spec => []ReservationInv
    BY ChargeInvAlways, PTL DEF ChargeInv

\* A PaymentIntent that can be paid, or is, holds the item for its key: another
\* key is refused by reserve for as long.
THEOREM PaymentHoldsItemAlways == Spec => []PaymentHoldsItem
    BY ChargeInvAlways, PTL DEF ChargeInv

\* createCharge and the webhooks never let two keys pay for one item, and never
\* consume it without a settled payment.
THEOREM PaidOnceAlways == Spec => []PaidOnce
    BY ChargeInvAlways, PTL DEF ChargeInv

=============================================================================
